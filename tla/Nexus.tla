------------------------------- MODULE Nexus -------------------------------
(***************************************************************************)
(* How the store actor turns one Signal request into one reply             *)
(* (src/src/lib.rs, handle_ordinary_request, handle_meta_request and       *)
(* RepositoryLedgerNexusEngines), over the methods of Store.tla.           *)
(*                                                                         *)
(* The runner of triad-runtime is external: it asks decide_next_step what  *)
(* to do with a piece of work, performs the command it is given, and takes *)
(* the result as the next piece of work until it is given a reply.  Its    *)
(* continuation budget, which its default makes larger than the two        *)
(* decisions of a request, is not modelled.                                *)
(***************************************************************************)
EXTENDS Store

VARIABLES
  work,        \* the work the runner holds
  signalTier,  \* RepositoryLedgerNexusEngines::signal_tier
  lastError,   \* RepositoryLedgerNexusEngines::last_error
  reply,       \* the last reply frame
  since        \* history: the commit sequence when the request arrived

nexusVars == <<work, signalTier, lastError, reply, since>>

----------------------------------------------------------------------------
(* Requests.                                                               *)

Receive(n) == [tier |-> "ordinary", kind |-> "Receive", notification |-> n]
Observe(n, list) ==
  [tier |-> "ordinary", kind |-> "Observe", notification |-> n,
   commits |-> list]
Query == [tier |-> "ordinary", kind |-> "Query"]
Register(r, c) ==
  [tier |-> "meta", kind |-> "Register", repository |-> r, class |-> c]
Retire(r) == [tier |-> "meta", kind |-> "Retire", repository |-> r]
SetSpoolDirectory(p) ==
  [tier |-> "meta", kind |-> "SetSpoolDirectory", path |-> p]
SetMirror(r, t) ==
  [tier |-> "meta", kind |-> "SetMirror", repository |-> r, target |-> t]

Operation ==
  {Receive(n) : n \in Notification}
    \cup {Observe(n, list) : n \in Notification, list \in CommitList}
    \cup {Query}
    \cup {Register(r, c) : r \in Repository, c \in Class}
    \cup {Retire(r) : r \in Repository}
    \cup {SetSpoolDirectory(p) : p \in SpoolPath}
    \cup {SetMirror(r, t) : r \in Repository, t \in MirrorTarget}

----------------------------------------------------------------------------
(* Work, errors and replies.                                               *)

None == "none"

NoWork == [at |-> "none"]
SignalArrived(operation) == [at |-> "arrived", operation |-> operation]
Command(operation) == [at |-> "command", operation |-> operation]
Applying(operation) == [at |-> "applying", operation |-> operation]
Completed(output) == [at |-> "completed", output |-> output]

(* The output that apply_sema_write and observe_sema_read give for each    *)
(* operation, and the tier of the reply it becomes.                        *)
OutputOf(operation) ==
  CASE operation.kind \in {"Receive", "Observe"} -> "EventRecorded"
    [] operation.kind = "Query" -> "QueryResult"
    [] operation.kind = "Register" -> "Registered"
    [] operation.kind = "Retire" -> "Retired"
    [] operation.kind = "SetSpoolDirectory" -> "SpoolDirectoryPolicySet"
    [] operation.kind = "SetMirror" -> "MirrorPolicySet"

Rejected == {"WriteRejected", "ReadMiss"}

OutputTier(output) ==
  CASE output \in {"EventRecorded", "QueryResult"} -> "ordinary"
    [] output \in {"Registered", "Retired", "SpoolDirectoryPolicySet",
                   "MirrorPolicySet"} -> "meta"
    [] output \in Rejected -> IF signalTier = "meta" THEN "meta" ELSE "ordinary"

(* An Engine error reported as one that never reaches the engine.          *)
CommitStatusAllNotCommitted(error) == "NotCommitted"

(* BatchErrorClassification of the errors a request can meet.              *)
CommitStatus(error) == IF error = "Engine" THEN "Unknown" ELSE "NotCommitted"
RetryClassification(error) ==
  IF error = "Engine" THEN "Unknown" ELSE "NotRetryable"

BatchAborted(tier, error) ==
  [frame |-> "aborted", tier |-> tier, commit |-> CommitStatus(error),
   retry |-> RetryClassification(error)]
Committed(tier, output) ==
  [frame |-> "committed", tier |-> tier, output |-> output]
NoReply == [frame |-> None]

NexusTypeOK ==
  /\ TypeOK
  /\ work \in {NoWork}
       \cup [at : {"arrived", "command", "applying"}, operation : Operation]
       \cup [at : {"completed"},
             output : {OutputOf(o) : o \in Operation} \cup Rejected]
  /\ signalTier \in {None, "ordinary", "meta"}
  /\ lastError \in {None, "Engine"}
  /\ since \in 0..MaxSequence
  /\ work.at \in {"command", "applying"} => signalTier = work.operation.tier

NexusInit ==
  /\ Init
  /\ work = NoWork
  /\ signalTier = None
  /\ lastError = None
  /\ reply = NoReply
  /\ since = 0

----------------------------------------------------------------------------
(* One request.                                                            *)

(* A batch of more than one operation is refused before anything is done.  *)
ArriveBatch(tier) ==
  /\ Ready
  /\ work = NoWork
  /\ reply' = BatchAborted(tier, "UnsupportedAtomicBatch")
  /\ since' = commitSequence
  /\ UNCHANGED <<vars, work, signalTier, lastError>>

(* A single operation starts a runner of its own.                          *)
Arrive(operation) ==
  /\ Ready
  /\ work = NoWork
  /\ work' = SignalArrived(operation)
  /\ signalTier' = None
  /\ lastError' = None
  /\ reply' = NoReply
  /\ since' = commitSequence
  /\ UNCHANGED vars

(* A tier that is never noted.                                             *)
DecideCommandWithoutTier ==
  /\ work.at = "arrived"
  /\ work' = Command(work.operation)
  /\ UNCHANGED <<vars, signalTier, lastError, reply, since>>

(* action_for_signal_input notes the tier and commands a write or a read.  *)
DecideCommand ==
  /\ work.at = "arrived"
  /\ signalTier' = work.operation.tier
  /\ work' = Command(work.operation)
  /\ UNCHANGED <<vars, lastError, reply, since>>

(* The method the command calls, up to its first engine commit.            *)
Call(operation) ==
  \/ /\ operation.kind = "Receive"
     /\ RecordHookNotification(operation.notification)
  \/ /\ operation.kind = "Observe"
     /\ RecordPushObservation(operation.notification, operation.commits)
  \/ /\ operation.kind = "Query"
     /\ call' = Done
     /\ UNCHANGED <<tables, commitSequence, checkpoint, recorded>>
  \/ /\ operation.kind = "Register"
     /\ RegisterRepository(operation.repository, operation.class)
  \/ /\ operation.kind = "Retire"
     /\ RetireRepository(operation.repository)
  \/ /\ operation.kind = "SetSpoolDirectory"
     /\ SetSpoolDirectoryPolicy(operation.path)
  \/ /\ operation.kind = "SetMirror"
     /\ SetMirrorPolicy(operation.repository, operation.target)

Apply ==
  /\ work.at = "command"
  /\ Call(work.operation) \/ EngineError
  /\ work' = Applying(work.operation)
  /\ UNCHANGED <<signalTier, lastError, reply, since>>

(* The method goes on, or one of its engine calls returns an error.        *)
MethodStep ==
  /\ work.at = "applying"
  /\ call.at # "failed"
  /\ AssertCommit \/ EngineError
  /\ UNCHANGED nexusVars

(* A rejection that is only an output, not an error.                       *)
CompleteForgettingTheError ==
  /\ work.at = "applying"
  /\ Ready
  /\ LET operation == work.operation
     IN  work' = Completed(IF call.at # "failed" THEN OutputOf(operation)
                           ELSE IF operation.kind = "Query" THEN "ReadMiss"
                           ELSE "WriteRejected")
  /\ UNCHANGED <<vars, signalTier, lastError, reply, since>>

(* apply_sema_write and observe_sema_read keep the error of a method that  *)
(* failed and give a rejection in its place.                               *)
Complete ==
  /\ work.at = "applying"
  /\ Ready
  /\ LET operation == work.operation
     IN  \/ /\ call.at = "failed"
            /\ lastError' = "Engine"
            /\ work' = Completed(IF operation.kind = "Query" THEN "ReadMiss"
                                                     ELSE "WriteRejected")
         \/ /\ call.at # "failed"
            /\ work' = Completed(OutputOf(operation))
            /\ UNCHANGED lastError
  /\ UNCHANGED <<vars, signalTier, reply, since>>

(* action_for_sema_write_output and action_for_sema_read_output make the   *)
(* output a reply; the error, if there was one, takes its place.           *)
Answer ==
  /\ work.at = "completed"
  /\ reply' = IF lastError # None THEN BatchAborted(signalTier, lastError)
              ELSE IF OutputTier(work.output) # signalTier
              THEN BatchAborted(signalTier, "NexusReplyTierMismatch")
              ELSE Committed(signalTier, work.output)
  /\ work' = NoWork
  /\ lastError' = None
  /\ UNCHANGED <<vars, signalTier, since>>

(* The process dies with the request, and is started again.                *)
CrashAndOpen ==
  \/ /\ Crash
     /\ work' = NoWork
     /\ reply' = NoReply
     /\ UNCHANGED <<signalTier, lastError, since>>
  \/ /\ Open
     /\ UNCHANGED nexusVars

NexusNext ==
  \/ \E tier \in {"ordinary", "meta"} : ArriveBatch(tier)
  \/ \E operation \in Operation : Arrive(operation)
  \/ DecideCommand
  \/ Apply
  \/ MethodStep
  \/ Complete
  \/ Answer
  \/ CrashAndOpen

NexusSpec == NexusInit /\ [][NexusNext]_<<vars, nexusVars>>

----------------------------------------------------------------------------
(* Properties.                                                             *)

(* A client that is told NotCommitted may submit again without a duplicate *)
(* or a half-recorded push: the engine has committed nothing for it.       *)
NotCommittedIsTrue ==
  reply.frame = "aborted" /\ reply.commit = "NotCommitted" =>
    commitSequence = since

(* A method that failed, wherever it stopped, is never answered with a     *)
(* committed reply: the RequestUnimplemented that stands for a rejection   *)
(* inside the runner does not reach the client as a success.               *)
RejectionIsNotCommitted ==
  reply.frame = "committed" => reply.output \notin Rejected

(* A committed reply is as good as the result of its method: EventRecorded *)
(* means the event and every commit of the observation are stored, and     *)
(* each write that is answered so has taken at least one engine commit.    *)
CommittedIsDurable ==
  reply.frame = "committed" =>
    /\ (reply.output = "EventRecorded" =>
          call.at = "recorded" /\ RecordedIsComplete)
    /\ (reply.output # "QueryResult" => since < commitSequence)

============================================================================
