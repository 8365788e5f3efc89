---------------------------- MODULE NexusProofs ----------------------------
(* Theorems about Nexus.tla, for every value of its constants: what a      *)
(* reply frame says of the engine is true.  They rest on the invariant of  *)
(* the store that StoreProofs.tla proves.                                  *)
EXTENDS Nexus, StoreProofs

----------------------------------------------------------------------------
(* The inductive invariant.                                                *)

(* What an output that is not a rejection claims.                          *)
Earned(output) ==
  /\ output \notin Rejected
  /\ output = "EventRecorded" => call.at = "recorded"
  /\ output # "QueryResult" => since < commitSequence

(* What the runner knows at each stage of a request.                       *)
NotCalled ==
  work.at \in {"arrived", "command"} =>
    /\ Ready
    /\ lastError = None
    /\ since = commitSequence

MethodSoFar ==
  work.at = "applying" =>
    /\ lastError = None
    /\ call.at # "failed" =>
         /\ OutputOf(work.operation) = "EventRecorded" =>
              call.at \in {"observing", "recorded"}
         /\ OutputOf(work.operation) # "EventRecorded" => call.at = "done"
         /\ OutputOf(work.operation) # "QueryResult" => since < commitSequence

ErrorIsKept ==
  work.at = "completed" /\ lastError = None =>
    Earned(work.output) /\ OutputTier(work.output) = signalTier

(* A reply stands until the next request arrives.                          *)
ReplyIsTrue ==
  /\ reply.frame = "committed" => work = NoWork /\ Earned(reply.output)
  /\ reply.frame = "aborted" /\ reply.commit = "NotCommitted" =>
       work = NoWork /\ since = commitSequence

NexusInv ==
  /\ IInv
  /\ NexusTypeOK
  /\ NotCalled
  /\ MethodSoFar
  /\ ErrorIsKept
  /\ ReplyIsTrue

----------------------------------------------------------------------------
(* Operations and their outputs.                                           *)

LEMMA OutputOfOperation ==
  ASSUME NEW o \in Operation
  PROVE  /\ OutputOf(o) \notin Rejected
         /\ OutputTier(OutputOf(o)) = o.tier
         /\ o.tier \in {"ordinary", "meta"}
         /\ OutputOf(o) = "EventRecorded" <=> o.kind \in {"Receive", "Observe"}
         /\ OutputOf(o) = "QueryResult" <=> o.kind = "Query"
<1>1. \/ o.kind \in {"Receive", "Observe", "Query"} /\ o.tier = "ordinary"
      \/ /\ o.kind \in {"Register", "Retire", "SetSpoolDirectory",
                        "SetMirror"}
         /\ o.tier = "meta"
  BY DEF Operation, Receive, Observe, Query, Register, Retire,
         SetSpoolDirectory, SetMirror
<1> QED
  BY <1>1 DEF OutputOf, OutputTier, Rejected

LEMMA StoreTypes ==
  ASSUME NexusInv
  PROVE  /\ commitSequence \in Nat
         /\ since \in Nat
BY StoreAssumption DEF NexusInv, NexusTypeOK, TypeOK

(* A step that only moves the request along leaves the store as it is.     *)
LEMMA StoreUnchanged ==
  ASSUME NexusInv, UNCHANGED vars
  PROVE  IInv' /\ TypeOK'
<1>1. IInv'
  BY InvStep DEF NexusInv
<1> QED
  BY <1>1 DEF IInv

LEMMA StoreMoves ==
  ASSUME NexusInv, Next
  PROVE  IInv' /\ TypeOK'
<1>1. IInv'
  BY InvStep DEF NexusInv
<1> QED
  BY <1>1 DEF IInv

----------------------------------------------------------------------------

LEMMA NexusInvInit == NexusInit => NexusInv
<1> SUFFICES ASSUME NexusInit
             PROVE  NexusInv
  OBVIOUS
<1>1. IInv /\ TypeOK
  BY InvInit DEF NexusInit, IInv
<1>2. NexusTypeOK
  BY <1>1, StoreAssumption DEF NexusInit, NexusTypeOK, NoWork, None
<1> QED
  BY <1>1, <1>2
  DEF NexusInit, NexusInv, NotCalled, MethodSoFar, ErrorIsKept, ReplyIsTrue,
      NoWork, NoReply, None

LEMMA ArrivePreserves ==
  ASSUME NexusInv,
         \/ \E tier \in {"ordinary", "meta"} : ArriveBatch(tier)
         \/ \E operation \in Operation : Arrive(operation)
  PROVE  NexusInv'
<1>1. UNCHANGED vars /\ Ready /\ since' = commitSequence
  BY DEF ArriveBatch, Arrive
<1>2. IInv' /\ TypeOK'
  BY <1>1, StoreUnchanged
<1>3. since' \in 0..MaxSequence
  BY <1>1 DEF NexusInv, NexusTypeOK, TypeOK
<1>4. ASSUME NEW tier \in {"ordinary", "meta"}, ArriveBatch(tier)
      PROVE  NexusInv'
  <2>1. work' = NoWork /\ UNCHANGED <<signalTier, lastError>>
        /\ reply'.frame = "aborted"
    BY <1>4 DEF ArriveBatch, BatchAborted
  <2>2. NexusTypeOK'
    BY <1>2, <1>3, <2>1 DEF NexusInv, NexusTypeOK, NoWork
  <2> QED
    BY <1>1, <1>2, <2>1, <2>2
    DEF NexusInv, NotCalled, MethodSoFar, ErrorIsKept, ReplyIsTrue, NoWork,
        vars
<1>5. ASSUME NEW operation \in Operation, Arrive(operation)
      PROVE  NexusInv'
  <2>1. /\ work' = SignalArrived(operation)
        /\ signalTier' = None /\ lastError' = None /\ reply' = NoReply
    BY <1>5 DEF Arrive
  <2>2. NexusTypeOK'
    BY <1>2, <1>3, <2>1 DEF NexusTypeOK, SignalArrived, None
  <2>3. NotCalled'
    BY <1>1, <2>1 DEF NotCalled, Ready, vars
  <2> QED
    BY <1>1, <1>2, <2>1, <2>2, <2>3
    DEF NexusInv, MethodSoFar, ErrorIsKept, ReplyIsTrue, SignalArrived,
        NoReply, None
<1> QED
  BY <1>4, <1>5

LEMMA DecideCommandPreserves ==
  ASSUME NexusInv, DecideCommand
  PROVE  NexusInv'
<1>1. UNCHANGED <<vars, lastError, reply, since>> /\ work.at = "arrived"
      /\ work' = Command(work.operation)
      /\ signalTier' = work.operation.tier
  BY DEF DecideCommand
<1>2. IInv' /\ TypeOK'
  BY <1>1, StoreUnchanged
<1>3. work.operation \in Operation
  BY <1>1 DEF NexusInv, NexusTypeOK, NoWork
<1>4. NexusTypeOK'
  BY <1>1, <1>2, <1>3, OutputOfOperation
  DEF NexusInv, NexusTypeOK, Command, None
<1>5. NotCalled'
  BY <1>1 DEF NexusInv, NotCalled, Ready, vars, None
<1>6. reply.frame # "committed"
      /\ ~(reply.frame = "aborted" /\ reply.commit = "NotCommitted")
  BY <1>1 DEF NexusInv, ReplyIsTrue, NoWork
<1> QED
  BY <1>1, <1>2, <1>4, <1>5, <1>6
  DEF NexusInv, MethodSoFar, ErrorIsKept, ReplyIsTrue, Command

(* The first engine commit of a method, or none.                           *)
LEMMA CallSteps ==
  ASSUME NexusInv, NEW o \in Operation, Call(o)
  PROVE  /\ IInv' /\ TypeOK'
         /\ call'.at = "failed" \/
              /\ o.kind \in {"Receive", "Observe"} =>
                   call'.at \in {"observing", "recorded"}
              /\ o.kind \notin {"Receive", "Observe"} => call'.at = "done"
              /\ o.kind # "Query" => commitSequence' = commitSequence + 1
<1>1. CASE /\ o.kind = "Query"
           /\ call' = Done
           /\ UNCHANGED <<tables, commitSequence, checkpoint, recorded>>
  <2>1. TypeOK'
    BY <1>1 DEF NexusInv, IInv, TypeOK, tables
  <2>2. commitSequence <= commitSequence'
    BY <1>1, StoreTypes
  <2>3. IInv'
    BY <1>1, <2>1, <2>2, QuietStep DEF NexusInv, tables
  <2> QED
    BY <1>1, <2>1, <2>3 DEF Done
<1>2. CASE o.kind = "Receive" /\ RecordHookNotification(o.notification)
  <2>1. o.notification \in Notification
    BY <1>2 DEF Operation, Receive, Observe, Query, Register, Retire,
                SetSpoolDirectory, SetMirror
  <2>2. Next
    BY <1>2, <2>1 DEF Next, RecordNext
  <2> QED
    BY <1>2, <2>2, StoreMoves
    DEF RecordHookNotification, AssertEvent, EngineCommit, Recorded
<1>3. CASE /\ o.kind = "Observe"
           /\ RecordPushObservation(o.notification, o.commits)
  <2>1. o.notification \in Notification /\ o.commits \in CommitList
    BY <1>3 DEF Operation, Receive, Observe, Query, Register, Retire,
                SetSpoolDirectory, SetMirror
  <2>2. Next
    BY <1>3, <2>1 DEF Next, RecordNext
  <2> QED
    BY <1>3, <2>2, StoreMoves
    DEF RecordPushObservation, AssertEvent, EngineCommit, Recorded,
        Observing
<1>4. CASE o.kind = "Register" /\ RegisterRepository(o.repository, o.class)
  <2>1. o.repository \in Repository /\ o.class \in Class
    BY <1>4 DEF Operation, Receive, Observe, Query, Register, Retire,
                SetSpoolDirectory, SetMirror
  <2>2. Next
    BY <1>4, <2>1 DEF Next, PolicyNext
  <2> QED
    BY <1>4, <2>2, StoreMoves DEF RegisterRepository, EngineCommit, Done
<1>5. CASE o.kind = "Retire" /\ RetireRepository(o.repository)
  <2>1. o.repository \in Repository
    BY <1>5 DEF Operation, Receive, Observe, Query, Register, Retire,
                SetSpoolDirectory, SetMirror
  <2>2. Next
    BY <1>5, <2>1 DEF Next, PolicyNext
  <2> QED
    BY <1>5, <2>2, StoreMoves DEF RetireRepository, EngineCommit, Done, Failed
<1>6. CASE o.kind = "SetSpoolDirectory" /\ SetSpoolDirectoryPolicy(o.path)
  <2>1. o.path \in SpoolPath
    BY <1>6 DEF Operation, Receive, Observe, Query, Register, Retire,
                SetSpoolDirectory, SetMirror
  <2>2. Next
    BY <1>6, <2>1 DEF Next, PolicyNext
  <2> QED
    BY <1>6, <2>2, StoreMoves DEF SetSpoolDirectoryPolicy, EngineCommit, Done
<1>7. CASE o.kind = "SetMirror" /\ SetMirrorPolicy(o.repository, o.target)
  <2>1. o.repository \in Repository /\ o.target \in MirrorTarget
    BY <1>7 DEF Operation, Receive, Observe, Query, Register, Retire,
                SetSpoolDirectory, SetMirror
  <2>2. Next
    BY <1>7, <2>1 DEF Next, PolicyNext
  <2> QED
    BY <1>7, <2>2, StoreMoves DEF SetMirrorPolicy, EngineCommit, Done
<1> QED
  BY <1>1, <1>2, <1>3, <1>4, <1>5, <1>6, <1>7 DEF Call

LEMMA ApplyPreserves ==
  ASSUME NexusInv, Apply
  PROVE  NexusInv'
<1> DEFINE o == work.operation
<1>1. /\ work.at = "command" /\ work' = Applying(o)
      /\ UNCHANGED <<signalTier, lastError, reply, since>>
      /\ Call(o) \/ EngineError
  BY DEF Apply
<1>2. /\ o \in Operation /\ signalTier = o.tier
      /\ lastError = None /\ since = commitSequence
  BY <1>1 DEF NexusInv, NexusTypeOK, NotCalled, NoWork
<1>3. /\ IInv' /\ TypeOK'
      /\ call'.at = "failed" \/
           /\ o.kind \in {"Receive", "Observe"} =>
                call'.at \in {"observing", "recorded"}
           /\ o.kind \notin {"Receive", "Observe"} => call'.at = "done"
           /\ o.kind # "Query" => commitSequence' = commitSequence + 1
  <2>1. CASE Call(o)
    BY <1>2, <2>1, CallSteps
  <2>2. CASE EngineError
    BY <2>2, StoreMoves DEF Next, EngineError, Failed
  <2> QED
    BY <1>1, <2>1, <2>2
<1>4. NexusTypeOK'
  BY <1>1, <1>2, <1>3 DEF NexusInv, NexusTypeOK, Applying
<1>5. MethodSoFar'
  BY <1>1, <1>2, <1>3, OutputOfOperation, StoreTypes
  DEF MethodSoFar, Applying
<1>6. reply.frame # "committed"
      /\ ~(reply.frame = "aborted" /\ reply.commit = "NotCommitted")
  BY <1>1 DEF NexusInv, ReplyIsTrue, NoWork
<1> QED
  BY <1>1, <1>3, <1>4, <1>5, <1>6
  DEF NexusInv, NotCalled, ErrorIsKept, ReplyIsTrue, Applying

LEMMA MethodStepPreserves ==
  ASSUME NexusInv, MethodStep
  PROVE  NexusInv'
<1>1. /\ work.at = "applying" /\ call.at # "failed"
      /\ UNCHANGED nexusVars
      /\ AssertCommit \/ EngineError
  BY DEF MethodStep
<1>2. Next
  BY <1>1 DEF Next, RecordNext
<1>3. IInv' /\ TypeOK'
  BY <1>2, StoreMoves
<1>4. NexusTypeOK'
  BY <1>1, <1>3 DEF NexusInv, NexusTypeOK, nexusVars, OutputOf
<1>5. MethodSoFar'
  <2>1. CASE AssertCommit
    <3>1. /\ call.at = "observing"
          /\ commitSequence' = commitSequence + 1
          /\ call'.at \in {"observing", "recorded"}
      <4>1. call.at = "observing" /\ commitSequence' = commitSequence + 1
        BY <2>1 DEF AssertCommit, EngineCommit
      <4>2. call' = Recorded(call.event, call.commits)
              \/ call' = [call EXCEPT !.next = call.next + 1]
        BY <2>1 DEF AssertCommit
      <4>3. call \in [at : {"observing"}, event : StoredEvent,
                      commits : CommitList, next : 1..MaxCommits]
        BY <4>1 DEF NexusInv, NexusTypeOK, TypeOK, Closed, Idle, Done, Failed
      <4> QED
        BY <4>1, <4>2, <4>3 DEF Recorded
    <3> QED
      BY <1>1, <3>1, StoreTypes DEF NexusInv, MethodSoFar, nexusVars
  <2>2. CASE EngineError
    BY <1>1, <2>2 DEF NexusInv, MethodSoFar, nexusVars, EngineError, Failed
  <2> QED
    BY <1>1, <2>1, <2>2
<1>6. reply.frame # "committed"
      /\ ~(reply.frame = "aborted" /\ reply.commit = "NotCommitted")
  BY <1>1 DEF NexusInv, ReplyIsTrue, NoWork
<1> QED
  BY <1>1, <1>3, <1>4, <1>5, <1>6
  DEF NexusInv, NotCalled, ErrorIsKept, ReplyIsTrue, nexusVars

LEMMA CompletePreserves ==
  ASSUME NexusInv, Complete
  PROVE  NexusInv'
<1> DEFINE o == work.operation
<1>1. /\ work.at = "applying" /\ Ready
      /\ UNCHANGED <<vars, signalTier, reply, since>>
  BY DEF Complete
<1>2. o \in Operation /\ signalTier = o.tier /\ lastError = None
  BY <1>1 DEF NexusInv, NexusTypeOK, MethodSoFar, NoWork
<1>3. IInv' /\ TypeOK'
  BY <1>1, StoreUnchanged
<1>4. PICK output \in {OutputOf(operation) : operation \in Operation}
                      \cup Rejected :
        /\ work' = Completed(output)
        /\ \/ call.at = "failed" /\ lastError' = "Engine"
           \/ /\ call.at # "failed" /\ lastError' = lastError
              /\ output = OutputOf(o)
  <2>1. CASE call.at = "failed"
    <3>1. PICK output \in Rejected : work' = Completed(output)
      BY <1>1, <2>1 DEF Complete, Rejected
    <3> QED
      BY <2>1, <3>1 DEF Complete
  <2>2. CASE call.at # "failed"
    BY <1>2, <2>2 DEF Complete
  <2> QED
    BY <2>1, <2>2
<1>5. NexusTypeOK'
  BY <1>1, <1>2, <1>3, <1>4 DEF NexusInv, NexusTypeOK, Completed
<1>6. ErrorIsKept'
  <2>1. CASE lastError' = "Engine"
    BY <2>1 DEF ErrorIsKept, None
  <2>2. CASE call.at # "failed" /\ work' = Completed(OutputOf(o))
    <3>1. Earned(OutputOf(o)) /\ OutputTier(OutputOf(o)) = signalTier
      BY <1>1, <1>2, <2>2, OutputOfOperation
      DEF NexusInv, MethodSoFar, Earned, Ready
    <3>2. work'.output = OutputOf(o)
      BY <2>2 DEF Completed
    <3>3. Earned(work.output)'
      BY <1>1, <3>1, <3>2 DEF Earned, vars
    <3>4. (OutputTier(work.output) = signalTier)'
      BY <1>1, <3>1, <3>2 DEF OutputTier
    <3> QED
      BY <3>3, <3>4 DEF ErrorIsKept
  <2> QED
    BY <1>4, <2>1, <2>2
<1>7. reply.frame # "committed"
      /\ ~(reply.frame = "aborted" /\ reply.commit = "NotCommitted")
  BY <1>1 DEF NexusInv, ReplyIsTrue, NoWork
<1> QED
  BY <1>1, <1>3, <1>4, <1>5, <1>6, <1>7
  DEF NexusInv, NotCalled, MethodSoFar, ReplyIsTrue, Completed

LEMMA AnswerPreserves ==
  ASSUME NexusInv, Answer
  PROVE  NexusInv'
<1>1. /\ work.at = "completed" /\ work' = NoWork /\ lastError' = None
      /\ UNCHANGED <<vars, signalTier, since>>
  BY DEF Answer
<1>2. IInv' /\ TypeOK'
  BY <1>1, StoreUnchanged
<1>3. lastError \in {None, "Engine"}
  BY DEF NexusInv, NexusTypeOK
<1>4. ReplyIsTrue'
  <2>1. CASE lastError # None
    <3>1. reply' = BatchAborted(signalTier, "Engine")
      BY <1>3, <2>1 DEF Answer
    <3> QED
      BY <3>1 DEF ReplyIsTrue, BatchAborted, CommitStatus
  <2>2. CASE lastError = None
    <3>1. Earned(work.output) /\ OutputTier(work.output) = signalTier
      BY <1>1, <2>2 DEF NexusInv, ErrorIsKept
    <3>2. reply' = Committed(signalTier, work.output)
      BY <2>2, <3>1 DEF Answer
    <3>3. reply'.output = work.output /\ reply'.frame = "committed"
      BY <3>2 DEF Committed
    <3>4. Earned(reply.output)'
      BY <1>1, <3>1, <3>3 DEF Earned, vars
    <3> QED
      BY <1>1, <3>3, <3>4 DEF ReplyIsTrue
  <2> QED
    BY <2>1, <2>2
<1>5. NexusTypeOK'
  BY <1>1, <1>2 DEF NexusInv, NexusTypeOK, NoWork
<1> QED
  BY <1>1, <1>2, <1>4, <1>5
  DEF NexusInv, NotCalled, MethodSoFar, ErrorIsKept, NoWork

LEMMA CrashAndOpenPreserves ==
  ASSUME NexusInv, CrashAndOpen
  PROVE  NexusInv'
<1>1. CASE Crash /\ work' = NoWork /\ reply' = NoReply
           /\ UNCHANGED <<signalTier, lastError, since>>
  <2>1. IInv' /\ TypeOK'
    BY <1>1, StoreMoves DEF Next
  <2>2. NexusTypeOK'
    BY <1>1, <2>1 DEF NexusInv, NexusTypeOK, NoWork
  <2> QED
    BY <1>1, <2>1, <2>2
    DEF NexusInv, NotCalled, MethodSoFar, ErrorIsKept, ReplyIsTrue, NoWork,
        NoReply, None
<1>2. CASE Open /\ UNCHANGED nexusVars
  <2>1. IInv' /\ TypeOK'
    BY <1>2, StoreMoves DEF Next
  <2>2. NexusTypeOK'
    BY <1>2, <2>1 DEF NexusInv, NexusTypeOK, nexusVars
  <2>3. /\ call.at = "closed" /\ call' = Idle
        /\ UNCHANGED <<commitSequence, work, signalTier, lastError, reply,
                       since>>
    BY <1>2 DEF Open, nexusVars
  <2>4. NotCalled' /\ MethodSoFar'
    BY <2>3 DEF NexusInv, NotCalled, MethodSoFar, Ready, Idle
  <2>5. ErrorIsKept'
    <3>1. ASSUME work.at = "completed", lastError = None
          PROVE  Earned(work.output)' /\ (OutputTier(work.output) = signalTier)'
      BY <2>3, <3>1 DEF NexusInv, ErrorIsKept, Earned, OutputTier
    <3> QED
      BY <2>3, <3>1 DEF ErrorIsKept
  <2>6. ReplyIsTrue'
    BY <2>3 DEF NexusInv, ReplyIsTrue, Earned
  <2> QED
    BY <2>1, <2>2, <2>4, <2>5, <2>6 DEF NexusInv
<1> QED
  BY <1>1, <1>2 DEF CrashAndOpen

LEMMA NexusInvStep ==
  NexusInv /\ [NexusNext]_<<vars, nexusVars>> => NexusInv'
<1>1. ASSUME NexusInv, UNCHANGED <<vars, nexusVars>>
      PROVE  NexusInv'
  <2>1. UNCHANGED vars /\ UNCHANGED nexusVars
    BY <1>1
  <2>2. IInv' /\ TypeOK'
    BY <1>1, <2>1, StoreUnchanged
  <2>3. NexusTypeOK'
    BY <1>1, <2>1, <2>2 DEF NexusInv, NexusTypeOK, nexusVars
  <2>4. NotCalled' /\ MethodSoFar' /\ ReplyIsTrue'
    BY <1>1, <2>1
    DEF NexusInv, NotCalled, MethodSoFar, ReplyIsTrue, Ready, Earned,
        nexusVars, vars
  <2>5. ErrorIsKept'
    BY <1>1, <2>1
    DEF NexusInv, ErrorIsKept, Earned, OutputTier, nexusVars, vars
  <2> QED
    BY <2>2, <2>3, <2>4, <2>5 DEF NexusInv
<1> QED
  BY <1>1, ArrivePreserves, DecideCommandPreserves, ApplyPreserves,
     MethodStepPreserves, CompletePreserves, AnswerPreserves,
     CrashAndOpenPreserves
  DEF NexusNext

THEOREM NexusInvCorrect == NexusSpec => []NexusInv
BY NexusInvInit, NexusInvStep, PTL DEF NexusSpec

THEOREM NexusTypeCorrect == NexusSpec => []NexusTypeOK
<1>1. NexusInv => NexusTypeOK
  BY DEF NexusInv
<1> QED
  BY NexusInvCorrect, <1>1, PTL

(* A batch is told NotCommitted only before anything was done for it: the  *)
(* other cause, a reply of the wrong tier, never arises, and an error of   *)
(* the engine is told as Unknown (src/src/lib.rs:1157).                    *)
THEOREM NotCommittedIsTrueCorrect == NexusSpec => []NotCommittedIsTrue
<1>1. NexusInv => NotCommittedIsTrue
  BY DEF NexusInv, ReplyIsTrue, NotCommittedIsTrue
<1> QED
  BY NexusInvCorrect, <1>1, PTL

(* The error that the engines keep always takes the place of the rejection *)
(* that stood for it inside the runner (src/src/lib.rs:957).               *)
THEOREM RejectionIsNotCommittedCorrect ==
  NexusSpec => []RejectionIsNotCommitted
<1>1. NexusInv => RejectionIsNotCommitted
  BY DEF NexusInv, ReplyIsTrue, Earned, RejectionIsNotCommitted
<1> QED
  BY NexusInvCorrect, <1>1, PTL

(* A committed reply means that the event and all commits are stored, or   *)
(* that the write has taken its engine commit (src/src/lib.rs:961).        *)
THEOREM CommittedIsDurableCorrect == NexusSpec => []CommittedIsDurable
<1>1. NexusInv => CommittedIsDurable
  BY DEF NexusInv, IInv, ReplyIsTrue, Earned, CommittedIsDurable
<1> QED
  BY NexusInvCorrect, <1>1, PTL

============================================================================
