------------------------------ MODULE Delivery ------------------------------
(***************************************************************************)
(* How a push gets from the Gitolite receive hook into the ledger          *)
(* (src/src/daemon.rs, src/src/spool.rs, src/src/client.rs).               *)
(*                                                                         *)
(* A hook submits its push through the CLI, on a connection of its own.    *)
(* The daemon opens the store and starts its actors on the first request   *)
(* it serves, after a first pass over the spool directory.  The store      *)
(* actor takes one message at a time from its mailbox: the requests of the *)
(* connections, and the ingest passes that the ticker asks for.  When the  *)
(* submission fails in any way, the hook leaves a spool file behind, and   *)
(* a pass may come across the file while the hook is still writing it.     *)
(*                                                                         *)
(* The store is the abstract ledger that Store.tla implements: recording   *)
(* is one step here, since a method of the store actor is not interleaved  *)
(* with another, and a failure in the middle of one is a request that      *)
(* records its event and yet answers that it failed.                       *)
(***************************************************************************)
EXTENDS EventLedger, Sequences, FiniteSets

CONSTANTS
  Reader,       \* agents that send queries, one at a time
  Malformed,    \* spool files that do not decode
  MaxCrashes,   \* bound on the daemon's crashes
  MaxFailures   \* bound on the failures of the engine and the file system

(* Spool files are handled in the order of their names.  A push and the    *)
(* file its hook may write are the same number, in that order.             *)
ASSUME DeliveryAssumption ==
  /\ Notification \subseteq Nat
  /\ Malformed \subseteq Nat
  /\ Notification \cap Malformed = {}
  /\ Reader \cap Nat = {}
  /\ MaxSequence \in Nat
  /\ MaxCrashes \in Nat
  /\ MaxFailures \in Nat

VARIABLES
  process,    \* the daemon process: "down" or "up"
  runtime,    \* RepositoryLedgerEngine::runtime, and who is filling it
  mailbox,    \* the mailbox of the store actor
  pass,       \* the ingest pass the store actor is in
  ticker,     \* the spool ticker: "off", "idle" or "asked"
  held,       \* the store file is held by the actor of a failed start
  spool,      \* the .nota files in the spool directory
  partial,    \* those that their hook is still writing
  client,     \* what each hook or agent is waiting for
  crashes,    \* crashes so far
  failures    \* failures so far

daemonVars == <<process, runtime, mailbox, pass, ticker, held>>
spoolVars == <<spool, partial>>
faultVars == <<crashes, failures>>
vars == <<ledgerVars, daemonVars, spoolVars, client, faultVars>>

Client == Notification \cup Reader
File == Notification \cup Malformed

Empty == [at |-> "empty"]
Starting(c) == [at |-> "starting", by |-> c]
Started == [at |-> "started"]

(* Messages of the store actor.                                            *)
Request(c) == [kind |-> "request", from |-> c]
Ingest == [kind |-> "ingest"]

NoPass == [at |-> "none"]
(* About to decode and record the first of files, or to remove it.         *)
Recording(files) == [at |-> "recording", files |-> files]
Removing(files) == [at |-> "removing", files |-> files]

Delivered(push) == \E e \in recorded : e.notification = push
Copies(push) == {e \in recorded : e.notification = push}

TypeOK ==
  /\ recorded \subseteq [sequence : 1..MaxSequence,
                         notification : Notification]
  /\ retained = recorded
  /\ process \in {"down", "up"}
  /\ runtime \in {Empty, Started} \cup {Starting(c) : c \in Client}
  /\ mailbox \in Seq({Request(c) : c \in Client} \cup {Ingest})
  /\ pass \in {NoPass} \cup [at : {"recording", "removing"},
                             files : (SUBSET File) \ {{}}]
  /\ ticker \in {"off", "idle", "asked"}
  /\ held \in BOOLEAN
  /\ spool \subseteq File
  /\ partial \subseteq spool \cap Notification
  /\ client \in [Client -> {"new", "waiting", "asked", "answered",
                            "failed", "spooling", "writing", "done"}]
  /\ crashes \in 0..MaxCrashes
  /\ failures \in 0..MaxFailures

Init ==
  /\ LedgerInit
  /\ process = "down"
  /\ runtime = Empty
  /\ mailbox = <<>>
  /\ pass = NoPass
  /\ ticker = "off"
  /\ held = FALSE
  /\ spool = {}
  /\ partial = {}
  /\ client = [c \in Client |-> "new"]
  /\ crashes = 0
  /\ failures = 0

Failure == failures < MaxFailures /\ failures' = failures + 1

----------------------------------------------------------------------------
(* The hook and the CLI.                                                   *)

(* What is left to do for a client whose submission has failed.            *)
AfterFailure(c) == IF c \in Notification THEN "spooling" ELSE "done"

(* The CLI connects, shakes hands and writes its request; with no daemon   *)
(* listening the connect fails.  An agent may query again.                 *)
Submit(c) ==
  /\ \/ client[c] = "new"
     \/ client[c] = "done" /\ c \in Reader
  /\ client' = [client EXCEPT
                  ![c] = IF process = "up" THEN "waiting"
                                           ELSE AfterFailure(c)]
  /\ UNCHANGED <<ledgerVars, daemonVars, spoolVars, faultVars>>

(* The CLI reads its reply, or finds the connection closed.                *)
Receive(c) ==
  /\ \/ /\ client[c] = "answered"
        /\ client' = [client EXCEPT ![c] = "done"]
     \/ /\ client[c] = "failed"
        /\ client' = [client EXCEPT ![c] = AfterFailure(c)]
  /\ UNCHANGED <<ledgerVars, daemonVars, spoolVars, faultVars>>

(* The reply of a request that was handled is not written or not read.     *)
ReplyLost(c) ==
  /\ client[c] = "answered"
  /\ Failure
  /\ client' = [client EXCEPT ![c] = "failed"]
  /\ UNCHANGED <<ledgerVars, daemonVars, spoolVars, crashes>>

(* The fallback of the hook: nothing in the repository says that the file  *)
(* appears in the directory only once it is complete.                      *)
BeginSpoolFile(push) ==
  /\ client[push] = "spooling"
  /\ spool' = spool \cup {push}
  /\ partial' = partial \cup {push}
  /\ client' = [client EXCEPT ![push] = "writing"]
  /\ UNCHANGED <<ledgerVars, daemonVars, faultVars>>

FinishSpoolFile(push) ==
  /\ client[push] = "writing"
  /\ partial' = partial \ {push}
  /\ client' = [client EXCEPT ![push] = "done"]
  /\ UNCHANGED <<ledgerVars, daemonVars, spool, faultVars>>

(* Anyone may leave a file there that does not decode, and take it away.   *)
WriteMalformedFile(file) ==
  /\ file \notin spool
  /\ spool' = spool \cup {file}
  /\ UNCHANGED <<ledgerVars, daemonVars, partial, client, faultVars>>

TakeMalformedFile(file) ==
  /\ file \in spool
  /\ spool' = spool \ {file}
  /\ UNCHANGED <<ledgerVars, daemonVars, partial, client, faultVars>>

----------------------------------------------------------------------------
(* RepositoryLedgerEngine::store.                                          *)

(* The first request to find the cell empty opens the store, starts both   *)
(* actors and asks for the first ingest pass.                              *)
StartRuntime(c) ==
  /\ client[c] = "waiting"
  /\ runtime = Empty
  /\ ~held
  /\ runtime' = Starting(c)
  /\ mailbox' = <<Ingest>>
  /\ UNCHANGED <<ledgerVars, process, pass, ticker, held, spoolVars, client,
                 faultVars>>

(* Store::open fails, as it does while the file is held; the connection is *)
(* dropped without a reply.                                                *)
OpenFails(c) ==
  /\ client[c] = "waiting"
  /\ runtime = Empty
  /\ \/ held /\ UNCHANGED failures
     \/ Failure
  /\ client' = [client EXCEPT ![c] = "failed"]
  /\ UNCHANGED <<ledgerVars, daemonVars, spoolVars, crashes>>

(* A store actor to which nothing refers any more stops and drops its      *)
(* store.  The ticker refers to it by way of the ingest actor.             *)
ReleaseStore ==
  /\ held
  /\ ticker = "off"
  /\ held' = FALSE
  /\ UNCHANGED <<ledgerVars, process, runtime, mailbox, pass, ticker,
                 spoolVars, client, faultVars>>

(* With the cell filled, the connection asks the store actor.              *)
Ask(c) ==
  /\ client[c] = "waiting"
  /\ runtime = Started
  /\ mailbox' = Append(mailbox, Request(c))
  /\ client' = [client EXCEPT ![c] = "asked"]
  /\ UNCHANGED <<ledgerVars, process, runtime, pass, ticker, held, spoolVars,
                 faultVars>>

----------------------------------------------------------------------------
(* The store actor: requests.                                              *)

NextSequence == Cardinality(recorded) + 1

RecordPush(push) ==
  /\ NextSequence <= MaxSequence
  /\ Record([sequence |-> NextSequence, notification |-> push])

(* The message at the head of the mailbox, once the last one is handled.   *)
Taking(message) ==
  /\ mailbox # <<>>
  /\ pass = NoPass
  /\ Head(mailbox) = message

Reply(c, answer) ==
  /\ mailbox' = Tail(mailbox)
  /\ client' = [client EXCEPT ![c] = answer]
  /\ UNCHANGED <<process, runtime, pass, ticker, held, spoolVars>>

(* Replying without waiting for the commit of the engine.                  *)
HandlePushUnrecorded(push) ==
  /\ Taking(Request(push))
  /\ Reply(push, "answered")
  /\ UNCHANGED <<ledgerVars, faultVars>>

(* HandleOrdinaryRequest with an Observe operation.                        *)
HandlePush(push) ==
  /\ Taking(Request(push))
  /\ RecordPush(push)
  /\ Reply(push, "answered")
  /\ UNCHANGED faultVars

(* The engine refuses the event, or one of the commits after it.           *)
HandlePushFails(push) ==
  /\ Taking(Request(push))
  /\ Failure
  /\ RecordPush(push) \/ UNCHANGED ledgerVars
  /\ Reply(push, "failed")
  /\ UNCHANGED crashes

(* HandleOrdinaryRequest with a Query operation, and with one that the     *)
(* engine cannot read the tables for.                                      *)
HandleQuery(reader) ==
  /\ Taking(Request(reader))
  /\ Reply(reader, "answered")
  /\ UNCHANGED <<ledgerVars, faultVars>>

HandleQueryFails(reader) ==
  /\ Taking(Request(reader))
  /\ Failure
  /\ Reply(reader, "failed")
  /\ UNCHANGED <<ledgerVars, crashes>>

----------------------------------------------------------------------------
(* The store actor: an ingest pass.                                        *)

(* A failed first pass that leaves the cell as it is.                      *)
EndPassKeepingTheCell(succeeded) ==
  /\ pass' = NoPass
  /\ mailbox' = Tail(mailbox)
  /\ runtime' = IF succeeded THEN Started ELSE runtime
  /\ ticker' = IF succeeded THEN "idle" ELSE ticker
  /\ UNCHANGED <<client, held>>

(* A ticker that ends with the first pass that fails.                      *)
EndPassStoppingTicker(succeeded) ==
  /\ pass' = NoPass
  /\ mailbox' = Tail(mailbox)
  /\ \/ /\ succeeded
        /\ runtime' = Started
        /\ ticker' = "idle"
        /\ UNCHANGED client
     \/ /\ ~succeeded
        /\ runtime = Started
        /\ ticker' = "off"
        /\ UNCHANGED <<runtime, client>>
  /\ UNCHANGED held

(* A ticker that is spawned before the first pass is awaited.              *)
EndPassAfterSpawningTicker(succeeded) ==
  /\ pass' = NoPass
  /\ mailbox' = Tail(mailbox)
  /\ ticker' = "idle"
  /\ \/ /\ runtime.at = "starting"
        /\ ~succeeded
        /\ runtime' = Empty
        /\ held' = TRUE
        /\ client' = [client EXCEPT ![runtime.by] = "failed"]
     \/ /\ succeeded \/ runtime = Started
        /\ runtime' = Started
        /\ UNCHANGED <<client, held>>

(* The pass is over: its result goes to the request that is filling the    *)
(* cell, which needs it to succeed, or to the ticker, which does not.  A   *)
(* start that fails drops its actors, which are still to stop.             *)
EndPass(succeeded) ==
  /\ pass' = NoPass
  /\ mailbox' = Tail(mailbox)
  /\ \/ /\ runtime.at = "starting"
        /\ succeeded
        /\ runtime' = Started
        /\ ticker' = "idle"
        /\ UNCHANGED <<client, held>>
     \/ /\ runtime.at = "starting"
        /\ ~succeeded
        /\ runtime' = Empty
        /\ held' = TRUE
        /\ client' = [client EXCEPT ![runtime.by] = "failed"]
        /\ UNCHANGED ticker
     \/ /\ runtime = Started
        /\ ticker' = "idle"
        /\ UNCHANGED <<runtime, client, held>>

(* Waiting for one more file after the last.                               *)
ContinueToNoFile(files) ==
  /\ pass' = Recording(files)
  /\ UNCHANGED <<mailbox, runtime, ticker, client, held>>

(* Ends the pass after the last file.                                      *)
Continue(files) ==
  IF files = {} THEN EndPass(TRUE)
  ELSE /\ pass' = Recording(files)
       /\ UNCHANGED <<mailbox, runtime, ticker, client, held>>

(* ingest_into lists the files that are there now.                         *)
BeginPass ==
  /\ Taking(Ingest)
  /\ Continue(spool)
  /\ UNCHANGED <<ledgerVars, process, spoolVars, faultVars>>

First(files) == CHOOSE f \in files : \A g \in files : f <= g

Decodes(file) == file \in (spool \cap Notification) \ partial

RecordFile ==
  /\ pass.at = "recording"
  /\ Decodes(First(pass.files))
  /\ RecordPush(First(pass.files))
  /\ pass' = Removing(pass.files)
  /\ UNCHANGED <<process, runtime, mailbox, ticker, held, spoolVars, client,
                 faultVars>>

(* Leaving the committed file where it is.                                 *)
LeaveFile ==
  /\ pass.at = "removing"
  /\ Continue(pass.files \ {First(pass.files)})
  /\ UNCHANGED <<ledgerVars, process, spoolVars, faultVars>>

RemoveFile ==
  /\ pass.at = "removing"
  /\ spool' = spool \ {First(pass.files)}
  /\ Continue(pass.files \ {First(pass.files)})
  /\ UNCHANGED <<ledgerVars, process, partial, faultVars>>

(* A file that does not decode, or that is gone again, ends the pass, and  *)
(* the files after it wait.                                                *)
DecodeFails ==
  /\ pass.at = "recording"
  /\ ~Decodes(First(pass.files))
  /\ EndPass(FALSE)
  /\ UNCHANGED <<ledgerVars, process, spoolVars, faultVars>>

(* So does an engine that refuses the event, a file that stays, or, before *)
(* the first of them, a directory that cannot be listed.                   *)
PassFails ==
  /\ pass # NoPass \/ Taking(Ingest)
  /\ Failure
  /\ EndPass(FALSE)
  /\ UNCHANGED <<ledgerVars, process, spoolVars, crashes>>

(* The ticker without its await: a pass is asked for while one is running. *)
TickWithoutWaiting ==
  /\ ticker # "off"
  /\ Len(mailbox) < 3
  /\ mailbox' = Append(mailbox, Ingest)
  /\ ticker' = "asked"
  /\ UNCHANGED <<ledgerVars, process, runtime, pass, held, spoolVars, client,
                 faultVars>>

(* SpoolIngestTicker::run: one tick, and then the result of its pass.      *)
Tick ==
  /\ ticker = "idle"
  /\ mailbox' = Append(mailbox, Ingest)
  /\ ticker' = "asked"
  /\ UNCHANGED <<ledgerVars, process, runtime, pass, held, spoolVars, client,
                 faultVars>>

----------------------------------------------------------------------------
(* The process.                                                            *)

StartProcess ==
  /\ process = "down"
  /\ process' = "up"
  /\ UNCHANGED <<ledgerVars, runtime, mailbox, pass, ticker, held, spoolVars,
                 client, faultVars>>

(* What is not durable is lost, and every open connection breaks.          *)
Crash ==
  /\ process = "up"
  /\ crashes < MaxCrashes
  /\ crashes' = crashes + 1
  /\ process' = "down"
  /\ runtime' = Empty
  /\ mailbox' = <<>>
  /\ pass' = NoPass
  /\ ticker' = "off"
  /\ held' = FALSE
  /\ client' = [c \in Client |->
                  IF client[c] \in {"waiting", "asked", "answered"}
                  THEN "failed" ELSE client[c]]
  /\ UNCHANGED <<ledgerVars, spoolVars, failures>>

----------------------------------------------------------------------------

Connect(c) == StartRuntime(c) \/ OpenFails(c) \/ Ask(c)

Handle ==
  \/ \E p \in Notification : HandlePush(p) \/ HandlePushFails(p)
  \/ \E r \in Reader : HandleQuery(r) \/ HandleQueryFails(r)
  \/ BeginPass
  \/ RecordFile
  \/ RemoveFile
  \/ DecodeFails
  \/ PassFails

Next ==
  \/ \E c \in Client : Submit(c) \/ Receive(c) \/ ReplyLost(c) \/ Connect(c)
  \/ \E p \in Notification : BeginSpoolFile(p) \/ FinishSpoolFile(p)
  \/ \E f \in Malformed : WriteMalformedFile(f) \/ TakeMalformedFile(f)
  \/ ReleaseStore
  \/ Handle
  \/ Tick
  \/ StartProcess
  \/ Crash

Spec == Init /\ [][Next]_vars

(* The tokio runtime keeps polling every connection and actor that can     *)
(* make progress, the interval of the ticker keeps elapsing, the service   *)
(* manager starts a daemon that is down, and a CLI reads its reply and its *)
(* hook writes the spool file.  OnceCell queues the requests that find it  *)
(* being filled, and a failed attempt hands over to the first of them, so  *)
(* that a request cannot be overtaken for ever.  Nobody is obliged to push *)
(* or to query.                                                            *)
Fairness ==
  /\ \A c \in Client : SF_vars(Connect(c)) /\ WF_vars(Receive(c))
  /\ \A p \in Notification :
       WF_vars(BeginSpoolFile(p)) /\ WF_vars(FinishSpoolFile(p))
  /\ WF_vars(ReleaseStore)
  /\ WF_vars(Handle)
  /\ WF_vars(Tick)
  /\ WF_vars(StartProcess)

FairSpec == Spec /\ Fairness

----------------------------------------------------------------------------
(* Properties.                                                             *)

(* A hook that has finished has left its push in the ledger or in the      *)
(* spool directory, wherever the daemon crashed or failed in between, and  *)
(* even when a pass has met the file before it was complete.               *)
NoPushLost ==
  \A p \in Notification :
    client[p] = "done" => Delivered(p) \/ p \in spool \ partial

(* A push is recorded once, and once more at most for every crash and      *)
(* every failure: a submission that records and is reported as failed, or  *)
(* a spool file that outlives its commit, is paid for each time by a fault *)
(* of its own, however often the hook and the passes try again.  Without   *)
(* a fault the two paths never both record it.                             *)
RepeatsNeedFaults ==
  \A p \in Notification : Cardinality(Copies(p)) <= 1 + crashes + failures

(* The ticker awaits its pass, so that passes never pile up in the mailbox *)
(* of the store actor, however slow a pass is.                             *)
OneIngestAtATime ==
  Cardinality({i \in DOMAIN mailbox : mailbox[i] = Ingest}) <= 1

(* A request that reached the daemon comes to an end: connections, the     *)
(* cell they fill and the two actors never wait for one another for ever.  *)
EveryRequestEnds ==
  \A c \in Client : client[c] = "waiting" ~> client[c] = "done"

(* Once the actors run, a spool file is recorded and removed, unless the   *)
(* process dies first.  Only a file that does not decode, and that is not  *)
(* after it in name order, can keep it waiting.                            *)
SpoolDrains ==
  \A p \in Notification :
    (p \in spool /\ runtime = Started)
      ~> \/ p \notin spool
         \/ process = "down"
         \/ \E f \in Malformed \cap spool : f < p

(* A daemon whose start has failed works again once what made it fail is   *)
(* gone: an agent that goes on asking goes on being answered, if there are *)
(* no more bad files.  The attempts in between, the store file that the    *)
(* failed one holds and the files half written leave nothing behind that   *)
(* keeps it from starting.                                                 *)
ServiceRecovers ==
  \A r \in Reader :
    (/\ []<>(client[r] = "waiting")
     /\ <>[](spool \cap Malformed = {}))
      => []<>(client[r] = "answered")

(* ARCHITECTURE.md, "Constraints": fallback spool ingestion is a separate  *)
(* concern.  So a request fails only when the daemon or the engine does.   *)
SpoolIsSeparate ==
  crashes = 0 /\ failures = 0 =>
    \A c \in Client : client[c] # "failed"

(* ARCHITECTURE.md, "Actor Runtime Shape": the spool is ingested on        *)
(* startup.  So the file of a push that came while the daemon was down is  *)
(* recorded once the daemon has started.                                   *)
SpoolIngestedOnStartup ==
  \A p \in Notification : p \in spool ~> Delivered(p)

============================================================================
