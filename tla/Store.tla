------------------------------- MODULE Store -------------------------------
(***************************************************************************)
(* The durable store of the repository ledger (src/src/lib.rs, Store): the *)
(* five sema-engine tables and the methods that change them.               *)
(*                                                                         *)
(* sema-engine itself is not part of the repository.  What the code relies *)
(* on is modelled here: every assert, mutate and retract is one durable,   *)
(* atomic engine commit that takes the next commit sequence; assert        *)
(* refuses a key that is present, mutate and retract one that is absent;   *)
(* the commit sequence survives restarts and history compaction.           *)
(*                                                                         *)
(* A method that makes several engine commits is not a transaction: each   *)
(* commit is a step of its own here, after which the process may crash or  *)
(* the next engine call may fail.  Methods do not interleave: the kameo    *)
(* store actor runs one at a time, and `call' is the one it is running, or *)
(* the result of the one it ran last.                                      *)
(***************************************************************************)
EXTENDS Naturals, Sequences, FiniteSets

CONSTANTS
  Repository,         \* repository names
  Timestamp,          \* received_at values, numbered in their string order
  RefUpdates,         \* the ref_updates of a notification, opaque here
  CommitObservation,  \* records with at least the fields object and ref
  Class,              \* repository classes of a registration
  MirrorTarget,       \* targets of a mirror policy
  SpoolPath,          \* paths of a spool directory policy
  Budget,             \* the maximum_events an operator compacts to
  MaxSequence,        \* largest commit sequence of the engine (u64::MAX)
  MaxCommits          \* longest list of commits in one push observation

ASSUME StoreAssumption ==
  /\ Timestamp \subseteq Nat
  /\ Budget \subseteq Nat
  /\ MaxSequence \in Nat
  /\ MaxCommits \in Nat

VARIABLES
  events,               \* table repository_events
  commits,              \* table repository_commits
  registrations,        \* table repository_registrations, class by name
  spoolDirectoryPolicy, \* table spool_directory_policy, at most one row
  mirrorPolicies,       \* table mirror_policies, target by name
  commitSequence,       \* the engine's durable commit high-water mark
  checkpoint,           \* last commit folded into the verified checkpoint
  call,                 \* the method in progress, or the last result
  recorded              \* history: every event ever recorded

tables == <<events, commits, registrations, spoolDirectoryPolicy,
            mirrorPolicies>>
vars == <<tables, commitSequence, checkpoint, call, recorded>>

----------------------------------------------------------------------------
(* Rows.                                                                   *)

Sequence == 1..MaxSequence

Notification ==
  [repository : Repository, receivedAt : Timestamp, refUpdates : RefUpdates]

CommitList == UNION {[1..n -> CommitObservation] : n \in 0..MaxCommits}

StoredEvent == [sequence : Sequence, notification : Notification]

StoredCommit ==
  [sequence : Sequence, repository : Repository, receivedAt : Timestamp,
   commit : CommitObservation]

(* The row of one commit of an observation whose event is already stored.  *)
CommitRow(event, commit) ==
  [sequence   |-> event.sequence,
   repository |-> event.notification.repository,
   receivedAt |-> event.notification.receivedAt,
   commit     |-> commit]

(* StoredCommit::record_key.                                               *)
CommitKey(row) == <<row.sequence, row.commit.object, row.commit.ref>>

(* A table keyed by name, with one row written or removed.                 *)
EmptyTable == [k \in {} |-> k]
Put(table, key, value) ==
  [k \in DOMAIN table \cup {key} |-> IF k = key THEN value ELSE table[k]]
Drop(table, key) == [k \in DOMAIN table \ {key} |-> table[k]]
Table(Key, Value) == UNION {[K -> Value] : K \in SUBSET Key}

----------------------------------------------------------------------------
(* The method in progress.  Ready: the store actor can take a message.     *)

Closed  == [at |-> "closed"]
Idle    == [at |-> "idle"]
Done    == [at |-> "done"]
Failed  == [at |-> "failed"]
Observing(event, list, next) ==
  [at |-> "observing", event |-> event, commits |-> list, next |-> next]
Recorded(event, list) ==
  [at |-> "recorded", event |-> event, commits |-> list]
Compacting(budget, retired) ==
  [at |-> "compacting", budget |-> budget, retired |-> retired]
Compacted(budget, retired) ==
  [at |-> "compacted", budget |-> budget, retired |-> retired]

Ready == call.at \in {"idle", "done", "failed", "recorded", "compacted"}

TypeOK ==
  /\ events \subseteq StoredEvent
  /\ commits \subseteq StoredCommit
  /\ registrations \in Table(Repository, Class)
  /\ spoolDirectoryPolicy \in SUBSET SpoolPath
  /\ mirrorPolicies \in Table(Repository, MirrorTarget)
  /\ commitSequence \in 0..MaxSequence
  /\ checkpoint \in 0..MaxSequence
  /\ recorded \subseteq StoredEvent
  /\ \/ call \in {Closed, Idle, Done, Failed}
     \/ /\ call \in [at : {"observing"}, event : StoredEvent,
                     commits : CommitList, next : 1..MaxCommits]
        /\ call.next <= Len(call.commits)
     \/ call \in [at : {"recorded"}, event : StoredEvent,
                  commits : CommitList]
     \/ call \in [at : {"compacting", "compacted"}, budget : Budget,
                  retired : SUBSET Sequence]

----------------------------------------------------------------------------
(* The engine.                                                             *)

(* One durable commit of the engine.                                       *)
EngineCommit ==
  /\ commitSequence < MaxSequence
  /\ commitSequence' = commitSequence + 1

(* next_event_sequence read from the retained rows instead of the engine.  *)
NextFromRetainedRows ==
  IF events = {} THEN 1
  ELSE 1 + (CHOOSE s \in {e.sequence : e \in events} :
              \A e \in events : e.sequence <= s)

(* Store::next_event_sequence: one past the engine's high-water mark.      *)
NextEventSequence == commitSequence + 1

----------------------------------------------------------------------------
(* Recording.                                                              *)

(* record_hook_notification up to its engine commit.                       *)
AssertEvent(event) ==
  /\ event.sequence = NextEventSequence
  /\ EngineCommit
  /\ events' = events \cup {event}
  /\ recorded' = recorded \cup {event}
  /\ UNCHANGED <<commits, registrations, spoolDirectoryPolicy,
                 mirrorPolicies, checkpoint>>

(* record_hook_notification: the ordinary Receive operation, and each file *)
(* the spool reader ingests.                                               *)
RecordHookNotification(notification) ==
  /\ Ready
  /\ LET event == [sequence |-> NextEventSequence,
                   notification |-> notification]
     IN  /\ AssertEvent(event)
         /\ call' = Recorded(event, <<>>)

(* Answering before the commits of the observation are asserted.           *)
RecordPushObservationEarlyReply(notification, list) ==
  /\ Ready
  /\ LET event == [sequence |-> NextEventSequence,
                   notification |-> notification]
     IN  /\ AssertEvent(event)
         /\ call' = Recorded(event, list)

(* record_push_observation: the event first, then the loop over its        *)
(* commits, which AssertCommit runs one engine commit at a time.           *)
RecordPushObservation(notification, list) ==
  /\ Ready
  /\ LET event == [sequence |-> NextEventSequence,
                   notification |-> notification]
     IN  /\ AssertEvent(event)
         /\ call' = IF Len(list) = 0 THEN Recorded(event, list)
                                       ELSE Observing(event, list, 1)

(* One turn of the loop.  A key that is already there makes the engine     *)
(* refuse the assert: only EngineError is then possible.                   *)
AssertCommit ==
  /\ call.at = "observing"
  /\ LET row == CommitRow(call.event, call.commits[call.next])
     IN  /\ \A c \in commits : CommitKey(c) # CommitKey(row)
         /\ commits' = commits \cup {row}
  /\ EngineCommit
  /\ call' = IF call.next = Len(call.commits)
             THEN Recorded(call.event, call.commits)
             ELSE [call EXCEPT !.next = call.next + 1]
  /\ UNCHANGED <<events, registrations, spoolDirectoryPolicy,
                 mirrorPolicies, checkpoint, recorded>>

----------------------------------------------------------------------------
(* Registration and policy: mutate, and assert when the key is absent; one *)
(* engine commit either way.                                               *)

RegisterRepository(repository, class) ==
  /\ Ready
  /\ EngineCommit
  /\ registrations' = Put(registrations, repository, class)
  /\ call' = Done
  /\ UNCHANGED <<events, commits, spoolDirectoryPolicy, mirrorPolicies,
                 checkpoint, recorded>>

RetireRepository(repository) ==
  /\ Ready
  /\ \/ /\ repository \in DOMAIN registrations
        /\ EngineCommit
        /\ registrations' = Drop(registrations, repository)
        /\ call' = Done
     \/ /\ repository \notin DOMAIN registrations
        /\ call' = Failed
        /\ UNCHANGED <<registrations, commitSequence>>
  /\ UNCHANGED <<events, commits, spoolDirectoryPolicy, mirrorPolicies,
                 checkpoint, recorded>>

SetSpoolDirectoryPolicy(path) ==
  /\ Ready
  /\ EngineCommit
  /\ spoolDirectoryPolicy' = {path}
  /\ call' = Done
  /\ UNCHANGED <<events, commits, registrations, mirrorPolicies, checkpoint,
                 recorded>>

SetMirrorPolicy(repository, target) ==
  /\ Ready
  /\ EngineCommit
  /\ mirrorPolicies' = Put(mirrorPolicies, repository, target)
  /\ call' = Done
  /\ UNCHANGED <<events, commits, registrations, spoolDirectoryPolicy,
                 checkpoint, recorded>>

----------------------------------------------------------------------------
(* History compaction.                                                     *)

NewerEvents(event) == {e \in events : event.sequence < e.sequence}

(* Keeping one event too many, as with a `<=' in place of `<'.             *)
RetiredKeepingOneMore(budget) ==
  {e.sequence : e \in {e \in events : Cardinality(NewerEvents(e)) > budget}}

(* The events before retained_start in sequence order: those with at least *)
(* `budget' newer ones.                                                    *)
RetiredSequences(budget) ==
  {e.sequence : e \in {e \in events : Cardinality(NewerEvents(e)) >= budget}}

(* compact_history up to its first engine commit.                          *)
CompactHistory(budget) ==
  /\ Ready
  /\ LET retired == RetiredSequences(budget)
     IN  call' = IF retired = {} THEN Compacted(budget, {})
                                 ELSE Compacting(budget, retired)
  /\ UNCHANGED <<tables, commitSequence, checkpoint, recorded>>

(* The commits of the retired events that are still stored.                *)
RetiredCommits == {c \in commits : c.sequence \in call.retired}

(* The retired events that are still stored.                               *)
RetiredEvents == {e \in events : e.sequence \in call.retired}

(* First loop of compact_history, over the commit rows.                    *)
RetractCommit ==
  /\ call.at = "compacting"
  /\ \E row \in RetiredCommits : commits' = commits \ {row}
  /\ EngineCommit
  /\ UNCHANGED <<events, registrations, spoolDirectoryPolicy,
                 mirrorPolicies, checkpoint, call, recorded>>

(* The second loop run before the first one.                               *)
RetractEventFirst ==
  /\ call.at = "compacting"
  /\ \E event \in RetiredEvents :
        /\ \A e \in RetiredEvents : event.sequence <= e.sequence
        /\ events' = events \ {event}
  /\ EngineCommit
  /\ UNCHANGED <<commits, registrations, spoolDirectoryPolicy,
                 mirrorPolicies, checkpoint, call, recorded>>

(* The second loop without the sort by sequence.                           *)
RetractEventInAnyOrder ==
  /\ call.at = "compacting"
  /\ RetiredCommits = {}
  /\ \E event \in RetiredEvents : events' = events \ {event}
  /\ EngineCommit
  /\ UNCHANGED <<commits, registrations, spoolDirectoryPolicy,
                 mirrorPolicies, checkpoint, call, recorded>>

(* Second loop, over the events, oldest first.                             *)
RetractEvent ==
  /\ call.at = "compacting"
  /\ RetiredCommits = {}
  /\ \E event \in RetiredEvents :
        /\ \A e \in RetiredEvents : event.sequence <= e.sequence
        /\ events' = events \ {event}
  /\ EngineCommit
  /\ UNCHANGED <<commits, registrations, spoolDirectoryPolicy,
                 mirrorPolicies, checkpoint, call, recorded>>

(* compact_versioned_history with a retention of zero entries: everything  *)
(* up to the high-water mark moves into the local checkpoint.              *)
CompactVersionedHistory ==
  /\ call.at = "compacting"
  /\ RetiredCommits = {}
  /\ RetiredEvents = {}
  /\ checkpoint' = commitSequence
  /\ call' = Compacted(call.budget, call.retired)
  /\ UNCHANGED <<tables, commitSequence, recorded>>

----------------------------------------------------------------------------
(* Failure and restart.                                                    *)

(* The engine call the method is about to make returns an error, which `?' *)
(* returns to the caller.  The engine commits made so far stay.            *)
EngineError ==
  /\ call.at # "closed"
  /\ call' = Failed
  /\ UNCHANGED <<tables, commitSequence, checkpoint, recorded>>

(* The process dies between two engine commits.                            *)
Crash ==
  /\ call.at # "closed"
  /\ call' = Closed
  /\ UNCHANGED <<tables, commitSequence, checkpoint, recorded>>

(* Store::open: the engine and the five tables as the last commit left     *)
(* them; registering a known table commits nothing.                        *)
Open ==
  /\ call.at = "closed"
  /\ call' = Idle
  /\ UNCHANGED <<tables, commitSequence, checkpoint, recorded>>

----------------------------------------------------------------------------

Init ==
  /\ events = {}
  /\ commits = {}
  /\ registrations = EmptyTable
  /\ spoolDirectoryPolicy = {}
  /\ mirrorPolicies = EmptyTable
  /\ commitSequence = 0
  /\ checkpoint = 0
  /\ call = Closed
  /\ recorded = {}

RecordNext ==
  \/ \E n \in Notification : RecordHookNotification(n)
  \/ \E n \in Notification, list \in CommitList :
        RecordPushObservation(n, list)
  \/ AssertCommit

PolicyNext ==
  \/ \E r \in Repository, c \in Class : RegisterRepository(r, c)
  \/ \E r \in Repository : RetireRepository(r)
  \/ \E p \in SpoolPath : SetSpoolDirectoryPolicy(p)
  \/ \E r \in Repository, t \in MirrorTarget : SetMirrorPolicy(r, t)

CompactNext ==
  \/ \E budget \in Budget : CompactHistory(budget)
  \/ RetractCommit
  \/ RetractEvent
  \/ CompactVersionedHistory

Next == RecordNext \/ PolicyNext \/ CompactNext
          \/ EngineError \/ Crash \/ Open

Spec == Init /\ [][Next]_vars

----------------------------------------------------------------------------
(* Properties.                                                             *)

(* A sequence names one event for ever: compaction, crashes and restarts   *)
(* never make next_event_sequence issue a number a second time (test       *)
(* history_retention_keeps_the_newest_events_and_never_reuses_sequences).  *)
SequencesNeverReused ==
  \A e, f \in recorded : e.sequence = f.sequence => e = f

(* Every commit row belongs to a stored event and repeats its repository   *)
(* and received_at, at every point where record_push_observation or        *)
(* compact_history can be cut short: no query over commits shows a push    *)
(* the event queries do not know.                                          *)
CommitsHaveTheirEvent ==
  \A c \in commits : \E e \in events : c = CommitRow(e, c.commit)

(* The retained events are the newest ones, also when compact_history      *)
(* stops half way: no event is gone while an older one is still there.     *)
RetainedAreNewest ==
  \A e \in recorded \ events, f \in events : e.sequence < f.sequence

(* EventRecorded is answered only when the event and every commit of the   *)
(* observation are durable.                                                *)
RecordedIsComplete ==
  call.at = "recorded" =>
    /\ call.event \in events
    /\ \A i \in DOMAIN call.commits :
          CommitRow(call.event, call.commits[i]) \in commits

(* When compact_history returns a count, it has kept no more events than   *)
(* the budget, and it has not removed one it had no reason to remove.      *)
CompactedToBudget ==
  call.at = "compacted" =>
    /\ Cardinality(events) <= call.budget
    /\ call.retired # {} => Cardinality(events) = call.budget

(* The inductive invariant behind the properties above.  What they do not  *)
(* say: no sequence is past the engine's high-water mark, an observation   *)
(* in progress has its first commits stored, and a compaction in progress  *)
(* has marked the oldest events and leaves as many as its budget.          *)
SequencesIssued == \A e \in recorded : e.sequence <= commitSequence

EventsRecorded == events \subseteq recorded /\ IsFiniteSet(events)

ObservingInOrder ==
  call.at = "observing" =>
    /\ call.event \in events
    /\ \A i \in 1..(call.next - 1) :
          CommitRow(call.event, call.commits[i]) \in commits

KeptEvents == {e \in events : e.sequence \notin call.retired}

CompactingOldest ==
  call.at = "compacting" =>
    /\ \A e \in RetiredEvents, f \in KeptEvents : e.sequence < f.sequence
    /\ Cardinality(KeptEvents) = call.budget

IInv ==
  /\ TypeOK
  /\ SequencesIssued
  /\ SequencesNeverReused
  /\ EventsRecorded
  /\ RetainedAreNewest
  /\ CommitsHaveTheirEvent
  /\ ObservingInOrder
  /\ RecordedIsComplete
  /\ CompactingOldest
  /\ CompactedToBudget

(* ARCHITECTURE.md, "History retention": applying a budget removes the     *)
(* oldest events, then compacts the acknowledged version history.  So once *)
(* compact_history has returned its count, the version history that is     *)
(* not yet folded into the checkpoint names no removed event.              *)
RemovedHistoryIsCompacted ==
  call.at = "compacted" =>
    \A e \in recorded \ events : e.sequence <= checkpoint

(* The store implements the ledger's promise about its events.             *)
Ledger == INSTANCE EventLedger WITH retained <- events
StoreRefinement == Ledger!LedgerSpec

============================================================================
