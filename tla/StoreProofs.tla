---------------------------- MODULE StoreProofs ----------------------------
(* Theorems about Store.tla, for every value of its constants.             *)
EXTENDS Store, TLAPS, FiniteSetTheorems, WellFoundedInduction

----------------------------------------------------------------------------
(* Operators of the store.                                                 *)

(* A table keyed by name stays one when a row is written or removed.       *)
LEMMA EmptyTableIsTable ==
  ASSUME NEW Key, NEW Value
  PROVE  EmptyTable \in Table(Key, Value)
BY DEF EmptyTable, Table

LEMMA PutInTable ==
  ASSUME NEW Key, NEW Value, NEW table \in Table(Key, Value),
         NEW key \in Key, NEW value \in Value
  PROVE  Put(table, key, value) \in Table(Key, Value)
<1>1. PICK K \in SUBSET Key : table \in [K -> Value]
  BY DEF Table
<1>2. Put(table, key, value) \in [K \cup {key} -> Value]
  BY <1>1 DEF Put
<1> QED
  BY <1>2 DEF Table

LEMMA DropInTable ==
  ASSUME NEW Key, NEW Value, NEW table \in Table(Key, Value), NEW key
  PROVE  Drop(table, key) \in Table(Key, Value)
<1>1. PICK K \in SUBSET Key : table \in [K -> Value]
  BY DEF Table
<1>2. Drop(table, key) \in [K \ {key} -> Value]
  BY <1>1 DEF Drop
<1> QED
  BY <1>2 DEF Table

(* A list of commits is a sequence of commit observations.                 *)
LEMMA CommitListIsSequence ==
  ASSUME NEW list \in CommitList
  PROVE  /\ Len(list) \in 0..MaxCommits
         /\ DOMAIN list = 1..Len(list)
         /\ \A i \in 1..Len(list) : list[i] \in CommitObservation
<1>1. PICK n \in 0..MaxCommits : list \in [1..n -> CommitObservation]
  BY DEF CommitList
<1>2. Len(list) = n /\ DOMAIN list = 1..n
  BY <1>1, StoreAssumption
<1> QED
  BY <1>1, <1>2

(* A non-empty set of naturals has a least element.                        *)
LEMMA LeastNatural ==
  ASSUME NEW S \in SUBSET Nat, S # {}
  PROVE  \E m \in S : \A s \in S : m <= s
<1> DEFINE R == OpToRel(<, Nat)
<1>1. IsWellFoundedOn(R, Nat)
  BY NatLessThanWellFounded
<1>2. PICK m \in S : \A s \in S : ~(<<s, m>> \in R)
  BY <1>1, WFMin
<1>3. \A s \in S : ~(s < m)
  BY <1>2 DEF OpToRel
<1> QED
  BY <1>3

----------------------------------------------------------------------------
(* Type correctness.                                                       *)

LEMMA TypeInit == Init => TypeOK
BY EmptyTableIsTable, StoreAssumption DEF Init, TypeOK, Closed

(* A new event is a row of the table, and takes a new commit sequence.     *)
LEMMA AssertEventType ==
  ASSUME TypeOK, NEW event, AssertEvent(event),
         event.notification \in Notification,
         event = [sequence |-> event.sequence,
                  notification |-> event.notification]
  PROVE  /\ event \in StoredEvent
         /\ commitSequence' \in 0..MaxSequence
         /\ events' \subseteq StoredEvent
         /\ recorded' \subseteq StoredEvent
<1>1. commitSequence + 1 \in Sequence /\ commitSequence' = commitSequence + 1
  BY StoreAssumption DEF TypeOK, AssertEvent, EngineCommit, Sequence
<1>2. event.sequence \in Sequence
  BY <1>1 DEF AssertEvent, NextEventSequence
<1>3. event \in StoredEvent
  BY <1>2 DEF StoredEvent
<1> QED
  BY <1>1, <1>3 DEF TypeOK, AssertEvent, Sequence

LEMMA CommitRowType ==
  ASSUME NEW event \in StoredEvent, NEW commit \in CommitObservation
  PROVE  CommitRow(event, commit) \in StoredCommit
BY DEF CommitRow, StoredEvent, StoredCommit, Notification

LEMMA TypeStep == TypeOK /\ [Next]_vars => TypeOK'
<1> SUFFICES ASSUME TypeOK, [Next]_vars
             PROVE  TypeOK'
  OBVIOUS
<1> USE StoreAssumption
<1>1. ASSUME NEW n \in Notification, RecordHookNotification(n)
      PROVE  TypeOK'
  <2> DEFINE event == [sequence |-> NextEventSequence, notification |-> n]
  <2>1. AssertEvent(event) /\ call' = Recorded(event, <<>>)
    BY <1>1 DEF RecordHookNotification
  <2>2. /\ event \in StoredEvent
        /\ commitSequence' \in 0..MaxSequence
        /\ events' \subseteq StoredEvent
        /\ recorded' \subseteq StoredEvent
    BY <2>1, AssertEventType
  <2>3. <<>> \in CommitList
    <3>1. <<>> \in [1..0 -> CommitObservation] /\ 0 \in 0..MaxCommits
      OBVIOUS
    <3> QED
      BY <3>1 DEF CommitList
  <2>4. call' \in [at : {"recorded"}, event : StoredEvent,
                   commits : CommitList]
    BY <2>1, <2>2, <2>3 DEF Recorded
  <2> QED
    BY <2>1, <2>2, <2>4 DEF TypeOK, AssertEvent
<1>2. ASSUME NEW n \in Notification, NEW list \in CommitList,
             RecordPushObservation(n, list)
      PROVE  TypeOK'
  <2> DEFINE event == [sequence |-> NextEventSequence, notification |-> n]
  <2>1. /\ AssertEvent(event)
        /\ call' = IF Len(list) = 0 THEN Recorded(event, list)
                                      ELSE Observing(event, list, 1)
    BY <1>2 DEF RecordPushObservation
  <2>2. /\ event \in StoredEvent
        /\ commitSequence' \in 0..MaxSequence
        /\ events' \subseteq StoredEvent
        /\ recorded' \subseteq StoredEvent
    BY <2>1, AssertEventType
  <2>3. CASE Len(list) = 0
    <3>1. call' \in [at : {"recorded"}, event : StoredEvent,
                     commits : CommitList]
      BY <2>1, <2>2, <2>3 DEF Recorded
    <3> QED
      BY <2>1, <2>2, <3>1 DEF TypeOK, AssertEvent
  <2>4. CASE Len(list) # 0
    <3>1. 1 \in 1..MaxCommits
      BY <2>4, CommitListIsSequence
    <3>2. /\ call' \in [at : {"observing"}, event : StoredEvent,
                        commits : CommitList, next : 1..MaxCommits]
          /\ call'.next <= Len(call'.commits)
      BY <2>1, <2>2, <2>4, <3>1, CommitListIsSequence DEF Observing
    <3> QED
      BY <2>1, <2>2, <3>2 DEF TypeOK, AssertEvent
  <2> QED
    BY <2>3, <2>4
<1>3. CASE AssertCommit
  <2> DEFINE row == CommitRow(call.event, call.commits[call.next])
  <2>1. /\ call \in [at : {"observing"}, event : StoredEvent,
                     commits : CommitList, next : 1..MaxCommits]
        /\ call.next <= Len(call.commits)
    BY <1>3 DEF AssertCommit, TypeOK, Closed, Idle, Done, Failed
  <2>2. /\ EngineCommit
        /\ commits' = commits \cup {row}
        /\ call' = IF call.next = Len(call.commits)
                   THEN Recorded(call.event, call.commits)
                   ELSE [call EXCEPT !.next = call.next + 1]
        /\ UNCHANGED <<events, registrations, spoolDirectoryPolicy,
                       mirrorPolicies, checkpoint, recorded>>
    BY <1>3 DEF AssertCommit
  <2>3. call.commits[call.next] \in CommitObservation
    BY <2>1, CommitListIsSequence
  <2>4. commits' \subseteq StoredCommit
    BY <2>1, <2>2, <2>3, CommitRowType DEF TypeOK
  <2>5. commitSequence' \in 0..MaxSequence
    BY <2>2 DEF EngineCommit, TypeOK
  <2>6. CASE call.next = Len(call.commits)
    <3>1. call' \in [at : {"recorded"}, event : StoredEvent,
                     commits : CommitList]
      BY <2>1, <2>2, <2>6 DEF Recorded
    <3> QED
      BY <2>2, <2>4, <2>5, <3>1 DEF TypeOK
  <2>7. CASE call.next # Len(call.commits)
    <3>1. Len(call.commits) \in 0..MaxCommits
      BY <2>1, CommitListIsSequence
    <3>2. /\ call' \in [at : {"observing"}, event : StoredEvent,
                        commits : CommitList, next : 1..MaxCommits]
          /\ call'.next <= Len(call'.commits)
      BY <2>1, <2>2, <2>7, <3>1
    <3> QED
      BY <2>2, <2>4, <2>5, <3>2 DEF TypeOK
  <2> QED
    BY <2>6, <2>7
<1>4. CASE PolicyNext
  <2>1. ASSUME NEW r \in Repository, NEW c \in Class,
               RegisterRepository(r, c)
        PROVE  TypeOK'
    BY <2>1, PutInTable DEF RegisterRepository, EngineCommit, TypeOK
  <2>2. ASSUME NEW r \in Repository, RetireRepository(r)
        PROVE  TypeOK'
    BY <2>2, DropInTable DEF RetireRepository, EngineCommit, TypeOK
  <2>3. ASSUME NEW p \in SpoolPath, SetSpoolDirectoryPolicy(p)
        PROVE  TypeOK'
    BY <2>3 DEF SetSpoolDirectoryPolicy, EngineCommit, TypeOK
  <2>4. ASSUME NEW r \in Repository, NEW t \in MirrorTarget,
               SetMirrorPolicy(r, t)
        PROVE  TypeOK'
    BY <2>4, PutInTable DEF SetMirrorPolicy, EngineCommit, TypeOK
  <2> QED
    BY <1>4, <2>1, <2>2, <2>3, <2>4 DEF PolicyNext
<1>5. ASSUME NEW budget \in Budget, CompactHistory(budget)
      PROVE  TypeOK'
  <2> DEFINE retired == RetiredSequences(budget)
  <2>1. retired \in SUBSET Sequence
    BY DEF RetiredSequences, TypeOK, StoredEvent
  <2>2. call' \in [at : {"compacting", "compacted"}, budget : Budget,
                   retired : SUBSET Sequence]
    BY <1>5, <2>1 DEF CompactHistory, Compacting, Compacted
  <2> QED
    BY <1>5, <2>2 DEF CompactHistory, TypeOK, tables
<1>6. CASE RetractCommit
  BY <1>6 DEF RetractCommit, EngineCommit, TypeOK
<1>7. CASE RetractEvent
  BY <1>7 DEF RetractEvent, EngineCommit, TypeOK
<1>8. CASE CompactVersionedHistory
  <2>1. call \in [at : {"compacting", "compacted"}, budget : Budget,
                  retired : SUBSET Sequence]
    BY <1>8 DEF CompactVersionedHistory, TypeOK, Closed, Idle, Done, Failed
  <2>2. call' \in [at : {"compacting", "compacted"}, budget : Budget,
                   retired : SUBSET Sequence]
    BY <1>8, <2>1 DEF CompactVersionedHistory, Compacted
  <2> QED
    BY <1>8, <2>2 DEF CompactVersionedHistory, TypeOK, tables
<1>9. CASE EngineError \/ Crash \/ Open
  BY <1>9 DEF EngineError, Crash, Open, TypeOK, tables
<1>10. CASE UNCHANGED vars
  BY <1>10 DEF vars, tables, TypeOK
<1> QED
  BY <1>1, <1>2, <1>3, <1>4, <1>5, <1>6, <1>7, <1>8, <1>9, <1>10
  DEF Next, RecordNext, CompactNext

(* TypeOK: rows, keys, the call in progress and the commit sequence are    *)
(* what the types of Store and of its methods allow.                       *)
THEOREM TypeCorrect == Spec => []TypeOK
<1> QED
  BY TypeInit, TypeStep, PTL DEF Spec

----------------------------------------------------------------------------
(* The retention budget.                                                   *)

(* A non-empty set of naturals that is bounded has a greatest element.     *)
LEMMA GreatestNatural ==
  ASSUME NEW n \in Nat, NEW S \in SUBSET (0..n), S # {}
  PROVE  \E m \in S : \A s \in S : s <= m
<1> DEFINE T == {n - s : s \in S}
<1>1. T \in SUBSET Nat /\ T # {}
  <2>1. \A s \in S : n - s \in Nat
    OBVIOUS
  <2> QED
    BY <2>1
<1>2. PICK k \in T : \A t \in T : k <= t
  BY <1>1, LeastNatural
<1>3. PICK m \in S : k = n - m
  BY <1>2
<1>4. \A s \in S : s <= m
  <2> TAKE s \in S
  <2>1. n - m <= n - s
    BY <1>2, <1>3
  <2>2. n \in Nat /\ m \in 0..n /\ s \in 0..n
    OBVIOUS
  <2> QED
    BY <2>1, <2>2
<1> QED
  BY <1>4

(* What compact_history retires: the oldest events, and, when it retires   *)
(* any, exactly as many as it takes to be left with the budget.            *)
LEMMA RetiredSplit ==
  ASSUME events \subseteq StoredEvent, IsFiniteSet(events),
         \A e, f \in events : e.sequence = f.sequence => e = f,
         NEW budget \in Budget,
         NEW retired, retired = RetiredSequences(budget),
         NEW kept, kept = {e \in events : e.sequence \notin retired}
  PROVE  /\ \A e \in events \ kept, f \in kept : e.sequence < f.sequence
         /\ Cardinality(kept) <= budget
         /\ retired # {} => Cardinality(kept) = budget
         /\ retired = {} => kept = events
<1>0. budget \in Nat /\ MaxSequence \in Nat
  BY StoreAssumption
<1>1. \A e \in events : e.sequence \in 0..MaxSequence
  BY StoreAssumption DEF StoredEvent, Sequence
<1>2. \A e : IsFiniteSet(NewerEvents(e)) /\ Cardinality(NewerEvents(e)) \in Nat
  <2> TAKE e
  <2>1. NewerEvents(e) \in SUBSET events
    BY DEF NewerEvents
  <2> QED
    BY <2>1, FS_Subset, FS_CardinalityType
<1>3. \A e \in events : e \in kept <=> Cardinality(NewerEvents(e)) < budget
  <2> TAKE e \in events
  <2>1. e.sequence \in retired <=> Cardinality(NewerEvents(e)) >= budget
    BY <1>2 DEF RetiredSequences, NewerEvents
  <2> QED
    BY <2>1, <1>0, <1>2
<1>4. kept \in SUBSET events /\ IsFiniteSet(kept) /\ Cardinality(kept) \in Nat
  BY FS_Subset, FS_CardinalityType
<1>5. ASSUME NEW e \in events \ kept, NEW f \in kept
      PROVE  e.sequence < f.sequence
  <2> SUFFICES ASSUME ~(e.sequence < f.sequence)
               PROVE  FALSE
    OBVIOUS
  <2>1. NewerEvents(e) \in SUBSET NewerEvents(f)
    BY <1>1 DEF NewerEvents
  <2>2. Cardinality(NewerEvents(e)) <= Cardinality(NewerEvents(f))
    BY <2>1, <1>2, FS_Subset
  <2>3. Cardinality(NewerEvents(f)) < budget /\ ~(Cardinality(NewerEvents(e)) < budget)
    BY <1>3
  <2> QED
    BY <2>2, <2>3, <1>0, <1>2
<1>6. Cardinality(kept) <= budget
  <2>1. CASE kept = {}
    <3>1. Cardinality(kept) = 0
      BY <1>4, <2>1, FS_EmptySet
    <3> QED
      BY <3>1, <1>0
  <2>2. CASE kept # {}
    <3> DEFINE S == {e.sequence : e \in kept}
    <3>1. S \in SUBSET Nat /\ S # {}
      BY <1>1, <2>2
    <3>2. PICK m \in kept : \A e \in kept : m.sequence <= e.sequence
      <4>1. PICK n \in S : \A k \in S : n <= k
        BY <3>1, LeastNatural
      <4> QED
        BY <4>1
    <3>3. kept \ {m} \in SUBSET NewerEvents(m)
      BY <3>2, <1>1 DEF NewerEvents
    <3>4. Cardinality(kept \ {m}) <= Cardinality(NewerEvents(m))
      BY <3>3, <1>2, FS_Subset
    <3>5. Cardinality(kept \ {m}) = Cardinality(kept) - 1
      BY <1>4, <3>2, FS_RemoveElement
    <3>6. Cardinality(NewerEvents(m)) < budget
      BY <1>3, <3>2
    <3> QED
      BY <3>4, <3>5, <3>6, <1>0, <1>2, <1>4
  <2> QED
    BY <2>1, <2>2
<1>7. ASSUME retired # {}
      PROVE  Cardinality(kept) >= budget
  <2> DEFINE S == {e.sequence : e \in events \ kept}
  <2>1. S \in SUBSET (0..MaxSequence) /\ S # {}
    <3>1. PICK e \in events : e.sequence \in retired
      BY <1>7 DEF RetiredSequences
    <3> QED
      BY <3>1, <1>1
  <2>2. PICK m \in events \ kept :
          \A e \in events \ kept : e.sequence <= m.sequence
    <3>1. PICK n \in S : \A k \in S : k <= n
      BY <2>1, <1>0, GreatestNatural
    <3> QED
      BY <3>1
  <2>3. NewerEvents(m) \in SUBSET kept
    BY <2>2, <1>1 DEF NewerEvents
  <2>4. Cardinality(NewerEvents(m)) <= Cardinality(kept)
    BY <2>3, <1>4, FS_Subset
  <2>5. ~(Cardinality(NewerEvents(m)) < budget)
    BY <1>3, <2>2
  <2> QED
    BY <2>4, <2>5, <1>0, <1>2, <1>4
<1>8. retired = {} => kept = events
  OBVIOUS
<1> QED
  BY <1>0, <1>4, <1>5, <1>6, <1>7, <1>8

----------------------------------------------------------------------------
(* The inductive invariant.                                                *)

LEMMA InvInit == Init => IInv
<1> SUFFICES ASSUME Init PROVE IInv
  OBVIOUS
<1>1. call.at = "closed"
  BY DEF Init, Closed
<1>2. TypeOK
  BY TypeInit
<1>3. EventsRecorded
  BY FS_EmptySet DEF Init, EventsRecorded
<1> QED
  BY <1>1, <1>2, <1>3
  DEF Init, IInv, SequencesIssued, SequencesNeverReused, RetainedAreNewest,
      CommitsHaveTheirEvent, ObservingInOrder, RecordedIsComplete,
      CompactingOldest, CompactedToBudget

(* A step that leaves events, commits and history alone, and has no method *)
(* in progress afterwards.                                                 *)
LEMMA QuietStep ==
  ASSUME IInv, TypeOK', UNCHANGED <<events, commits, recorded>>,
         commitSequence <= commitSequence',
         call' \in {Closed, Idle, Done, Failed}
  PROVE  IInv'
<1>1. call'.at \in {"closed", "idle", "done", "failed"}
  BY DEF Closed, Idle, Done, Failed
<1>2. SequencesIssued'
  <2>1. \A e \in recorded : e.sequence \in Nat
    BY StoreAssumption DEF IInv, TypeOK, StoredEvent, Sequence
  <2> QED
    BY <2>1, StoreAssumption DEF IInv, SequencesIssued, TypeOK
<1> QED
  BY <1>1, <1>2
  DEF IInv, SequencesNeverReused, RetainedAreNewest, EventsRecorded,
      CommitsHaveTheirEvent, ObservingInOrder, RecordedIsComplete,
      CompactingOldest, CompactedToBudget

(* Recording an event takes a sequence past all the others.                *)
LEMMA AssertEventStep ==
  ASSUME IInv, TypeOK', NEW event, AssertEvent(event)
  PROVE  /\ SequencesIssued'
         /\ SequencesNeverReused'
         /\ EventsRecorded'
         /\ RetainedAreNewest'
         /\ CommitsHaveTheirEvent'
<1>1. /\ event.sequence = commitSequence + 1
      /\ commitSequence' = commitSequence + 1
      /\ commitSequence \in Nat
      /\ events' = events \cup {event}
      /\ recorded' = recorded \cup {event}
      /\ commits' = commits
  BY StoreAssumption
  DEF AssertEvent, NextEventSequence, EngineCommit, IInv, TypeOK
<1>2. \A e \in recorded : e.sequence \in Nat /\ e.sequence <= commitSequence
  BY StoreAssumption DEF IInv, SequencesIssued, TypeOK, StoredEvent, Sequence
<1>3. SequencesIssued'
  BY <1>1, <1>2 DEF SequencesIssued
<1>4. SequencesNeverReused'
  BY <1>1, <1>2 DEF IInv, SequencesNeverReused
<1>5. EventsRecorded'
  BY <1>1, FS_AddElement DEF IInv, EventsRecorded
<1>6. RetainedAreNewest'
  BY <1>1, <1>2 DEF IInv, RetainedAreNewest
<1>7. CommitsHaveTheirEvent'
  BY <1>1 DEF IInv, CommitsHaveTheirEvent
<1> QED
  BY <1>3, <1>4, <1>5, <1>6, <1>7

LEMMA RecordStep ==
  ASSUME IInv, TypeOK', RecordNext
  PROVE  IInv'
<1>1. ASSUME NEW n \in Notification, RecordHookNotification(n)
      PROVE  IInv'
  <2> DEFINE event == [sequence |-> NextEventSequence, notification |-> n]
  <2>1. AssertEvent(event) /\ call' = Recorded(event, <<>>)
    BY <1>1 DEF RecordHookNotification
  <2>2. event \in events'
    BY <2>1 DEF AssertEvent
  <2>3. /\ call'.at = "recorded"
        /\ call'.event = event
        /\ call'.commits = <<>>
    BY <2>1 DEF Recorded
  <2>4. RecordedIsComplete'
    BY <2>2, <2>3 DEF RecordedIsComplete
  <2>5. ObservingInOrder' /\ CompactingOldest' /\ CompactedToBudget'
    BY <2>3 DEF ObservingInOrder, CompactingOldest, CompactedToBudget
  <2> QED
    BY <2>1, <2>4, <2>5, AssertEventStep DEF IInv
<1>2. ASSUME NEW n \in Notification, NEW list \in CommitList,
             RecordPushObservation(n, list)
      PROVE  IInv'
  <2> DEFINE event == [sequence |-> NextEventSequence, notification |-> n]
  <2>1. /\ AssertEvent(event)
        /\ call' = IF Len(list) = 0 THEN Recorded(event, list)
                                      ELSE Observing(event, list, 1)
    BY <1>2 DEF RecordPushObservation
  <2>2. event \in events'
    BY <2>1 DEF AssertEvent
  <2>3. /\ call'.at \in {"recorded", "observing"}
        /\ call'.event = event
        /\ call'.commits = list
        /\ call'.at = "recorded" => Len(list) = 0
        /\ call'.at = "observing" => call'.next = 1
    BY <2>1 DEF Recorded, Observing
  <2>4. RecordedIsComplete'
    <3>1. Len(list) = 0 => DOMAIN list = {}
      BY CommitListIsSequence
    <3> QED
      BY <2>2, <2>3, <3>1 DEF RecordedIsComplete
  <2>5. ObservingInOrder'
    BY <2>2, <2>3 DEF ObservingInOrder
  <2>6. CompactingOldest' /\ CompactedToBudget'
    BY <2>3 DEF CompactingOldest, CompactedToBudget
  <2> QED
    BY <2>1, <2>4, <2>5, <2>6, AssertEventStep DEF IInv
<1>3. CASE AssertCommit
  <2> DEFINE row == CommitRow(call.event, call.commits[call.next])
  <2>1. /\ call \in [at : {"observing"}, event : StoredEvent,
                     commits : CommitList, next : 1..MaxCommits]
        /\ call.next <= Len(call.commits)
    BY <1>3 DEF AssertCommit, IInv, TypeOK, Closed, Idle, Done, Failed
  <2>2. /\ commitSequence' = commitSequence + 1
        /\ commits' = commits \cup {row}
        /\ call' = IF call.next = Len(call.commits)
                   THEN Recorded(call.event, call.commits)
                   ELSE [call EXCEPT !.next = call.next + 1]
        /\ UNCHANGED <<events, recorded>>
    BY <1>3 DEF AssertCommit, EngineCommit
  <2>3. /\ call.event \in events
        /\ \A i \in 1..call.next :
              CommitRow(call.event, call.commits[i]) \in commits'
    <3>1. /\ call.event \in events
          /\ \A i \in 1..(call.next - 1) :
                CommitRow(call.event, call.commits[i]) \in commits
      BY <2>1 DEF IInv, ObservingInOrder
    <3>2. ASSUME NEW i \in 1..call.next
          PROVE  i \in 1..(call.next - 1) \/ i = call.next
      BY <2>1
    <3> QED
      BY <2>2, <3>1, <3>2
  <2>4. SequencesIssued'
    <3>1. commitSequence \in Nat /\ \A e \in recorded : e.sequence \in Nat
      BY StoreAssumption DEF IInv, TypeOK, StoredEvent, Sequence
    <3> QED
      BY <2>2, <3>1 DEF IInv, SequencesIssued
  <2>5. CommitsHaveTheirEvent'
    <3>1. row = CommitRow(call.event, row.commit)
      BY DEF CommitRow
    <3> QED
      BY <2>2, <2>3, <3>1 DEF IInv, CommitsHaveTheirEvent
  <2>6. SequencesNeverReused' /\ EventsRecorded' /\ RetainedAreNewest'
    BY <2>2
    DEF IInv, SequencesNeverReused, EventsRecorded, RetainedAreNewest
  <2>7. CASE call.next = Len(call.commits)
    <3>1. /\ call'.at = "recorded"
          /\ call'.event = call.event
          /\ call'.commits = call.commits
      BY <2>2, <2>7 DEF Recorded
    <3>2. DOMAIN call.commits = 1..call.next
      BY <2>1, <2>7, CommitListIsSequence
    <3>3. RecordedIsComplete'
      <4>1. call'.event \in events'
        BY <2>2, <2>3, <3>1
      <4>2. \A i \in DOMAIN call'.commits :
              CommitRow(call'.event, call'.commits[i]) \in commits'
        BY <2>3, <3>1, <3>2
      <4> QED
        BY <4>1, <4>2 DEF RecordedIsComplete, CommitRow
    <3>4. ObservingInOrder' /\ CompactingOldest' /\ CompactedToBudget'
      BY <3>1 DEF ObservingInOrder, CompactingOldest, CompactedToBudget
    <3> QED
      BY <2>4, <2>5, <2>6, <3>3, <3>4 DEF IInv
  <2>8. CASE call.next # Len(call.commits)
    <3>1. /\ call'.at = "observing"
          /\ call'.event = call.event
          /\ call'.commits = call.commits
          /\ call'.next - 1 = call.next
      BY <2>1, <2>2, <2>8
    <3>2. ObservingInOrder'
      BY <2>2, <2>3, <3>1 DEF ObservingInOrder
    <3>3. RecordedIsComplete' /\ CompactingOldest' /\ CompactedToBudget'
      BY <3>1 DEF RecordedIsComplete, CompactingOldest, CompactedToBudget
    <3> QED
      BY <2>4, <2>5, <2>6, <3>2, <3>3 DEF IInv
  <2> QED
    BY <2>7, <2>8
<1> QED
  BY <1>1, <1>2, <1>3 DEF RecordNext

LEMMA PolicyStep ==
  ASSUME IInv, TypeOK', PolicyNext
  PROVE  IInv'
<1>1. /\ UNCHANGED <<events, commits, recorded>>
      /\ commitSequence' \in {commitSequence, commitSequence + 1}
      /\ call' \in {Done, Failed}
  BY DEF PolicyNext, RegisterRepository, RetireRepository,
         SetSpoolDirectoryPolicy, SetMirrorPolicy, EngineCommit
<1>2. commitSequence <= commitSequence'
  BY <1>1, StoreAssumption DEF IInv, TypeOK
<1> QED
  BY <1>1, <1>2, QuietStep

LEMMA CompactStep ==
  ASSUME IInv, TypeOK', CompactNext
  PROVE  IInv'
<1>1. ASSUME NEW budget \in Budget, CompactHistory(budget)
      PROVE  IInv'
  <2> DEFINE retired == RetiredSequences(budget)
             kept == {e \in events : e.sequence \notin retired}
  <2>1. /\ \A e \in events \ kept, f \in kept : e.sequence < f.sequence
        /\ Cardinality(kept) <= budget
        /\ retired # {} => Cardinality(kept) = budget
        /\ retired = {} => kept = events
    <3>1. \A e, f \in events : e.sequence = f.sequence => e = f
      BY DEF IInv, SequencesNeverReused, EventsRecorded
    <3>2. events \subseteq StoredEvent /\ IsFiniteSet(events)
      BY DEF IInv, TypeOK, EventsRecorded
    <3> HIDE DEF retired, kept
    <3> QED
      BY <3>1, <3>2, RetiredSplit DEF retired, kept
  <2>2. /\ UNCHANGED <<events, commits, recorded, commitSequence>>
        /\ call' = IF retired = {} THEN Compacted(budget, {})
                                   ELSE Compacting(budget, retired)
    BY <1>1 DEF CompactHistory, tables
  <2>3. /\ SequencesIssued' /\ SequencesNeverReused' /\ EventsRecorded'
        /\ RetainedAreNewest' /\ CommitsHaveTheirEvent'
    BY <2>2
    DEF IInv, SequencesIssued, SequencesNeverReused, EventsRecorded,
        RetainedAreNewest, CommitsHaveTheirEvent
  <2>4. /\ call'.at \in {"compacting", "compacted"}
        /\ call'.budget = budget
        /\ call'.retired = retired
        /\ call'.at = "compacted" <=> retired = {}
    BY <2>2 DEF Compacting, Compacted
  <2>5. ObservingInOrder' /\ RecordedIsComplete'
    BY <2>4 DEF ObservingInOrder, RecordedIsComplete
  <2>6. CompactingOldest'
    <3>1. KeptEvents' = kept /\ RetiredEvents' = events \ kept
      BY <2>2, <2>4 DEF KeptEvents, RetiredEvents
    <3> HIDE DEF retired, kept
    <3> QED
      BY <2>1, <2>4, <3>1 DEF CompactingOldest
  <2>7. CompactedToBudget'
    BY <2>1, <2>2, <2>4 DEF CompactedToBudget
  <2> QED
    BY <2>3, <2>5, <2>6, <2>7 DEF IInv
<1>2. CASE RetractCommit
  <2>1. /\ commits' \subseteq commits
        /\ commitSequence' = commitSequence + 1
        /\ UNCHANGED <<events, call, recorded>>
        /\ call.at = "compacting"
    BY <1>2 DEF RetractCommit, EngineCommit
  <2>2. SequencesIssued'
    BY <2>1, StoreAssumption
    DEF IInv, SequencesIssued, TypeOK, StoredEvent, Sequence
  <2> QED
    BY <2>1, <2>2
    DEF IInv, SequencesNeverReused, RetainedAreNewest, EventsRecorded,
        CommitsHaveTheirEvent, ObservingInOrder, RecordedIsComplete,
        CompactingOldest, CompactedToBudget, KeptEvents, RetiredEvents
<1>3. CASE RetractEvent
  <2>1. PICK event \in RetiredEvents :
          /\ \A e \in RetiredEvents : event.sequence <= e.sequence
          /\ events' = events \ {event}
    BY <1>3 DEF RetractEvent
  <2>2. /\ commitSequence' = commitSequence + 1
        /\ UNCHANGED <<commits, call, recorded>>
        /\ call.at = "compacting"
        /\ RetiredCommits = {}
    BY <1>3 DEF RetractEvent, EngineCommit
  <2>3. SequencesIssued'
    BY <2>2, StoreAssumption
    DEF IInv, SequencesIssued, TypeOK, StoredEvent, Sequence
  <2>4. SequencesNeverReused' /\ EventsRecorded'
    BY <2>1, <2>2, FS_RemoveElement
    DEF IInv, SequencesNeverReused, EventsRecorded
  <2>5. \A e \in events : e.sequence \in Nat /\ event.sequence <= e.sequence
    <3>1. \A e \in events : e.sequence \in Nat
      BY StoreAssumption DEF IInv, TypeOK, StoredEvent, Sequence
    <3> QED
      BY <2>1, <2>2, <3>1
      DEF IInv, CompactingOldest, KeptEvents, RetiredEvents
  <2>6. RetainedAreNewest'
    <3>1. ASSUME NEW f \in events', ~(event.sequence < f.sequence)
          PROVE  FALSE
      <4>1. f \in events /\ f # event /\ event \in events
        BY <2>1 DEF RetiredEvents
      <4>2. event.sequence = f.sequence
        BY <2>5, <3>1, <4>1
      <4> QED
        BY <4>1, <4>2 DEF IInv, SequencesNeverReused, EventsRecorded
    <3> QED
      BY <2>1, <2>2, <3>1 DEF IInv, RetainedAreNewest
  <2>7. CommitsHaveTheirEvent'
    BY <2>1, <2>2
    DEF IInv, CommitsHaveTheirEvent, RetiredCommits, RetiredEvents, CommitRow
  <2>8. CompactingOldest'
    <3>1. KeptEvents' = KeptEvents /\ RetiredEvents' \subseteq RetiredEvents
      BY <2>1, <2>2 DEF KeptEvents, RetiredEvents
    <3> QED
      BY <2>2, <3>1 DEF IInv, CompactingOldest
  <2>9. ObservingInOrder' /\ RecordedIsComplete' /\ CompactedToBudget'
    BY <2>2 DEF ObservingInOrder, RecordedIsComplete, CompactedToBudget
  <2> QED
    BY <2>3, <2>4, <2>6, <2>7, <2>8, <2>9 DEF IInv
<1>4. CASE CompactVersionedHistory
  <2>1. /\ UNCHANGED <<events, commits, recorded, commitSequence>>
        /\ call' = Compacted(call.budget, call.retired)
        /\ call.at = "compacting"
        /\ RetiredEvents = {}
    BY <1>4 DEF CompactVersionedHistory, tables
  <2>2. /\ SequencesIssued' /\ SequencesNeverReused' /\ EventsRecorded'
        /\ RetainedAreNewest' /\ CommitsHaveTheirEvent'
    BY <2>1
    DEF IInv, SequencesIssued, SequencesNeverReused, EventsRecorded,
        RetainedAreNewest, CommitsHaveTheirEvent
  <2>3. /\ call'.at = "compacted"
        /\ call'.budget = call.budget
        /\ call'.retired = call.retired
    BY <2>1 DEF Compacted
  <2>4. KeptEvents = events
    BY <2>1 DEF KeptEvents, RetiredEvents
  <2>5. Cardinality(events) = call.budget /\ call.budget \in Nat
    <3>1. Cardinality(KeptEvents) = call.budget
      BY <2>1 DEF IInv, CompactingOldest
    <3>2. call.budget \in Budget
      BY <2>1 DEF IInv, TypeOK, Closed, Idle, Done, Failed
    <3> QED
      BY <2>4, <3>1, <3>2, StoreAssumption
  <2>6. CompactedToBudget'
    BY <2>1, <2>3, <2>5 DEF CompactedToBudget
  <2>7. ObservingInOrder' /\ RecordedIsComplete' /\ CompactingOldest'
    BY <2>3 DEF ObservingInOrder, RecordedIsComplete, CompactingOldest
  <2> QED
    BY <2>2, <2>6, <2>7 DEF IInv
<1> QED
  BY <1>1, <1>2, <1>3, <1>4 DEF CompactNext

LEMMA InvStep == IInv /\ [Next]_vars => IInv'
<1> SUFFICES ASSUME IInv, [Next]_vars
             PROVE  IInv'
  OBVIOUS
<1>1. TypeOK'
  BY TypeStep DEF IInv
<1>2. CASE EngineError \/ Crash \/ Open
  <2>1. /\ UNCHANGED <<events, commits, recorded, commitSequence>>
        /\ call' \in {Failed, Closed, Idle}
    BY <1>2 DEF EngineError, Crash, Open, tables
  <2>2. commitSequence <= commitSequence'
    BY <2>1, StoreAssumption DEF IInv, TypeOK
  <2> QED
    BY <1>1, <2>1, <2>2, QuietStep
<1>3. CASE UNCHANGED vars
  BY <1>1, <1>3
  DEF vars, tables, IInv, SequencesIssued, SequencesNeverReused,
      RetainedAreNewest, EventsRecorded, CommitsHaveTheirEvent,
      ObservingInOrder, RecordedIsComplete, CompactingOldest,
      CompactedToBudget, KeptEvents, RetiredEvents
<1> QED
  BY <1>1, <1>2, <1>3, RecordStep, PolicyStep, CompactStep DEF Next

THEOREM InvCorrect == Spec => []IInv
<1> QED
  BY InvInit, InvStep, PTL DEF Spec

----------------------------------------------------------------------------
(* What the invariant gives.                                               *)

(* A sequence names one event for ever, across compaction and restarts.    *)
THEOREM SequencesNeverReusedCorrect == Spec => []SequencesNeverReused
<1>1. IInv => SequencesNeverReused
  BY DEF IInv
<1> QED
  BY <1>1, InvCorrect, PTL

(* Every commit row belongs to a stored event, at every point where a      *)
(* method can be cut short.                                                *)
THEOREM CommitsHaveTheirEventCorrect == Spec => []CommitsHaveTheirEvent
<1>1. IInv => CommitsHaveTheirEvent
  BY DEF IInv
<1> QED
  BY <1>1, InvCorrect, PTL

(* No event is removed before an older one, even by a compaction that was  *)
(* cut short.                                                              *)
THEOREM RetainedAreNewestCorrect == Spec => []RetainedAreNewest
<1>1. IInv => RetainedAreNewest
  BY DEF IInv
<1> QED
  BY <1>1, InvCorrect, PTL

(* EventRecorded is answered only once the whole observation is durable.   *)
THEOREM RecordedIsCompleteCorrect == Spec => []RecordedIsComplete
<1>1. IInv => RecordedIsComplete
  BY DEF IInv
<1> QED
  BY <1>1, InvCorrect, PTL

(* A compaction that returns has kept the budget, no more and, if it       *)
(* removed anything, no less.                                              *)
THEOREM CompactedToBudgetCorrect == Spec => []CompactedToBudget
<1>1. IInv => CompactedToBudget
  BY DEF IInv
<1> QED
  BY <1>1, InvCorrect, PTL

----------------------------------------------------------------------------
(* The store implements the ledger.                                        *)

LEMMA RefinementInit == Init => Ledger!LedgerInit
BY DEF Init, Ledger!LedgerInit

(* Recording an event is the ledger's Record.                              *)
LEMMA AssertEventRefines ==
  ASSUME IInv, NEW n \in Notification,
         NEW event, event = [sequence |-> NextEventSequence,
                             notification |-> n],
         AssertEvent(event)
  PROVE  Ledger!LedgerNext
<1>1. event \in [sequence : 1..MaxSequence, notification : Notification]
  BY StoreAssumption DEF AssertEvent, NextEventSequence, EngineCommit, IInv, TypeOK
<1>2. \A e \in recorded : e.sequence < event.sequence
  BY StoreAssumption
  DEF IInv, TypeOK, SequencesIssued, StoredEvent, Sequence, NextEventSequence
<1>3. Ledger!Record(event)
  BY <1>2 DEF AssertEvent, Ledger!Record
<1> QED
  BY <1>1, <1>3 DEF Ledger!LedgerNext

LEMMA RefinementStep ==
  IInv /\ [Next]_vars => [Ledger!LedgerNext]_Ledger!ledgerVars
<1> SUFFICES ASSUME IInv, [Next]_vars
             PROVE  [Ledger!LedgerNext]_Ledger!ledgerVars
  OBVIOUS
<1>1. ASSUME NEW n \in Notification, RecordHookNotification(n)
      PROVE  Ledger!LedgerNext
  BY <1>1, AssertEventRefines DEF RecordHookNotification
<1>2. ASSUME NEW n \in Notification, NEW list \in CommitList,
             RecordPushObservation(n, list)
      PROVE  Ledger!LedgerNext
  BY <1>2, AssertEventRefines DEF RecordPushObservation
<1>3. CASE RetractEvent
  <2>1. PICK event \in RetiredEvents :
          /\ \A e \in RetiredEvents : event.sequence <= e.sequence
          /\ events' = events \ {event}
    BY <1>3 DEF RetractEvent
  <2>2. call.at = "compacting" /\ UNCHANGED recorded
    BY <1>3 DEF RetractEvent
  <2>3. \A e \in events : e.sequence \in Nat
    BY StoreAssumption DEF IInv, TypeOK, StoredEvent, Sequence
  <2>4. event \in events /\ \A e \in events : event.sequence <= e.sequence
    BY <2>1, <2>2, <2>3 DEF IInv, CompactingOldest, KeptEvents, RetiredEvents
  <2> QED
    BY <2>1, <2>2, <2>4 DEF Ledger!LedgerNext, Ledger!Forget
<1>4. CASE \/ AssertCommit \/ PolicyNext \/ RetractCommit
           \/ CompactVersionedHistory
           \/ \E budget \in Budget : CompactHistory(budget)
           \/ EngineError \/ Crash \/ Open \/ UNCHANGED vars
  BY <1>4
  DEF AssertCommit, PolicyNext, RegisterRepository, RetireRepository,
      SetSpoolDirectoryPolicy, SetMirrorPolicy, RetractCommit,
      CompactVersionedHistory, CompactHistory, EngineError, Crash, Open,
      vars, tables, Ledger!ledgerVars
<1> QED
  BY <1>1, <1>2, <1>3, <1>4 DEF Next, RecordNext, CompactNext

(* Whatever happens inside the store, its events behave as EventLedger     *)
(* promises: recorded in increasing sequence, forgotten oldest first.      *)
THEOREM StoreImplementsLedger == Spec => StoreRefinement
<1> QED
  BY RefinementInit, RefinementStep, InvCorrect, PTL
  DEF Spec, StoreRefinement, Ledger!LedgerSpec

============================================================================
