--------------------------- MODULE QueriesProofs ---------------------------
(***************************************************************************)
(* Proofs about the queries of Queries.tla and the agent that pages        *)
(* through Events.                                                         *)
(***************************************************************************)
EXTENDS Queries, StoreProofs, SequenceTheorems, FunctionTheorems

----------------------------------------------------------------------------
(* Keys.                                                                   *)

Keys(n) == [1..n -> Int]

(* A key does not precede itself, and precedes what follows it.            *)
LEMMA PrecedesIrreflexive ==
  ASSUME NEW n \in Nat, NEW k \in Keys(n)
  PROVE  ~Precedes(k, k)
BY DEF Precedes, Keys

LEMMA PrecedesTransitive ==
  ASSUME NEW n \in Nat, NEW a \in Keys(n), NEW b \in Keys(n),
         NEW c \in Keys(n), Precedes(a, b), Precedes(b, c)
  PROVE  Precedes(a, c)
<1>1. PICK i \in 1..n : a[i] < b[i] /\ \A j \in 1..(i - 1) : a[j] = b[j]
  BY DEF Precedes, Keys
<1>2. PICK k \in 1..n : b[k] < c[k] /\ \A j \in 1..(k - 1) : b[j] = c[j]
  BY DEF Precedes, Keys
<1>3. \A j \in 1..n : a[j] \in Int /\ b[j] \in Int /\ c[j] \in Int
  BY DEF Keys
<1>4. CASE i <= k
  <2>1. a[i] < c[i]
    <3>1. b[i] <= c[i]
      BY <1>2, <1>3, <1>4
    <3> QED
      BY <3>1, <1>1, <1>3
  <2>2. \A j \in 1..(i - 1) : a[j] = c[j]
    BY <1>1, <1>2, <1>4
  <2> QED
    BY <2>1, <2>2 DEF Precedes, Keys
<1>5. CASE k < i
  <2>1. a[k] < c[k]
    BY <1>1, <1>2, <1>5
  <2>2. \A j \in 1..(k - 1) : a[j] = c[j]
    BY <1>1, <1>2, <1>5
  <2> QED
    BY <2>1, <2>2 DEF Precedes, Keys
<1> QED
  BY <1>4, <1>5

(* Of two keys that differ, one precedes the other: they are compared at   *)
(* the first place where they differ.                                      *)
LEMMA PrecedesTotal ==
  ASSUME NEW n \in Nat, NEW a \in Keys(n), NEW b \in Keys(n), a # b
  PROVE  Precedes(a, b) \/ Precedes(b, a)
<1> DEFINE D == {i \in 1..n : a[i] # b[i]}
<1>1. D \in SUBSET Nat /\ D # {}
  <2>1. PICK i \in 1..n : a[i] # b[i]
    BY DEF Keys
  <2> QED
    BY <2>1
<1>2. PICK i \in D : \A j \in D : i <= j
  BY <1>1, LeastNatural
<1>3. \A j \in 1..(i - 1) : a[j] = b[j]
  BY <1>2
<1>4. a[i] < b[i] \/ b[i] < a[i]
  BY DEF Keys
<1> QED
  BY <1>3, <1>4 DEF Precedes, Keys

----------------------------------------------------------------------------
(* Sorting.                                                                *)

(* Sorted lists each row once, in the order of the keys, when the keys are *)
(* of one length and all differ.                                           *)
LEMMA SortedLists ==
  ASSUME NEW S, IsFiniteSet(S), NEW n \in Nat, NEW key \in [S -> Keys(n)],
         \A r, s \in S : key[r] = key[s] => r = s
  PROVE  /\ Sorted(key) \in [1..Cardinality(S) -> S]
         /\ \A r \in S : \E i \in 1..Cardinality(S) : Sorted(key)[i] = r
         /\ \A i, j \in 1..Cardinality(S) :
              i < j => Precedes(key[Sorted(key)[i]], key[Sorted(key)[j]])
<1> DEFINE Below(s) == {r \in S : Precedes(key[r], key[s])}
           N == Cardinality(S)
           rank == [s \in S |-> Cardinality(Below(s)) + 1]
<1>1. N \in Nat
  BY FS_CardinalityType
<1>2. ASSUME NEW s \in S
      PROVE  /\ IsFiniteSet(Below(s))
             /\ Cardinality(Below(s)) \in 0..(N - 1)
  <2>1. Below(s) \in SUBSET (S \ {s})
    BY PrecedesIrreflexive
  <2>2. IsFiniteSet(S \ {s}) /\ Cardinality(S \ {s}) = N - 1
    BY FS_RemoveElement
  <2>3. IsFiniteSet(Below(s)) /\ Cardinality(Below(s)) <= N - 1
    <3> HIDE DEF Below, N
    <3> QED
      BY <2>1, <2>2, FS_Subset
  <2>4. Cardinality(Below(s)) \in Nat
    BY <2>3, FS_CardinalityType
  <2> QED
    BY <2>3, <2>4, <1>1
<1>3. ASSUME NEW r \in S, NEW s \in S, Precedes(key[r], key[s])
      PROVE  Cardinality(Below(r)) < Cardinality(Below(s))
  <2>1. \A q \in Below(r) : q \in Below(s)
    BY <1>3, PrecedesTransitive
  <2>2. r \in Below(s) /\ r \notin Below(r)
    BY <1>3, PrecedesIrreflexive
  <2> HIDE DEF Below
  <2>3. Below(r) \in SUBSET Below(s) /\ Below(r) # Below(s)
    BY <2>1, <2>2
  <2>4. /\ Cardinality(Below(r)) <= Cardinality(Below(s))
        /\ Cardinality(Below(r)) # Cardinality(Below(s))
    BY <2>3, <1>2, FS_Subset
  <2>5. Cardinality(Below(r)) \in Nat /\ Cardinality(Below(s)) \in Nat
    BY <1>2, <1>1
  <2> QED
    BY <2>4, <2>5
<1>4. \A r, s \in S : Cardinality(Below(r)) = Cardinality(Below(s)) => r = s
  <2> SUFFICES ASSUME NEW r \in S, NEW s \in S, r # s
               PROVE  Cardinality(Below(r)) # Cardinality(Below(s))
    OBVIOUS
  <2>1. key[r] \in Keys(n) /\ key[s] \in Keys(n) /\ key[r] # key[s]
    OBVIOUS
  <2>2. Precedes(key[r], key[s]) \/ Precedes(key[s], key[r])
    BY <2>1, PrecedesTotal
  <2> HIDE DEF Below, N
  <2>3. Cardinality(Below(r)) \in Nat /\ Cardinality(Below(s)) \in Nat
    BY <1>2, <1>1
  <2> QED
    BY <2>2, <2>3, <1>3
<1>5. rank \in Surjection(S, 1..N)
  <2> HIDE DEF Below, N
  <2>1. rank \in [S -> 1..N]
    BY <1>1, <1>2
  <2>2. \A r, s \in S : rank[r] = rank[s] => r = s
    <3> SUFFICES ASSUME NEW r \in S, NEW s \in S, rank[r] = rank[s]
                 PROVE  r = s
      OBVIOUS
    <3>1. Cardinality(Below(r)) \in Nat /\ Cardinality(Below(s)) \in Nat
      BY <1>2, <1>1
    <3>2. Cardinality(Below(r)) + 1 = Cardinality(Below(s)) + 1
      OBVIOUS
    <3>3. Cardinality(Below(r)) = Cardinality(Below(s))
      BY <3>1, <3>2
    <3> QED
      BY <3>3, <1>4
  <2>3. rank \in Injection(S, 1..N)
    BY <2>1, <2>2 DEF Injection, IsInjective
  <2>4. IsFiniteSet(1..N) /\ Cardinality(1..N) = N
    BY <1>1, FS_Interval
  <2> HIDE DEF rank
  <2> QED
    BY <2>3, <2>4, FS_Injection DEF N
<1>6. \A i \in 1..N : \E s \in S : Cardinality(Below(s)) = i - 1
  <2> HIDE DEF Below, N
  <2> TAKE i \in 1..N
  <2>1. PICK s \in S : rank[s] = i
    BY <1>5 DEF Surjection
  <2>2. Cardinality(Below(s)) + 1 = i /\ Cardinality(Below(s)) \in 0..(N - 1)
    BY <2>1, <1>2
  <2>3. Cardinality(Below(s)) = i - 1
    BY <2>2, <1>1
  <2> QED
    BY <2>3
<1> DEFINE list == Sorted(key)
<1>7. list = [i \in 1..N |-> CHOOSE s \in S : Cardinality(Below(s)) = i - 1]
  <2>1. DOMAIN key = S
    OBVIOUS
  <2> QED
    BY <2>1 DEF Sorted
<1>8. \A i \in 1..N : list[i] \in S /\ Cardinality(Below(list[i])) = i - 1
  <2> HIDE DEF Below, N, list
  <2> QED
    BY <1>6, <1>7
<1>9. list \in [1..N -> S]
  <2> HIDE DEF Below, N
  <2>1. list = [i \in 1..N |-> list[i]]
    BY <1>7
  <2> HIDE DEF list
  <2> QED
    BY <2>1, <1>8
<1>10. \A r \in S : \E i \in 1..N : list[i] = r
  <2> HIDE DEF Below, N, list
  <2> TAKE r \in S
  <2>1. PICK i \in 1..N : i - 1 = Cardinality(Below(r))
    <3>1. Cardinality(Below(r)) + 1 \in 1..N
      BY <1>2, <1>1
    <3>2. (Cardinality(Below(r)) + 1) - 1 = Cardinality(Below(r))
      BY <1>2, <1>1
    <3> QED
      BY <3>1, <3>2
  <2>2. list[i] \in S /\ Cardinality(Below(list[i])) = Cardinality(Below(r))
    BY <2>1, <1>8
  <2> QED
    BY <2>2, <1>4
<1>11. \A i, j \in 1..N : i < j => Precedes(key[list[i]], key[list[j]])
  <2> HIDE DEF Below, N, list
  <2> SUFFICES ASSUME NEW i \in 1..N, NEW j \in 1..N, i < j,
                      ~Precedes(key[list[i]], key[list[j]])
               PROVE  FALSE
    OBVIOUS
  <2>1. /\ list[i] \in S /\ Cardinality(Below(list[i])) = i - 1
        /\ list[j] \in S /\ Cardinality(Below(list[j])) = j - 1
    BY <1>8
  <2>2. i - 1 < j - 1
    BY <1>1
  <2>3. list[i] # list[j]
    BY <2>1, <2>2, <1>1
  <2>4. key[list[i]] \in Keys(n) /\ key[list[j]] \in Keys(n)
        /\ key[list[i]] # key[list[j]]
    BY <2>1, <2>3
  <2>5. Precedes(key[list[j]], key[list[i]])
    BY <2>4, PrecedesTotal
  <2>6. Cardinality(Below(list[j])) < Cardinality(Below(list[i]))
    BY <2>5, <2>1, <1>3
  <2> QED
    BY <2>1, <2>2, <2>6, <1>1
<1> QED
  BY <1>9, <1>10, <1>11

(* The listing of the rows S under a limit: the first rows in the order of *)
(* their keys.                                                             *)
Listing(key, limit) == Truncate(Sorted(key), limit)

LEMMA MinOfTwo ==
  ASSUME NEW a \in Nat, NEW b \in Nat
  PROVE  /\ Min({a, b}) \in Nat
         /\ Min({a, b}) <= a
         /\ Min({a, b}) <= b
         /\ Min({a, b}) \in {a, b}
<1>1. \E x \in {a, b} : \A y \in {a, b} : x =< y
  BY a <= b \/ b <= a
<1> QED
  BY <1>1 DEF Min

LEMMA ListingIsPrefix ==
  ASSUME NEW S, IsFiniteSet(S), NEW n \in Nat, NEW key \in [S -> Keys(n)],
         \A r, s \in S : key[r] = key[s] => r = s,
         NEW limit \in Nat
  PROVE  /\ Listing(key, limit) \in Seq(S)
         /\ Len(Listing(key, limit)) <= limit
         /\ Len(Listing(key, limit)) <= Cardinality(S)
         /\ Len(Listing(key, limit)) \in {limit, Cardinality(S)}
         /\ \A i, j \in 1..Len(Listing(key, limit)) :
              i < j => Precedes(key[Listing(key, limit)[i]],
                                key[Listing(key, limit)[j]])
         /\ \A s \in S :
              \/ \E i \in 1..Len(Listing(key, limit)) :
                    Listing(key, limit)[i] = s
              \/ \A i \in 1..Len(Listing(key, limit)) :
                    Precedes(key[Listing(key, limit)[i]], key[s])
<1> DEFINE N == Cardinality(S)
           list == Sorted(key)
           m == Min({limit, N})
           page == Listing(key, limit)
<1>1. N \in Nat
  BY FS_CardinalityType
<1>2. /\ list \in [1..N -> S]
      /\ \A r \in S : \E i \in 1..N : list[i] = r
      /\ \A i, j \in 1..N : i < j => Precedes(key[list[i]], key[list[j]])
  BY SortedLists
<1>3. list \in Seq(S) /\ Len(list) = N
  <2> HIDE DEF list, N
  <2> QED
    BY <1>1, <1>2
<1>4. m \in Nat /\ m <= limit /\ m <= N /\ m \in {limit, N}
  BY <1>1, MinOfTwo
<1>5. page = SubSeq(list, 1, m)
  BY <1>3 DEF Listing, Truncate
<1>6. /\ page \in Seq(S)
      /\ Len(page) = m
      /\ \A i \in 1..m : page[i] = list[i]
  <2> HIDE DEF list, N, m, page
  <2> QED
    BY <1>1, <1>3, <1>4, <1>5
<1>7. ASSUME NEW s \in S
      PROVE  \/ \E i \in 1..m : page[i] = s
             \/ \A i \in 1..m : Precedes(key[page[i]], key[s])
  <2> HIDE DEF list, N, m, page
  <2>1. PICK k \in 1..N : list[k] = s
    BY <1>2
  <2>2. CASE k <= m
    <3>1. k \in 1..m
      BY <2>2, <1>1, <1>4
    <3> QED
      BY <3>1, <2>1, <1>6
  <2>3. CASE m < k
    <3> SUFFICES ASSUME NEW i \in 1..m
                 PROVE  Precedes(key[page[i]], key[s])
      OBVIOUS
    <3>1. i \in 1..N /\ i < k
      BY <2>3, <1>1, <1>4
    <3>2. Precedes(key[list[i]], key[list[k]])
      BY <3>1, <1>2
    <3> QED
      BY <3>2, <2>1, <1>6
  <2> QED
    BY <2>2, <2>3, <1>1, <1>4
<1>8. \A i, j \in 1..m : i < j => Precedes(key[page[i]], key[page[j]])
  <2> HIDE DEF list, N, m, page
  <2> SUFFICES ASSUME NEW i \in 1..m, NEW j \in 1..m, i < j
               PROVE  Precedes(key[page[i]], key[page[j]])
    OBVIOUS
  <2>1. i \in 1..N /\ j \in 1..N
    BY <1>1, <1>4
  <2> QED
    BY <2>1, <1>2, <1>6
<1> HIDE DEF list, N, m, page
<1>9. /\ Len(page) <= limit /\ Len(page) <= N /\ Len(page) \in {limit, N}
      /\ \A i, j \in 1..Len(page) :
           i < j => Precedes(key[page[i]], key[page[j]])
  BY <1>4, <1>6, <1>8
<1>10. \A s \in S : \/ \E i \in 1..Len(page) : page[i] = s
                    \/ \A i \in 1..Len(page) : Precedes(key[page[i]], key[s])
  BY <1>6, <1>7
<1> QED
  BY <1>6, <1>9, <1>10 DEF page, N

(* A limit that is no smaller than their number keeps all the rows.        *)
LEMMA ListingIsAll ==
  ASSUME NEW S, IsFiniteSet(S), NEW n \in Nat, NEW key \in [S -> Keys(n)],
         \A r, s \in S : key[r] = key[s] => r = s,
         NEW limit \in Nat, Cardinality(S) <= limit
  PROVE  /\ ToSet(Listing(key, limit)) = S
         /\ Len(Listing(key, limit)) = Cardinality(S)
         /\ Listing(key, limit) = Sorted(key)
<1> DEFINE N == Cardinality(S)
           list == Sorted(key)
<1>1. N \in Nat
  BY FS_CardinalityType
<1>2. /\ list \in [1..N -> S]
      /\ \A r \in S : \E i \in 1..N : list[i] = r
  BY SortedLists
<1> HIDE DEF list, N
<1>3. list \in Seq(S) /\ Len(list) = N
  BY <1>1, <1>2
<1>4. Min({limit, N}) = N
  BY <1>1, MinOfTwo DEF N
<1>5. SubSeq(list, 1, N) = list
  BY <1>1, <1>2, <1>3
<1>6. Listing(key, limit) = list
  BY <1>3, <1>4, <1>5 DEF Listing, Truncate, list
<1>7. ToSet(list) = S
  BY <1>2, <1>3 DEF ToSet
<1> QED
  BY <1>3, <1>6, <1>7 DEF list, N

----------------------------------------------------------------------------
(* Pages of Events.                                                        *)

(* A key of one component.                                                 *)
LEMMA KeyOfOne ==
  /\ \A a \in Int : <<a>> \in Keys(1)
  /\ \A a, b \in Int : Precedes(<<a>>, <<b>>) <=> a < b
<1>1. \A a \in Int : <<a>> \in Keys(1)
  BY DEF Keys
<1>2. ASSUME NEW a \in Int, NEW b \in Int
      PROVE  Precedes(<<a>>, <<b>>) <=> a < b
  <2>1. DOMAIN <<a>> = {1} /\ 1..(1 - 1) = {} /\ <<a>>[1] = a /\ <<b>>[1] = b
    OBVIOUS
  <2> QED
    BY <2>1 DEF Precedes
<1> QED
  BY <1>1, <1>2

(* The answer to an Events query: the first of the rows that pass the      *)
(* filters, in sequence order, as many as the limit lets through.          *)
LEMMA EventListingIs ==
  ASSUME IInv, NEW S \in SUBSET events, NEW limit \in Nat,
         NEW page, page = Truncate(Sorted([e \in S |-> <<e.sequence>>]), limit)
  PROVE  /\ page \in Seq(S)
         /\ Len(page) \in {limit, Cardinality(S)}
         /\ \A i, j \in 1..Len(page) :
              i < j => page[i].sequence < page[j].sequence
         /\ \A e \in S : \/ \E i \in 1..Len(page) : page[i] = e
                         \/ \A i \in 1..Len(page) :
                               page[i].sequence < e.sequence
<1> DEFINE key == [e \in S |-> <<e.sequence>>]
<1>1. \A e \in S : e.sequence \in Int
  BY StoreAssumption DEF IInv, TypeOK, StoredEvent, Sequence
<1>2. IsFiniteSet(S)
  BY FS_Subset DEF IInv, EventsRecorded
<1>3. key \in [S -> Keys(1)]
  BY <1>1, KeyOfOne
<1>4. \A r, s \in S : key[r] = key[s] => r = s
  BY DEF IInv, EventsRecorded, SequencesNeverReused
<1>5. page = Listing(key, limit)
  BY DEF Listing
<1>6. \A r, s \in S : Precedes(key[r], key[s]) <=> r.sequence < s.sequence
  BY <1>1, KeyOfOne
<1> HIDE DEF key
<1>7. /\ page \in Seq(S)
      /\ Len(page) \in {limit, Cardinality(S)}
      /\ \A i, j \in 1..Len(page) :
           i < j => Precedes(key[page[i]], key[page[j]])
      /\ \A e \in S : \/ \E i \in 1..Len(page) : page[i] = e
                      \/ \A i \in 1..Len(page) :
                            Precedes(key[page[i]], key[e])
  <2>1. /\ Listing(key, limit) \in Seq(S)
        /\ Len(Listing(key, limit)) \in {limit, Cardinality(S)}
        /\ \A i, j \in 1..Len(Listing(key, limit)) :
             i < j => Precedes(key[Listing(key, limit)[i]],
                               key[Listing(key, limit)[j]])
        /\ \A e \in S :
             \/ \E i \in 1..Len(Listing(key, limit)) :
                   Listing(key, limit)[i] = e
             \/ \A i \in 1..Len(Listing(key, limit)) :
                   Precedes(key[Listing(key, limit)[i]], key[e])
    BY <1>2, <1>3, <1>4, ListingIsPrefix
  <2> QED
    BY <2>1, <1>5
<1>8. \A i \in 1..Len(page) : page[i] \in S
  BY <1>7
<1> QED
  BY <1>6, <1>7, <1>8

----------------------------------------------------------------------------
(* The agent that pages through Events.                                    *)

(* No two commit rows share a record key.                                  *)
CommitKeysUnique ==
  \A c, d \in commits : CommitKey(c) = CommitKey(d) => c = d

(* The agent's cursor is behind the engine's high-water mark, and every    *)
(* event it has received is behind the cursor.                             *)
FeedInv ==
  /\ IInv
  /\ CommitKeysUnique
  /\ IsFiniteSet(commits)
  /\ cursor \in 0..commitSequence
  /\ received \in Seq(StoredEvent)
  /\ FeedInOrder
  /\ \A i \in DOMAIN received : received[i].sequence <= cursor
  /\ FeedMissesNothing

LEMMA FeedInvInit == FeedInit => FeedInv
<1> SUFFICES ASSUME FeedInit
             PROVE  FeedInv
  OBVIOUS
<1>1. Init /\ cursor = 0 /\ received = <<>>
  BY DEF FeedInit
<1>2. IInv
  BY <1>1, InvInit
<1>3. CommitKeysUnique /\ IsFiniteSet(commits)
  BY <1>1, FS_EmptySet DEF Init, CommitKeysUnique
<1>4. cursor \in 0..commitSequence /\ received \in Seq(StoredEvent)
  BY <1>1, StoreAssumption DEF Init
<1>5. /\ FeedInOrder
      /\ \A i \in DOMAIN received : received[i].sequence <= cursor
  BY <1>1 DEF FeedInOrder
<1>6. FeedMissesNothing
  BY <1>1 DEF Init, FeedMissesNothing
<1> QED
  BY <1>2, <1>3, <1>4, <1>5, <1>6 DEF FeedInv

(* What a step of the store adds to the events is past the high-water mark *)
(* the step started from.                                                  *)
LEMMA EventsOfAStep ==
  ASSUME TypeOK, [Next]_vars
  PROVE  /\ commitSequence <= commitSequence'
         /\ \A e \in events' : e \in events \/ commitSequence < e.sequence
<1>1. commitSequence \in Nat /\ MaxSequence \in Nat
  BY StoreAssumption DEF TypeOK
<1>2. ASSUME NEW event, AssertEvent(event)
      PROVE  /\ commitSequence <= commitSequence'
             /\ \A e \in events' : e \in events \/ commitSequence < e.sequence
  BY <1>1, <1>2 DEF AssertEvent, NextEventSequence, EngineCommit
<1>3. CASE RecordNext
  <2>1. CASE \E n \in Notification : RecordHookNotification(n)
    BY <2>1, <1>2 DEF RecordHookNotification
  <2>2. CASE \E n \in Notification, list \in CommitList :
               RecordPushObservation(n, list)
    BY <2>2, <1>2 DEF RecordPushObservation
  <2>3. CASE AssertCommit
    BY <2>3, <1>1 DEF AssertCommit, EngineCommit
  <2> QED
    BY <1>3, <2>1, <2>2, <2>3 DEF RecordNext
<1>4. CASE PolicyNext
  BY <1>4, <1>1
  DEF PolicyNext, RegisterRepository, RetireRepository,
      SetSpoolDirectoryPolicy, SetMirrorPolicy, EngineCommit
<1>5. CASE CompactNext
  BY <1>5, <1>1
  DEF CompactNext, CompactHistory, RetractCommit, RetractEvent,
      CompactVersionedHistory, EngineCommit, tables
<1>6. CASE EngineError \/ Crash \/ Open \/ UNCHANGED vars
  BY <1>6, <1>1 DEF EngineError, Crash, Open, vars, tables
<1> QED
  BY <1>3, <1>4, <1>5, <1>6 DEF Next

(* The engine refuses a commit row whose key is there.                     *)
LEMMA CommitsOfAStep ==
  ASSUME CommitKeysUnique, IsFiniteSet(commits), [Next]_vars
  PROVE  CommitKeysUnique' /\ IsFiniteSet(commits')
<1>1. CASE AssertCommit
  <2>1. PICK row : /\ \A c \in commits : CommitKey(c) # CommitKey(row)
                   /\ commits' = commits \cup {row}
    BY <1>1 DEF AssertCommit
  <2>2. CommitKeysUnique'
    BY <2>1 DEF CommitKeysUnique, CommitKey
  <2> QED
    BY <2>1, <2>2, FS_AddElement
<1>2. CASE RetractCommit
  <2>1. PICK row : commits' = commits \ {row}
    BY <1>2 DEF RetractCommit
  <2>2. CommitKeysUnique'
    BY <2>1 DEF CommitKeysUnique, CommitKey
  <2> QED
    BY <2>1, <2>2, FS_RemoveElement
<1>3. CASE commits' = commits
  BY <1>3 DEF CommitKeysUnique, CommitKey
<1>4. [Next]_vars => AssertCommit \/ RetractCommit \/ commits' = commits
  BY DEF Next, RecordNext, RecordHookNotification, RecordPushObservation,
         AssertEvent, PolicyNext, RegisterRepository, RetireRepository,
         SetSpoolDirectoryPolicy, SetMirrorPolicy, CompactNext,
         CompactHistory, RetractEvent, CompactVersionedHistory, EngineError,
         Crash, Open, vars, tables
<1> QED
  BY <1>1, <1>2, <1>3, <1>4

(* One page: the events past the cursor up to the last one shown, none of  *)
(* them left out.                                                          *)
LEMMA PollPage ==
  ASSUME FeedInv, NEW limit \in Limit, Poll(limit)
  PROVE  \E page \in Seq(events), last \in events :
           /\ page # <<>>
           /\ last = page[Len(page)]
           /\ received' = received \o page
           /\ cursor' = last.sequence
           /\ cursor < last.sequence
           /\ \A i \in 1..Len(page) : /\ cursor < page[i].sequence
                                      /\ page[i].sequence <= last.sequence
           /\ \A i, j \in 1..Len(page) :
                i < j => page[i].sequence < page[j].sequence
           /\ \A e \in events :
                cursor < e.sequence /\ e.sequence <= last.sequence =>
                  \E i \in 1..Len(page) : page[i] = e
<1> DEFINE S == EventRows({}, {cursor})
           page == EventListing({}, {cursor}, limit)
           last == page[Len(page)]
<1>1. S \in SUBSET events /\ \A e \in events : e \in S <=> e.sequence > cursor
  BY DEF EventRows
<1>2. page = Truncate(Sorted([e \in S |-> <<e.sequence>>]), limit)
  BY DEF EventListing
<1>3. limit \in Nat /\ IInv
  BY QueriesAssumption DEF FeedInv
<1>4. page # <<>> /\ received' = received \o page /\ cursor' = last.sequence
  BY DEF Poll, Last
<1> HIDE DEF S, page
<1>5. /\ page \in Seq(S)
      /\ \A i, j \in 1..Len(page) :
           i < j => page[i].sequence < page[j].sequence
      /\ \A e \in S : \/ \E i \in 1..Len(page) : page[i] = e
                      \/ \A i \in 1..Len(page) :
                            page[i].sequence < e.sequence
  BY <1>1, <1>2, <1>3, EventListingIs
<1>6. Len(page) \in Nat /\ Len(page) \in 1..Len(page)
  BY <1>4, <1>5
<1>7. \A i \in 1..Len(page) : page[i] \in S
  BY <1>5
<1>8. \A e \in events : e.sequence \in Nat
  BY StoreAssumption, <1>3 DEF IInv, TypeOK, StoredEvent, Sequence
<1>9. cursor \in Nat
  BY StoreAssumption, <1>3 DEF FeedInv, IInv, TypeOK
<1>10. page \in Seq(events) /\ last \in events /\ cursor < last.sequence
  BY <1>1, <1>5, <1>6, <1>7, <1>8, <1>9
<1>11. ASSUME NEW i \in 1..Len(page)
       PROVE  cursor < page[i].sequence /\ page[i].sequence <= last.sequence
  <2>1. page[i] \in events /\ cursor < page[i].sequence
    BY <1>1, <1>7, <1>8, <1>9
  <2>2. CASE i = Len(page)
    BY <2>1, <2>2, <1>8
  <2>3. CASE i # Len(page)
    <3>1. i < Len(page)
      BY <2>3, <1>6
    <3>2. page[i].sequence < last.sequence
      BY <3>1, <1>5, <1>6
    <3> QED
      BY <3>2, <2>1, <1>8, <1>10
  <2> QED
    BY <2>2, <2>3
<1>12. ASSUME NEW e \in events,
              cursor < e.sequence, e.sequence <= last.sequence
       PROVE  \E i \in 1..Len(page) : page[i] = e
  <2>1. e \in S
    BY <1>1, <1>8, <1>9, <1>12
  <2>2. ~(last.sequence < e.sequence)
    BY <1>8, <1>10, <1>12
  <2> QED
    BY <2>1, <2>2, <1>5, <1>6
<1> HIDE DEF last
<1>13. last = page[Len(page)]
  BY DEF last
<1> QED
  BY <1>4, <1>5, <1>10, <1>11, <1>12, <1>13

LEMMA PollStep ==
  ASSUME FeedInv, NEW limit \in Limit, Poll(limit)
  PROVE  FeedInv'
<1>1. PICK page \in Seq(events), last \in events :
        /\ page # <<>>
        /\ last = page[Len(page)]
        /\ received' = received \o page
        /\ cursor' = last.sequence
        /\ cursor < last.sequence
        /\ \A i \in 1..Len(page) : /\ cursor < page[i].sequence
                                   /\ page[i].sequence <= last.sequence
        /\ \A i, j \in 1..Len(page) :
             i < j => page[i].sequence < page[j].sequence
        /\ \A e \in events :
             cursor < e.sequence /\ e.sequence <= last.sequence =>
               \E i \in 1..Len(page) : page[i] = e
  BY PollPage
<1>2. UNCHANGED vars
  BY DEF Poll
<1>3. IInv /\ IInv'
  BY <1>2, InvStep DEF FeedInv
<1>4. CommitKeysUnique' /\ IsFiniteSet(commits')
  BY <1>2, CommitsOfAStep DEF FeedInv
<1>5. /\ events' = events /\ commitSequence' = commitSequence
      /\ events \subseteq StoredEvent
      /\ \A e \in events : e.sequence \in Nat
  BY <1>2, <1>3, StoreAssumption
  DEF vars, tables, IInv, TypeOK, StoredEvent, Sequence
<1>6. cursor \in Nat /\ commitSequence \in Nat /\ received \in Seq(StoredEvent)
  BY <1>3, StoreAssumption DEF FeedInv, IInv, TypeOK
<1>7. cursor' \in 0..commitSequence'
  <2>1. last.sequence <= commitSequence
    BY <1>3 DEF IInv, EventsRecorded, SequencesIssued
  <2> QED
    BY <2>1, <1>1, <1>5, <1>6
<1>8. page \in Seq(StoredEvent)
  BY <1>5
<1> DEFINE n == Len(received)
           m == Len(page)
<1>9. /\ n \in Nat /\ m \in Nat
      /\ received' \in Seq(StoredEvent)
      /\ DOMAIN received = 1..n
      /\ DOMAIN received' = 1..(n + m)
      /\ \A i \in 1..n : received'[i] = received[i]
      /\ \A i \in (n + 1)..(n + m) :
           i - n \in 1..m /\ received'[i] = page[i - n]
  BY <1>1, <1>6, <1>8
<1>10. \A i \in 1..n : received[i].sequence <= cursor
  BY <1>9 DEF FeedInv
<1>11. \A i \in 1..n : received[i].sequence \in Nat
  <2>1. \A i \in 1..n : received[i] \in StoredEvent
    BY <1>6, <1>9
  <2> QED
    BY <2>1, StoreAssumption DEF StoredEvent, Sequence
<1>12. \A i \in 1..m : page[i].sequence \in Nat
  BY <1>5
<1> HIDE DEF n, m
<1>13. FeedInOrder'
  <2> SUFFICES ASSUME NEW i \in 1..(n + m), NEW j \in 1..(n + m), i < j
               PROVE  received'[i].sequence < received'[j].sequence
    BY <1>9 DEF FeedInOrder
  <2>1. CASE j <= n
    <3>1. i \in 1..n /\ j \in 1..n
      BY <2>1, <1>9
    <3>2. received[i].sequence < received[j].sequence
      BY <3>1, <1>9 DEF FeedInv, FeedInOrder
    <3> QED
      BY <3>1, <3>2, <1>9
  <2>2. CASE i <= n /\ n < j
    <3>1. i \in 1..n /\ j \in (n + 1)..(n + m)
      BY <2>2, <1>9
    <3>2. /\ received'[i] = received[i]
          /\ received'[j] = page[j - n] /\ j - n \in 1..m
      BY <3>1, <1>9
    <3>3. received[i].sequence <= cursor /\ cursor < page[j - n].sequence
      BY <3>1, <3>2, <1>1, <1>10 DEF m
    <3>4. received[i].sequence \in Nat /\ page[j - n].sequence \in Nat
      BY <3>1, <3>2, <1>11, <1>12
    <3>5. received[i].sequence < page[j - n].sequence
      <4>1. cursor \in Nat
        BY <1>6
      <4>2. \A a, b, c \in Nat : a <= b /\ b < c => a < c
        OBVIOUS
      <4> QED
        BY <3>3, <3>4, <4>1, <4>2
    <3> QED
      BY <3>2, <3>5
  <2>3. CASE n < i
    <3>0. n \in Nat /\ m \in Nat
      BY <1>9
    <3>1. i \in (n + 1)..(n + m) /\ j \in (n + 1)..(n + m) /\ i - n < j - n
      BY <2>3, <3>0
    <3>2. /\ received'[i] = page[i - n] /\ i - n \in 1..m
          /\ received'[j] = page[j - n] /\ j - n \in 1..m
      BY <3>1, <1>9
    <3> QED
      BY <3>1, <3>2, <1>1 DEF m
  <2> QED
    BY <2>1, <2>2, <2>3, <1>9
<1>14. (\A i \in DOMAIN received : received[i].sequence <= cursor)'
  <2> SUFFICES ASSUME NEW i \in 1..(n + m)
               PROVE  received'[i].sequence <= cursor'
    BY <1>9
  <2>1. CASE i <= n
    <3>1. i \in 1..n /\ received'[i] = received[i]
      BY <2>1, <1>9
    <3> QED
      BY <3>1, <1>1, <1>5, <1>6, <1>10, <1>11
  <2>2. CASE n < i
    <3>1. i \in (n + 1)..(n + m)
      BY <2>2, <1>9
    <3> QED
      BY <3>1, <1>1, <1>9 DEF m
  <2> QED
    BY <2>1, <2>2, <1>9
<1>15. FeedMissesNothing'
  <2> SUFFICES ASSUME NEW e \in events, e.sequence <= last.sequence
               PROVE  e \in ToSet(received')
    BY <1>1, <1>5 DEF FeedMissesNothing, ToSet
  <2>1. CASE e.sequence <= cursor
    <3>1. PICK i \in 1..n : received[i] = e
      BY <2>1, <1>9 DEF FeedInv, FeedMissesNothing, ToSet
    <3>2. i \in 1..(n + m) /\ received'[i] = e
      BY <3>1, <1>9
    <3> QED
      BY <3>2, <1>9 DEF ToSet
  <2>2. CASE cursor < e.sequence
    <3>1. PICK i \in 1..m : page[i] = e
      BY <2>2, <1>1 DEF m
    <3>2. n + i \in (n + 1)..(n + m) /\ (n + i) - n = i
      BY <1>9
    <3>3. n + i \in 1..(n + m) /\ received'[n + i] = e
      BY <3>1, <3>2, <1>9
    <3> QED
      BY <3>3, <1>9 DEF ToSet
  <2> QED
    BY <2>1, <2>2, <1>5, <1>6
<1> QED
  BY <1>3, <1>4, <1>7, <1>9, <1>13, <1>14, <1>15 DEF FeedInv

(* Nothing is recorded behind the cursor.                                  *)
LEMMA FeedInvStep == FeedInv /\ [FeedNext]_<<vars, feedVars>> => FeedInv'
<1> SUFFICES ASSUME FeedInv, [FeedNext]_<<vars, feedVars>>
             PROVE  FeedInv'
  OBVIOUS
<1>1. ASSUME [Next]_vars, UNCHANGED feedVars
      PROVE  FeedInv'
  <2>1. IInv /\ IInv'
    BY <1>1, InvStep DEF FeedInv
  <2>2. CommitKeysUnique' /\ IsFiniteSet(commits')
    BY <1>1, CommitsOfAStep DEF FeedInv
  <2>3. /\ commitSequence <= commitSequence'
        /\ \A e \in events' : e \in events \/ commitSequence < e.sequence
    BY <1>1, <2>1, EventsOfAStep DEF IInv
  <2>4. cursor' = cursor /\ received' = received
    BY <1>1 DEF feedVars
  <2>5. /\ commitSequence \in Nat /\ commitSequence' \in Nat
        /\ cursor \in Nat /\ cursor <= commitSequence
    BY <2>1, StoreAssumption DEF FeedInv, IInv, TypeOK
  <2>6. cursor' \in 0..commitSequence'
    BY <2>3, <2>4, <2>5
  <2>7. \A e \in events' : e.sequence \in Nat
    BY <2>1, StoreAssumption DEF IInv, TypeOK, StoredEvent, Sequence
  <2>8. FeedMissesNothing'
    BY <2>3, <2>4, <2>5, <2>7 DEF FeedInv, FeedMissesNothing, ToSet
  <2> QED
    BY <2>1, <2>2, <2>4, <2>6, <2>8 DEF FeedInv, FeedInOrder
<1>2. CASE \E limit \in Limit : Poll(limit)
  BY <1>2, PollStep
<1> QED
  BY <1>1, <1>2 DEF FeedNext, feedVars

(* The invariant of the agent and the store it follows.                    *)
THEOREM FeedInvCorrect == FeedSpec => []FeedInv
<1> QED
  BY FeedInvInit, FeedInvStep, PTL DEF FeedSpec

(* An agent that pages through Events (lib.rs, repository_events) with the *)
(* sequence of the last event as since_sequence gets each event at most    *)
(* once, in sequence order.                                                *)
THEOREM FeedInOrderCorrect == FeedSpec => []FeedInOrder
<1>1. FeedInv => FeedInOrder
  BY DEF FeedInv
<1> QED
  BY <1>1, FeedInvCorrect, PTL

(* No event that is retained is missed: next_event_sequence is past every  *)
(* cursor an agent can hold, and truncate cuts a page at its end only.     *)
THEOREM FeedMissesNothingCorrect == FeedSpec => []FeedMissesNothing
<1>1. FeedInv => FeedMissesNothing
  BY DEF FeedInv
<1> QED
  BY <1>1, FeedInvCorrect, PTL

----------------------------------------------------------------------------
(* The agent implements the abstract feed.                                 *)

LEMMA ElementsOfConcat ==
  ASSUME NEW S, NEW s \in Seq(S), NEW t \in Seq(S)
  PROVE  ToSet(s \o t) = ToSet(s) \cup ToSet(t)
<1> DEFINE u == s \o t
           n == Len(s)
           m == Len(t)
<1>1. /\ n \in Nat /\ m \in Nat
      /\ DOMAIN s = 1..n /\ DOMAIN t = 1..m /\ DOMAIN u = 1..(n + m)
      /\ \A i \in 1..n : u[i] = s[i]
      /\ \A i \in (n + 1)..(n + m) : u[i] = t[i - n]
  OBVIOUS
<1> HIDE DEF u, n, m
<1>2. ASSUME NEW i \in DOMAIN u
      PROVE  u[i] \in ToSet(s) \cup ToSet(t)
  <2>1. i \in 1..n \/ (i \in (n + 1)..(n + m) /\ i - n \in 1..m)
    BY <1>1
  <2> QED
    BY <2>1, <1>1 DEF ToSet
<1>3. ASSUME NEW i \in DOMAIN s
      PROVE  s[i] \in ToSet(u)
  <2>1. i \in 1..n /\ i \in 1..(n + m)
    BY <1>1
  <2> QED
    BY <2>1, <1>1 DEF ToSet
<1>4. ASSUME NEW i \in DOMAIN t
      PROVE  t[i] \in ToSet(u)
  <2>1. n + i \in 1..(n + m) /\ n + i \in (n + 1)..(n + m)
        /\ (n + i) - n = i
    BY <1>1
  <2>2. u[n + i] = t[i]
    BY <2>1, <1>1
  <2> QED
    BY <2>1, <2>2, <1>1 DEF ToSet
<1>5. ToSet(u) = ToSet(s) \cup ToSet(t)
  BY <1>2, <1>3, <1>4 DEF ToSet
<1> QED
  BY <1>5 DEF u

LEMMA FeedRefinesInit == FeedInit => Feed!PagesInit
<1> SUFFICES ASSUME FeedInit
             PROVE  Feed!PagesInit
  OBVIOUS
<1>1. Init /\ cursor = 0 /\ received = <<>>
  BY DEF FeedInit
<1>2. Feed!LedgerInit
  BY <1>1 DEF Init, Feed!LedgerInit
<1>3. ToSet(received) = {}
  BY <1>1 DEF ToSet
<1> QED
  BY <1>1, <1>2, <1>3 DEF Feed!PagesInit

(* A page of Events is a page of the feed: its last event is new, and it   *)
(* shows every new event up to that one and nothing else.                  *)
LEMMA PollRefines ==
  ASSUME FeedInv, NEW limit \in Limit, Poll(limit)
  PROVE  \E last \in Feed!New : Feed!PageUpTo(last)
<1>1. PICK page \in Seq(events), last \in events :
        /\ page # <<>>
        /\ last = page[Len(page)]
        /\ received' = received \o page
        /\ cursor' = last.sequence
        /\ cursor < last.sequence
        /\ \A i \in 1..Len(page) : /\ cursor < page[i].sequence
                                   /\ page[i].sequence <= last.sequence
        /\ \A i, j \in 1..Len(page) :
             i < j => page[i].sequence < page[j].sequence
        /\ \A e \in events :
             cursor < e.sequence /\ e.sequence <= last.sequence =>
               \E i \in 1..Len(page) : page[i] = e
  BY PollPage
<1>2. UNCHANGED <<recorded, events>>
  BY DEF Poll, vars, tables
<1>3. last \in Feed!New
  BY <1>1 DEF Feed!New
<1> DEFINE Shown == {e \in Feed!New : e.sequence <= last.sequence}
<1>4. Shown = ToSet(page)
  <2>1. ASSUME NEW e \in Shown
        PROVE  e \in ToSet(page)
    BY <1>1 DEF Feed!New, ToSet
  <2>2. ASSUME NEW i \in 1..Len(page)
        PROVE  page[i] \in Shown
    BY <1>1 DEF Feed!New
  <2>3. ToSet(page) = {page[i] : i \in 1..Len(page)}
    BY DEF ToSet
  <2> QED
    BY <2>1, <2>2, <2>3
<1>5. ToSet(received') = ToSet(received) \cup ToSet(page)
  <2>1. received \in Seq(StoredEvent) /\ page \in Seq(StoredEvent)
    BY DEF FeedInv, IInv, TypeOK
  <2> QED
    BY <2>1, <1>1, ElementsOfConcat
<1>6. Feed!PageUpTo(last)
  BY <1>1, <1>2, <1>4, <1>5 DEF Feed!PageUpTo, Feed!ledgerVars, ToSet
<1> QED
  BY <1>3, <1>6

LEMMA FeedRefinesStep ==
  FeedInv /\ [FeedNext]_<<vars, feedVars>>
    => [Feed!PagesNext]_<<Feed!ledgerVars, Feed!pageVars>>
<1> SUFFICES ASSUME FeedInv, [FeedNext]_<<vars, feedVars>>
             PROVE  [Feed!PagesNext]_<<Feed!ledgerVars, Feed!pageVars>>
  OBVIOUS
<1>1. ASSUME [Next]_vars, UNCHANGED feedVars
      PROVE  [Feed!PagesNext]_<<Feed!ledgerVars, Feed!pageVars>>
  <2>1. [Ledger!LedgerNext]_Ledger!ledgerVars
    BY <1>1, RefinementStep DEF FeedInv
  <2>2. UNCHANGED Feed!pageVars
    BY <1>1 DEF feedVars, Feed!pageVars, ToSet
  <2>3. /\ Ledger!LedgerNext <=> Feed!LedgerNext
        /\ Ledger!ledgerVars = Feed!ledgerVars
        /\ Ledger!ledgerVars' = Feed!ledgerVars'
    BY DEF Ledger!LedgerNext, Ledger!Record, Ledger!Forget,
           Ledger!ledgerVars, Feed!LedgerNext, Feed!Record, Feed!Forget,
           Feed!ledgerVars
  <2> QED
    BY <2>1, <2>2, <2>3 DEF Feed!PagesNext
<1>2. CASE \E limit \in Limit : Poll(limit)
  BY <1>2, PollRefines DEF Feed!PagesNext
<1> QED
  BY <1>1, <1>2 DEF FeedNext, feedVars

(* Paging with since_sequence and a limit over a store that records,       *)
(* fails, restarts and compacts is the feed of EventFeed.                  *)
THEOREM QueriesImplementFeed == FeedSpec => FeedRefinement
<1> QED
  BY FeedRefinesInit, FeedRefinesStep, FeedInvCorrect, PTL
  DEF FeedSpec, FeedRefinement, Feed!PagesSpec

----------------------------------------------------------------------------
(* Keys of several components.                                             *)

(* The first component decides before the others.                          *)
LEMMA PrecedesByFirst ==
  ASSUME NEW n \in Nat, n # 0, NEW a \in Keys(n), NEW b \in Keys(n),
         Precedes(a, b)
  PROVE  a[1] <= b[1]
<1>1. PICK i \in 1..n : a[i] < b[i] /\ \A j \in 1..(i - 1) : a[j] = b[j]
  BY DEF Precedes, Keys
<1>2. a[1] \in Int /\ b[1] \in Int
  BY DEF Keys
<1>3. CASE i = 1
  BY <1>1, <1>2, <1>3
<1>4. CASE i # 1
  <2>1. 1 \in 1..(i - 1)
    BY <1>4
  <2> QED
    BY <2>1, <1>1, <1>2
<1> QED
  BY <1>3, <1>4

LEMMA KeyOfThree ==
  ASSUME NEW a \in Int, NEW b \in Int, NEW c \in Int
  PROVE  <<a, b, c>> \in Keys(3)
BY DEF Keys

LEMMA KeyOfFour ==
  ASSUME NEW a \in Int, NEW b \in Int, NEW c \in Int, NEW d \in Int
  PROVE  <<a, b, c, d>> \in Keys(4)
BY DEF Keys

LEMMA KeyOfFive ==
  ASSUME NEW a \in Int, NEW b \in Int, NEW c \in Int, NEW d \in Int,
         NEW e \in Int
  PROVE  <<a, b, c, d, e>> \in Keys(5)
BY DEF Keys

----------------------------------------------------------------------------
(* The commit queries.                                                     *)

(* What the fields of a stored commit are.                                 *)
LEMMA CommitFields ==
  ASSUME TypeOK, NEW c \in commits
  PROVE  /\ c.sequence \in Nat /\ c.receivedAt \in Nat
         /\ c.commit \in CommitObservation
         /\ c.commit.object \in Nat /\ c.commit.ref \in Nat
         /\ c.commit.files \subseteq Nat /\ IsFiniteSet(c.commit.files)
         /\ c.repository \in Nat
<1>1. c \in StoredCommit
  BY DEF TypeOK
<1>2. /\ c.sequence \in Nat /\ c.receivedAt \in Nat
      /\ c.commit \in CommitObservation /\ c.repository \in Repository
  <2>1. /\ c.sequence \in 1..MaxSequence /\ c.receivedAt \in Timestamp
        /\ c.commit \in CommitObservation /\ c.repository \in Repository
    BY <1>1 DEF StoredCommit, Sequence
  <2>2. 1..MaxSequence \subseteq Nat /\ Timestamp \subseteq Nat
    BY StoreAssumption
  <2> QED
    BY <2>1, <2>2
<1> QED
  BY <1>2, QueriesAssumption

(* The order of commit_messages tells all commit rows apart.               *)
LEMMA CommitOrderIsKey ==
  ASSUME FeedInv, NEW S \in SUBSET commits
  PROVE  /\ IsFiniteSet(S)
         /\ [c \in S |-> CommitOrder(c)] \in [S -> Keys(4)]
         /\ \A c, d \in S :
              [e \in S |-> CommitOrder(e)][c] = [e \in S |-> CommitOrder(e)][d]
                => c = d
<1>1. IsFiniteSet(S)
  BY FS_Subset DEF FeedInv
<1>2. TypeOK
  BY DEF FeedInv, IInv
<1>3. ASSUME NEW c \in S
      PROVE  CommitOrder(c) \in Keys(4)
  <2>1. /\ -c.receivedAt \in Int /\ -c.sequence \in Int
        /\ c.commit.object \in Int /\ c.commit.ref \in Int
    BY <1>2, CommitFields
  <2> QED
    BY <2>1, KeyOfFour DEF CommitOrder
<1>4. ASSUME NEW c \in S, NEW d \in S, CommitOrder(c) = CommitOrder(d)
      PROVE  c = d
  <2>1. /\ -c.sequence = -d.sequence
        /\ c.commit.object = d.commit.object /\ c.commit.ref = d.commit.ref
    BY <1>4 DEF CommitOrder
  <2>2. c.sequence \in Nat /\ d.sequence \in Nat
    BY <1>2, CommitFields
  <2>3. c.sequence = d.sequence
    BY <2>1, <2>2
  <2> QED
    BY <2>1, <2>3 DEF FeedInv, CommitKeysUnique, CommitKey
<1> QED
  BY <1>1, <1>3, <1>4

(* With a limit that cuts nothing short, commit_messages shows the rows    *)
(* that pass its filters.                                                  *)
LEMMA ShownCommits ==
  ASSUME FeedInv, NEW repository, NEW since, NEW until, NEW search,
         NEW limit \in Nat, Cardinality(commits) <= limit
  PROVE  ToSet(CommitMessages(repository, since, until, search, limit))
           = CommitRows(repository, since, until, search)
<1> DEFINE S == CommitRows(repository, since, until, search)
           key == [c \in S |-> CommitOrder(c)]
<1>1. S \in SUBSET commits
  BY DEF CommitRows
<1>2. CommitMessages(repository, since, until, search, limit)
        = Listing(key, limit)
  BY DEF CommitMessages, Listing
<1> HIDE DEF S
<1>3. /\ IsFiniteSet(S) /\ key \in [S -> Keys(4)]
      /\ \A c, d \in S : key[c] = key[d] => c = d
  BY <1>1, CommitOrderIsKey
<1>4. Cardinality(S) <= limit
  <2>1. IsFiniteSet(commits)
    BY DEF FeedInv
  <2>2. Cardinality(S) <= Cardinality(commits)
    BY <1>1, <2>1, FS_Subset
  <2>3. Cardinality(S) \in Nat /\ Cardinality(commits) \in Nat
    BY <1>3, <2>1, FS_CardinalityType
  <2> QED
    BY <2>2, <2>3
<1> HIDE DEF key
<1> QED
  BY <1>2, <1>3, <1>4, ListingIsAll DEF S

----------------------------------------------------------------------------
(* The changed files.                                                      *)

LEMMA FileRowsIs ==
  ASSUME NEW repository, NEW since, NEW until, NEW search, NEW f
  PROVE  f \in FileRows(repository, since, until, search)
           <=> \E c \in commits :
                 /\ InWindow(c, repository, since, until)
                 /\ \E p \in c.commit.files :
                      /\ \A t \in search : <<p, t>> \in Found
                      /\ f = ChangedFile(c, p)
BY DEF FileRows

LEMMA FoundFilesIs ==
  ASSUME NEW rows, NEW search, NEW f
  PROVE  f \in FoundFiles(rows, search)
           <=> \E c \in rows : \E p \in c.commit.files :
                 <<p, search>> \in Found /\ f = ChangedFile(c, p)
BY DEF FoundFiles

(* The image of a finite set under a function is finite.                   *)
LEMMA FiniteImage ==
  ASSUME NEW S, IsFiniteSet(S), NEW f, f = [x \in S |-> f[x]]
  PROVE  /\ IsFiniteSet({f[x] : x \in S})
         /\ Cardinality({f[x] : x \in S}) <= Cardinality(S)
<1> DEFINE T == {f[x] : x \in S}
<1>1. f \in Surjection(S, T)
  BY DEF Surjection
<1> QED
  BY <1>1, FS_Surjection

LEMMA FilesFinite ==
  ASSUME FeedInv, NEW repository, NEW since, NEW until, NEW search
  PROVE  IsFiniteSet(FileRows(repository, since, until, search))
<1> DEFINE C == {c \in commits : InWindow(c, repository, since, until)}
           P(c) == {p \in c.commit.files :
                      \A t \in search : <<p, t>> \in Found}
           F(c) == {ChangedFile(c, p) : p \in P(c)}
           G == {F(c) : c \in C}
<1>1. TypeOK /\ IsFiniteSet(commits)
  BY DEF FeedInv, IInv
<1>2. ASSUME NEW c \in C
      PROVE  IsFiniteSet(F(c))
  <2>1. IsFiniteSet(c.commit.files)
    BY <1>1, CommitFields
  <2>2. P(c) \in SUBSET c.commit.files
    OBVIOUS
  <2>3. IsFiniteSet(P(c))
    BY <2>1, <2>2, FS_Subset
  <2> DEFINE g == [p \in P(c) |-> ChangedFile(c, p)]
  <2>4. g = [p \in P(c) |-> g[p]] /\ F(c) = {g[p] : p \in P(c)}
    OBVIOUS
  <2> HIDE DEF g, P
  <2> QED
    BY <2>3, <2>4, FiniteImage
<1>3. IsFiniteSet(G)
  <2>1. IsFiniteSet(C)
    BY <1>1, FS_Subset
  <2> DEFINE g == [c \in C |-> F(c)]
  <2> HIDE DEF F, C
  <2>2. g = [c \in C |-> g[c]] /\ G = {g[c] : c \in C}
    OBVIOUS
  <2> HIDE DEF g
  <2> QED
    BY <2>1, <2>2, FiniteImage
<1>4. FileRows(repository, since, until, search) = UNION G
  BY DEF FileRows
<1>5. \A T \in G : IsFiniteSet(T)
  <2> HIDE DEF F, C
  <2> QED
    BY <1>2
<1> HIDE DEF G
<1> QED
  BY <1>3, <1>4, <1>5, FS_UNION

(* The order of changed_files tells all files of all commits apart.        *)
LEMMA FileOrderIsKey ==
  ASSUME FeedInv, NEW repository, NEW since, NEW until, NEW search,
         NEW S, S = FileRows(repository, since, until, search)
  PROVE  /\ [f \in S |-> FileOrder(f)] \in [S -> Keys(5)]
         /\ \A f, g \in S :
              [h \in S |-> FileOrder(h)][f] = [h \in S |-> FileOrder(h)][g]
                => f = g
<1>1. TypeOK
  BY DEF FeedInv, IInv
<1>2. \A f \in S : \E c \in commits :
        \E p \in c.commit.files : f = ChangedFile(c, p)
  BY FileRowsIs
<1>3. ASSUME NEW f \in S
      PROVE  FileOrder(f) \in Keys(5)
  <2>1. PICK c \in commits : \E p \in c.commit.files : f = ChangedFile(c, p)
    BY <1>2
  <2>2. PICK p \in c.commit.files : f = ChangedFile(c, p)
    BY <2>1
  <2>3. /\ -c.receivedAt \in Int /\ -c.sequence \in Int /\ p \in Int
        /\ c.commit.object \in Int /\ c.commit.ref \in Int
    BY <1>1, <2>2, CommitFields
  <2>4. FileOrder(f) = <<-c.receivedAt, -c.sequence, p, c.commit.object,
                         c.commit.ref>>
    BY <2>2 DEF FileOrder, ChangedFile
  <2>5. <<-c.receivedAt, -c.sequence, p, c.commit.object, c.commit.ref>>
          \in Keys(5)
    BY <2>3, KeyOfFive
  <2> QED
    BY <2>4, <2>5
<1>4. ASSUME NEW f \in S, NEW g \in S, FileOrder(f) = FileOrder(g)
      PROVE  f = g
  <2>1. PICK c \in commits : \E p \in c.commit.files : f = ChangedFile(c, p)
    BY <1>2
  <2>2. PICK p \in c.commit.files : f = ChangedFile(c, p)
    BY <2>1
  <2>3. PICK d \in commits : \E q \in d.commit.files : g = ChangedFile(d, q)
    BY <1>2
  <2>4. PICK q \in d.commit.files : g = ChangedFile(d, q)
    BY <2>3
  <2>5. /\ -c.sequence = -d.sequence /\ p = q
        /\ c.commit.object = d.commit.object /\ c.commit.ref = d.commit.ref
    BY <1>4, <2>2, <2>4 DEF FileOrder, ChangedFile
  <2>6. c.sequence \in Nat /\ d.sequence \in Nat
    BY <1>1, CommitFields
  <2>7. c.sequence = d.sequence
    BY <2>5, <2>6
  <2>8. c = d
    BY <2>5, <2>7 DEF FeedInv, CommitKeysUnique, CommitKey
  <2> QED
    BY <2>2, <2>4, <2>5, <2>8
<1> QED
  BY <1>3, <1>4

(* With a limit that cuts nothing short, changed_files shows the rows that *)
(* pass its filters.                                                       *)
LEMMA ShownFiles ==
  ASSUME FeedInv, NEW repository, NEW since, NEW until, NEW search,
         NEW limit \in Nat, Cardinality(FileRows({}, {}, {}, {})) <= limit
  PROVE  ToSet(ChangedFiles(repository, since, until, search, limit))
           = FileRows(repository, since, until, search)
<1> DEFINE S == FileRows(repository, since, until, search)
           T == FileRows({}, {}, {}, {})
           key == [f \in S |-> FileOrder(f)]
<1>1. IsFiniteSet(S) /\ IsFiniteSet(T)
  BY FilesFinite
<1>2. S \in SUBSET T
  <2>1. \A c : InWindow(c, {}, {}, {})
    BY DEF InWindow
  <2>2. ASSUME NEW f \in S
        PROVE  f \in T
    <3>1. PICK c \in commits : \E p \in c.commit.files : f = ChangedFile(c, p)
      BY FileRowsIs
    <3> HIDE DEF S, T
    <3>2. f \in FileRows({}, {}, {}, {})
      BY <2>1, <3>1, FileRowsIs
    <3> QED
      BY <3>2 DEF T
  <2> QED
    BY <2>2
<1>3. ChangedFiles(repository, since, until, search, limit)
        = Listing(key, limit)
  BY DEF ChangedFiles, Listing
<1>4. /\ key \in [S -> Keys(5)]
      /\ \A f, g \in S : key[f] = key[g] => f = g
  BY FileOrderIsKey
<1>5. Cardinality(T) <= limit
  OBVIOUS
<1> HIDE DEF S, T
<1>6. Cardinality(S) <= limit
  <2>1. Cardinality(S) <= Cardinality(T)
    BY <1>1, <1>2, FS_Subset
  <2>2. Cardinality(S) \in Nat /\ Cardinality(T) \in Nat
    BY <1>1, FS_CardinalityType
  <2> QED
    BY <2>1, <2>2, <1>5
<1> HIDE DEF key
<1> QED
  BY <1>1, <1>3, <1>4, <1>6, ListingIsAll DEF S

----------------------------------------------------------------------------
(* The recent repositories.                                                *)

(* The fold of recent_repositories over the rows of one repository, which  *)
(* come in sequence order: the entry counts them and names the last one.   *)
LEMMA RecentEntryIs ==
  ASSUME NEW rows \in Seq(StoredEvent), rows # <<>>, NEW r,
         \A i \in 1..Len(rows) : rows[i].notification.repository = r,
         \A i, j \in 1..Len(rows) : i < j => rows[i].sequence < rows[j].sequence
  PROVE  RecentEntry(rows) =
           [repository       |-> r,
            latestReceivedAt |-> rows[Len(rows)].notification.receivedAt,
            latestSequence   |-> rows[Len(rows)].sequence,
            pushCount        |-> Len(rows)]
<1> DEFINE n == Len(rows)
           Upto(i) == [repository       |-> r,
                       latestReceivedAt |-> rows[i].notification.receivedAt,
                       latestSequence   |-> rows[i].sequence,
                       pushCount        |-> i]
           Fold(f) == [i \in 1..n |->
                         IF i = 1 THEN OpenEntry(rows[1])
                                  ELSE UpdateEntry(f[i - 1], rows[i])]
           entry == CHOOSE f : f = Fold(f)
<1>1. n \in Nat /\ n \in 1..n /\ DOMAIN rows = 1..n /\ 1 \in 1..n
  OBVIOUS
<1>2. \A i \in 1..n : /\ rows[i] \in StoredEvent
                      /\ rows[i].sequence \in Nat
  <2>1. \A i \in 1..n : rows[i] \in StoredEvent
    OBVIOUS
  <2> QED
    BY <2>1, StoreAssumption DEF StoredEvent, Sequence
<1>3. RecentEntry(rows) = entry[n]
  BY <1>1 DEF RecentEntry
<1>4. OpenEntry(rows[1]) = Upto(1)
  BY <1>1 DEF OpenEntry
<1>5. ASSUME NEW i \in 2..n
      PROVE  UpdateEntry(Upto(i - 1), rows[i]) = Upto(i)
  <2>1. i \in 1..n /\ i - 1 \in 1..n /\ i - 1 < i /\ (i - 1) + 1 = i
    BY <1>1
  <2>2. rows[i].sequence > rows[i - 1].sequence
    BY <2>1, <1>2
  <2> QED
    BY <2>1, <2>2 DEF UpdateEntry
<1> HIDE DEF n, Upto
<1>6. [i \in 1..n |-> Upto(i)] = Fold([i \in 1..n |-> Upto(i)])
  <2> SUFFICES ASSUME NEW i \in 1..n
               PROVE  Upto(i) =
                        IF i = 1
                        THEN OpenEntry(rows[1])
                        ELSE UpdateEntry([k \in 1..n |-> Upto(k)][i - 1],
                                         rows[i])
    OBVIOUS
  <2>1. CASE i = 1
    BY <2>1, <1>4
  <2>2. CASE i # 1
    <3>1. i \in 2..n /\ i - 1 \in 1..n
      BY <2>2, <1>1
    <3> QED
      BY <3>1, <2>2, <1>5
  <2> QED
    BY <2>1, <2>2
<1>7. entry = Fold(entry)
  <2> HIDE DEF Fold
  <2> QED
    BY <1>6
<1>8. \A i \in 1..n : entry[i] = Upto(i)
  <2> DEFINE Wrong == {i \in 1..n : entry[i] # Upto(i)}
  <2> SUFFICES ASSUME Wrong # {}
               PROVE  FALSE
    OBVIOUS
  <2>1. Wrong \in SUBSET Nat
    BY <1>1
  <2>2. PICK i \in Wrong : \A j \in Wrong : i <= j
    BY <2>1, LeastNatural
  <2> HIDE DEF entry
  <2>3. CASE i = 1
    BY <2>3, <1>7, <1>4, <1>1
  <2>4. CASE i # 1
    <3>1. i \in 2..n /\ i - 1 \in 1..n /\ ~(i <= i - 1)
      BY <2>4, <1>1
    <3>2. entry[i - 1] = Upto(i - 1)
      BY <3>1, <2>2
    <3>3. entry[i] = UpdateEntry(entry[i - 1], rows[i])
      BY <1>7, <2>4
    <3> QED
      BY <3>1, <3>2, <3>3, <1>5
  <2> QED
    BY <2>3, <2>4
<1> HIDE DEF entry
<1> QED
  BY <1>1, <1>3, <1>8 DEF n, Upto

(* All the rows S of events in sequence order.                             *)
LEMMA RowsInOrder ==
  ASSUME IInv, NEW S \in SUBSET events,
         NEW list, list = Sorted([e \in S |-> <<e.sequence>>])
  PROVE  /\ IsFiniteSet(S)
         /\ list \in Seq(S)
         /\ Len(list) = Cardinality(S)
         /\ \A i, j \in 1..Len(list) :
              i < j => list[i].sequence < list[j].sequence
         /\ \A limit \in Nat : Cardinality(S) <= limit =>
              Truncate(list, limit) = list
<1> DEFINE key == [e \in S |-> <<e.sequence>>]
<1>1. \A e \in S : e.sequence \in Int
  BY StoreAssumption DEF IInv, TypeOK, StoredEvent, Sequence
<1>2. IsFiniteSet(S)
  BY FS_Subset DEF IInv, EventsRecorded
<1>3. key \in [S -> Keys(1)]
  BY <1>1, KeyOfOne
<1>4. \A r, s \in S : key[r] = key[s] => r = s
  BY DEF IInv, EventsRecorded, SequencesNeverReused
<1>5. list = Sorted(key)
  OBVIOUS
<1>6. Cardinality(S) \in Nat
  BY <1>2, FS_CardinalityType
<1> HIDE DEF key
<1>7. ASSUME NEW limit \in Nat, Cardinality(S) <= limit
      PROVE  /\ Truncate(list, limit) = list
             /\ Len(list) = Cardinality(S)
  BY <1>2, <1>3, <1>4, <1>5, <1>7, ListingIsAll DEF Listing
<1>8. Len(list) = Cardinality(S) /\ list = Truncate(list, Cardinality(S))
  BY <1>6, <1>7
<1>9. /\ list \in Seq(S)
      /\ \A i, j \in 1..Len(list) :
           i < j => list[i].sequence < list[j].sequence
  BY <1>5, <1>6, <1>8, EventListingIs DEF key
<1> QED
  BY <1>2, <1>7, <1>8, <1>9

(* The rows of one repository and its entry.                               *)
RowsOf(since, r) ==
  {e \in RecentRows(since) : e.notification.repository = r}

EntryOf(since, r) ==
  RecentEntry(Sorted([e \in RowsOf(since, r) |-> <<e.sequence>>]))

LEMMA EntryIs ==
  ASSUME IInv, NEW since, NEW r, RowsOf(since, r) # {},
         NEW list, list = Sorted([e \in RowsOf(since, r) |-> <<e.sequence>>])
  PROVE  /\ list \in Seq(events) /\ Len(list) \in Nat
         /\ Len(list) \in 1..Len(list)
         /\ EntryOf(since, r) =
              [repository       |-> r,
               latestReceivedAt |-> list[Len(list)].notification.receivedAt,
               latestSequence   |-> list[Len(list)].sequence,
               pushCount        |-> Len(list)]
<1> DEFINE S == RowsOf(since, r)
<1>1. S \in SUBSET events /\ \A e \in S : e.notification.repository = r
  BY DEF RowsOf, RecentRows
<1> HIDE DEF S
<1>2. /\ IsFiniteSet(S)
      /\ list \in Seq(S)
      /\ Len(list) = Cardinality(S)
      /\ \A i, j \in 1..Len(list) :
           i < j => list[i].sequence < list[j].sequence
  BY <1>1, RowsInOrder DEF S
<1>3. Cardinality(S) \in Nat /\ Cardinality(S) # 0
  BY <1>2, FS_CardinalityType, FS_EmptySet DEF S
<1>4. events \subseteq StoredEvent
  BY DEF IInv, TypeOK
<1>5. list \in Seq(StoredEvent) /\ list \in Seq(events) /\ list # <<>>
  BY <1>1, <1>2, <1>3, <1>4
<1>6. \A i \in 1..Len(list) : list[i].notification.repository = r
  BY <1>1, <1>2
<1>7. RecentEntry(list) =
        [repository       |-> r,
         latestReceivedAt |-> list[Len(list)].notification.receivedAt,
         latestSequence   |-> list[Len(list)].sequence,
         pushCount        |-> Len(list)]
  BY <1>2, <1>5, <1>6, RecentEntryIs
<1>8. EntryOf(since, r) = RecentEntry(list)
  BY DEF EntryOf
<1>9. Len(list) \in Nat /\ Len(list) \in 1..Len(list)
  BY <1>2, <1>3
<1> QED
  BY <1>5, <1>7, <1>8, <1>9

(* The entries: one for each repository with a row.                        *)
LEMMA EntriesAre ==
  ASSUME IInv, NEW since
  PROVE  /\ RecentEntries(since) =
              {EntryOf(since, r) :
                 r \in {e.notification.repository : e \in RecentRows(since)}}
         /\ \A r : RowsOf(since, r) # {} <=>
              r \in {e.notification.repository : e \in RecentRows(since)}
         /\ \A r : RowsOf(since, r) # {} =>
              EntryOf(since, r).repository = r
<1>1. RecentEntries(since) =
        {EntryOf(since, r) :
           r \in {e.notification.repository : e \in RecentRows(since)}}
  BY DEF RecentEntries, EntryOf, RowsOf
<1>2. \A r : RowsOf(since, r) # {} <=>
        r \in {e.notification.repository : e \in RecentRows(since)}
  BY DEF RowsOf
<1>3. ASSUME NEW r, RowsOf(since, r) # {}
      PROVE  EntryOf(since, r).repository = r
  <2> DEFINE list == Sorted([e \in RowsOf(since, r) |-> <<e.sequence>>])
  <2>1. EntryOf(since, r) =
          [repository       |-> r,
           latestReceivedAt |-> list[Len(list)].notification.receivedAt,
           latestSequence   |-> list[Len(list)].sequence,
           pushCount        |-> Len(list)]
    BY <1>3, EntryIs
  <2> QED
    BY <2>1
<1> QED
  BY <1>1, <1>2, <1>3

(* With a limit that cuts nothing short, recent_repositories shows every   *)
(* entry.                                                                  *)
LEMMA ShownRecent ==
  ASSUME IInv, NEW since, NEW limit \in Nat, Cardinality(events) <= limit
  PROVE  ToSet(RecentRepositories(since, limit)) = RecentEntries(since)
<1> DEFINE rows == RecentRows(since)
           names == {e.notification.repository : e \in rows}
           S == RecentEntries(since)
           key == [entry \in S |-> <<-entry.latestReceivedAt,
                                     -entry.latestSequence,
                                     entry.repository>>]
<1>1. IsFiniteSet(events) /\ IsFiniteSet(rows) /\ Cardinality(rows) <= limit
  <2>1. IsFiniteSet(events) /\ rows \in SUBSET events
    BY DEF IInv, EventsRecorded, RecentRows
  <2> HIDE DEF rows
  <2>2. IsFiniteSet(rows) /\ Cardinality(rows) <= Cardinality(events)
    BY <2>1, FS_Subset
  <2>3. Cardinality(rows) \in Nat /\ Cardinality(events) \in Nat
    BY <2>1, <2>2, FS_CardinalityType
  <2> QED
    BY <2>1, <2>2, <2>3
<1>2. IsFiniteSet(names) /\ Cardinality(names) <= limit
  <2> DEFINE f == [e \in rows |-> e.notification.repository]
  <2> HIDE DEF rows
  <2>1. f = [e \in rows |-> f[e]] /\ names = {f[e] : e \in rows}
    OBVIOUS
  <2> HIDE DEF f, names
  <2>2. IsFiniteSet(names) /\ Cardinality(names) <= Cardinality(rows)
    BY <1>1, <2>1, FiniteImage
  <2>3. Cardinality(rows) \in Nat /\ Cardinality(names) \in Nat
    BY <1>1, <2>2, FS_CardinalityType
  <2> QED
    BY <1>1, <2>2, <2>3
<1>3. S = {EntryOf(since, r) : r \in names}
  BY EntriesAre
<1>4. \A r \in names : RowsOf(since, r) # {} /\ EntryOf(since, r).repository = r
  BY EntriesAre
<1> HIDE DEF rows, names, S
<1>5. IsFiniteSet(S) /\ Cardinality(S) <= limit
  <2> DEFINE f == [r \in names |-> EntryOf(since, r)]
  <2>1. f = [r \in names |-> f[r]] /\ S = {f[r] : r \in names}
    BY <1>3
  <2> HIDE DEF f
  <2>2. IsFiniteSet(S) /\ Cardinality(S) <= Cardinality(names)
    BY <1>2, <2>1, FiniteImage
  <2>3. Cardinality(S) \in Nat /\ Cardinality(names) \in Nat
    BY <1>2, <2>2, FS_CardinalityType
  <2> QED
    BY <1>2, <2>2, <2>3
<1>6. ASSUME NEW entry \in S
      PROVE  <<-entry.latestReceivedAt, -entry.latestSequence,
               entry.repository>> \in Keys(3)
  <2>1. PICK r \in names : entry = EntryOf(since, r)
    BY <1>3
  <2> DEFINE list == Sorted([e \in RowsOf(since, r) |-> <<e.sequence>>])
  <2>2. /\ list \in Seq(events) /\ Len(list) \in 1..Len(list)
        /\ entry =
             [repository       |-> r,
              latestReceivedAt |-> list[Len(list)].notification.receivedAt,
              latestSequence   |-> list[Len(list)].sequence,
              pushCount        |-> Len(list)]
    BY <1>4, <2>1, EntryIs
  <2> HIDE DEF list
  <2>3. list[Len(list)] \in StoredEvent
    BY <2>2 DEF IInv, TypeOK
  <2>4. /\ entry.latestReceivedAt \in Timestamp
        /\ entry.latestSequence \in 1..MaxSequence
    BY <2>2, <2>3 DEF StoredEvent, Notification, Sequence
  <2>5. r \in Repository
    <3>1. PICK e \in events : e.notification.repository = r
      BY <2>1, <1>4 DEF RowsOf, RecentRows
    <3> QED
      BY <3>1 DEF IInv, TypeOK, StoredEvent, Notification
  <2>6. entry.repository = r
    BY <2>2
  <2>7. Timestamp \subseteq Nat /\ 1..MaxSequence \subseteq Nat
        /\ Repository \subseteq Nat
    BY StoreAssumption, QueriesAssumption
  <2>8. /\ entry.latestReceivedAt \in Nat /\ entry.latestSequence \in Nat
        /\ entry.repository \in Nat
    BY <2>4, <2>5, <2>6, <2>7
  <2>9. /\ -entry.latestReceivedAt \in Int /\ -entry.latestSequence \in Int
        /\ entry.repository \in Int
    BY <2>8
  <2> QED
    BY <2>9, KeyOfThree
<1>7. ASSUME NEW e \in S, NEW f \in S, key[e] = key[f]
      PROVE  e = f
  <2>1. PICK r \in names : e = EntryOf(since, r)
    BY <1>3
  <2>2. PICK q \in names : f = EntryOf(since, q)
    BY <1>3
  <2>3. e.repository = f.repository
    BY <1>7
  <2>4. r = q
    BY <2>1, <2>2, <2>3, <1>4
  <2> QED
    BY <2>1, <2>2, <2>4
<1>8. key \in [S -> Keys(3)]
  BY <1>6
<1>9. RecentRepositories(since, limit) = Listing(key, limit)
  BY DEF RecentRepositories, Listing, S
<1> HIDE DEF key
<1> QED
  BY <1>5, <1>7, <1>8, <1>9, ListingIsAll DEF S

----------------------------------------------------------------------------
(* What the queries tell.                                                  *)

(* The limit All cuts no listing short.                                    *)
LEMMA AllIsEnough ==
  ASSUME FeedInv
  PROVE  /\ All \in Nat
         /\ Cardinality(events) <= All
         /\ Cardinality(commits) <= All
         /\ Cardinality(FileRows({}, {}, {}, {})) <= All
<1>1. /\ IsFiniteSet(events) /\ IsFiniteSet(commits)
      /\ IsFiniteSet(FileRows({}, {}, {}, {}))
  BY FilesFinite DEF FeedInv, IInv, EventsRecorded
<1>2. /\ Cardinality(events) \in Nat /\ Cardinality(commits) \in Nat
      /\ Cardinality(FileRows({}, {}, {}, {})) \in Nat
  BY <1>1, FS_CardinalityType
<1> QED
  BY <1>2 DEF All

(* Two windows that meet at a timestamp show every commit between them     *)
(* (commit_matches_common_filters includes both of its bounds).            *)
THEOREM WindowsCoverCorrect == FeedSpec => []WindowsCover
<1>1. FeedInv => WindowsCover
  <2> SUFFICES ASSUME FeedInv, NEW t \in Timestamp
               PROVE  LET before == ToSet(CommitMessages({}, {}, {t}, {}, All))
                          after == ToSet(CommitMessages({}, {t}, {}, {}, All))
                      IN  /\ before \cup after = commits
                          /\ before \cap after =
                               {c \in commits : c.receivedAt = t}
    BY DEF WindowsCover
  <2> DEFINE before == CommitRows({}, {}, {t}, {})
             after == CommitRows({}, {t}, {}, {})
  <2>1. /\ ToSet(CommitMessages({}, {}, {t}, {}, All)) = before
        /\ ToSet(CommitMessages({}, {t}, {}, {}, All)) = after
    BY AllIsEnough, ShownCommits
  <2>2. /\ before = {c \in commits : ~(c.receivedAt > t)}
        /\ after = {c \in commits : ~(c.receivedAt < t)}
    BY DEF CommitRows, InWindow
  <2>3. t \in Nat /\ \A c \in commits : c.receivedAt \in Nat
    BY StoreAssumption, CommitFields DEF FeedInv, IInv
  <2> HIDE DEF before, after
  <2>4. before \cup after = commits
    BY <2>2, <2>3
  <2>5. before \cap after = {c \in commits : c.receivedAt = t}
    BY <2>2, <2>3
  <2> QED
    BY <2>1, <2>4, <2>5
<1> QED
  BY <1>1, FeedInvCorrect, PTL

(* The limit of commit_messages keeps the newest rows.                     *)
THEOREM LimitKeepsNewestCorrect == FeedSpec => []LimitKeepsNewest
<1>1. FeedInv => LimitKeepsNewest
  <2> SUFFICES ASSUME FeedInv, NEW limit \in Limit,
                      NEW c \in ToSet(CommitMessages({}, {}, {}, {}, limit)),
                      NEW d \in commits,
                      d \notin ToSet(CommitMessages({}, {}, {}, {}, limit))
               PROVE  d.receivedAt <= c.receivedAt
    BY DEF LimitKeepsNewest
  <2> DEFINE S == CommitRows({}, {}, {}, {})
             key == [e \in S |-> CommitOrder(e)]
             page == Listing(key, limit)
  <2>1. S = commits
    BY DEF CommitRows, InWindow
  <2>2. CommitMessages({}, {}, {}, {}, limit) = page
    BY DEF CommitMessages, Listing
  <2>3. limit \in Nat
    BY QueriesAssumption
  <2> HIDE DEF S
  <2>4. /\ IsFiniteSet(S) /\ key \in [S -> Keys(4)]
        /\ \A e, f \in S : key[e] = key[f] => e = f
    BY <2>1, CommitOrderIsKey
  <2>5. \A e \in S : key[e] = CommitOrder(e)
    OBVIOUS
  <2> HIDE DEF key
  <2>6. /\ page \in Seq(S)
        /\ \A s \in S : \/ \E i \in 1..Len(page) : page[i] = s
                        \/ \A i \in 1..Len(page) :
                              Precedes(key[page[i]], key[s])
    BY <2>3, <2>4, ListingIsPrefix
  <2> HIDE DEF page
  <2>7. PICK i \in 1..Len(page) : page[i] = c
    BY <2>2, <2>6 DEF ToSet
  <2>8. Precedes(key[c], key[d])
    BY <2>1, <2>2, <2>6, <2>7 DEF ToSet
  <2>9. c \in S /\ d \in S
    BY <2>1, <2>6, <2>7
  <2>10. key[c][1] <= key[d][1]
    BY <2>4, <2>8, <2>9, PrecedesByFirst
  <2>11. key[c][1] = -c.receivedAt /\ key[d][1] = -d.receivedAt
    BY <2>5, <2>9 DEF CommitOrder
  <2>12. c.receivedAt \in Nat /\ d.receivedAt \in Nat
    BY <2>1, <2>9, CommitFields DEF FeedInv, IInv
  <2> QED
    BY <2>10, <2>11, <2>12
<1> QED
  BY <1>1, FeedInvCorrect, PTL

(* changed_files shows the searched paths of the commits that              *)
(* commit_messages shows for the same repository and window.               *)
THEOREM FilesOfShownCommitsCorrect == FeedSpec => []FilesOfShownCommits
<1>1. FeedInv => FilesOfShownCommits
  <2> SUFFICES ASSUME FeedInv, NEW r \in Repository, NEW s \in Timestamp,
                      NEW t \in Search
               PROVE  SameFilesShown(r, s, t)
    BY DEF FilesOfShownCommits
  <2> DEFINE rows == CommitRows({r}, {s}, {}, {})
  <2>1. ToSet(ChangedFiles({r}, {s}, {}, {t}, All))
          = FileRows({r}, {s}, {}, {t})
    BY AllIsEnough, ShownFiles
  <2>2. ToSet(CommitMessages({r}, {s}, {}, {}, All)) = rows
    BY AllIsEnough, ShownCommits
  <2>3. \A c : c \in rows <=> c \in commits /\ InWindow(c, {r}, {s}, {})
    BY DEF CommitRows
  <2> HIDE DEF rows
  <2>4. ASSUME NEW f
        PROVE  f \in FileRows({r}, {s}, {}, {t}) <=> f \in FoundFiles(rows, t)
    <3> DEFINE R == {r}
               T == {t}
               A == {s}
               B == {}
    <3> HIDE DEF R, T, A, B
    <3>1. f \in FileRows(R, A, B, T)
            <=> \E c \in commits :
                  /\ InWindow(c, R, A, B)
                  /\ \E p \in c.commit.files :
                       /\ \A u \in T : <<p, u>> \in Found
                       /\ f = ChangedFile(c, p)
      BY FileRowsIs
    <3>2. f \in FoundFiles(rows, t)
            <=> \E c \in rows : \E p \in c.commit.files :
                  <<p, t>> \in Found /\ f = ChangedFile(c, p)
      BY FoundFilesIs
    <3> QED
      BY <2>3, <3>1, <3>2 DEF R, T, A, B
  <2>5. FileRows({r}, {s}, {}, {t}) = FoundFiles(rows, t)
    BY <2>4
  <2> QED
    BY <2>1, <2>2, <2>5 DEF SameFilesShown
<1> QED
  BY <1>1, FeedInvCorrect, PTL

(* A repository whose commits or files are shown for a window is one that  *)
(* recent_repositories shows for it: each commit row has its event.        *)
THEOREM CommitsOfRecentRepositoriesCorrect ==
  FeedSpec => []CommitsOfRecentRepositories
<1>1. FeedInv => CommitsOfRecentRepositories
  <2> SUFFICES ASSUME FeedInv, NEW s \in Timestamp
               PROVE  LET recent == {entry.repository :
                            entry \in ToSet(RecentRepositories({s}, All))}
                      IN  /\ \A c \in ToSet(CommitMessages({}, {s}, {}, {},
                                                           All)) :
                                c.repository \in recent
                          /\ \A f \in ToSet(ChangedFiles({}, {s}, {}, {},
                                                         All)) :
                                f.repository \in recent
    BY DEF CommitsOfRecentRepositories
  <2>1. /\ ToSet(RecentRepositories({s}, All)) = RecentEntries({s})
        /\ ToSet(CommitMessages({}, {s}, {}, {}, All))
             = CommitRows({}, {s}, {}, {})
        /\ ToSet(ChangedFiles({}, {s}, {}, {}, All))
             = FileRows({}, {s}, {}, {})
    BY AllIsEnough, ShownRecent, ShownCommits, ShownFiles DEF FeedInv
  <2>2. ASSUME NEW c \in commits, InWindow(c, {}, {s}, {})
        PROVE  \E entry \in RecentEntries({s}) : entry.repository = c.repository
    <3>1. PICK e \in events : c = CommitRow(e, c.commit)
      BY DEF FeedInv, IInv, CommitsHaveTheirEvent
    <3>2. /\ c.repository = e.notification.repository
          /\ c.receivedAt = e.notification.receivedAt
      BY <3>1 DEF CommitRow
    <3>3. e \in RowsOf({s}, c.repository)
      BY <2>2, <3>2 DEF RowsOf, RecentRows, InWindow
    <3> QED
      BY <3>3, EntriesAre DEF FeedInv
  <2>3. \A c \in CommitRows({}, {s}, {}, {}) :
          c \in commits /\ InWindow(c, {}, {s}, {})
    BY DEF CommitRows
  <2>4. \A f \in FileRows({}, {s}, {}, {}) :
          \E c \in commits : /\ InWindow(c, {}, {s}, {})
                             /\ f.repository = c.repository
    BY FileRowsIs DEF ChangedFile
  <2> QED
    BY <2>1, <2>2, <2>3, <2>4
<1> QED
  BY <1>1, FeedInvCorrect, PTL

(* recent_repositories counts, for each repository, the events that        *)
(* repository_events lists for it, and names the last of them.             *)
THEOREM RecentAgreesWithEventsCorrect == FeedSpec => []RecentAgreesWithEvents
<1>1. FeedInv => RecentAgreesWithEvents
  <2> SUFFICES ASSUME FeedInv, NEW r \in Repository
               PROVE
                 LET listing == EventListing({r}, {}, All)
                     shown == ToSet(RecentRepositories({}, All))
                     entries == {entry \in shown : entry.repository = r}
                 IN  IF listing = <<>> THEN entries = {}
                     ELSE \E entry \in entries :
                            /\ entries = {entry}
                            /\ entry.pushCount = Len(listing)
                            /\ entry.latestSequence = Last(listing).sequence
    BY DEF RecentAgreesWithEvents
  <2> DEFINE S == RowsOf({}, r)
             list == Sorted([e \in S |-> <<e.sequence>>])
             entries == {entry \in RecentEntries({}) : entry.repository = r}
  <2>1. IInv /\ All \in Nat /\ Cardinality(events) <= All
    BY AllIsEnough DEF FeedInv
  <2>2. ToSet(RecentRepositories({}, All)) = RecentEntries({})
    BY <2>1, ShownRecent
  <2>3. EventRows({r}, {}) = S /\ S \in SUBSET events
    BY DEF EventRows, RowsOf, RecentRows
  <2>4. /\ IsFiniteSet(S) /\ list \in Seq(S) /\ Len(list) = Cardinality(S)
        /\ \A limit \in Nat : Cardinality(S) <= limit =>
             Truncate(list, limit) = list
    <3> HIDE DEF S
    <3> QED
      BY <2>1, <2>3, RowsInOrder
  <2>5. EventListing({r}, {}, All) = list
    <3>1. EventListing({r}, {}, All) = Truncate(list, All)
      BY <2>3 DEF EventListing
    <3> HIDE DEF S, list
    <3>2. IsFiniteSet(events)
      BY <2>1 DEF IInv, EventsRecorded
    <3>3. Cardinality(S) <= Cardinality(events)
      BY <2>3, <3>2, FS_Subset
    <3>4. Cardinality(S) \in Nat /\ Cardinality(events) \in Nat
      BY <2>4, <3>2, FS_CardinalityType
    <3>5. Cardinality(S) <= All
      BY <2>1, <3>3, <3>4
    <3> QED
      BY <2>1, <2>4, <3>1, <3>5
  <2>6. CASE S = {}
    <3>1. list = <<>>
      <4>1. Cardinality(S) = 0
        BY <2>6, FS_EmptySet
      <4> HIDE DEF S, list
      <4> QED
        BY <2>4, <4>1
    <3>2. entries = {}
      BY <2>1, <2>6, EntriesAre
    <3> HIDE DEF list, S
    <3> QED
      BY <2>2, <2>5, <3>1, <3>2
  <2>7. CASE S # {}
    <3>1. entries = {EntryOf({}, r)}
      <4>1. /\ EntryOf({}, r) \in RecentEntries({})
            /\ EntryOf({}, r).repository = r
        BY <2>1, <2>7, EntriesAre
      <4>2. \A entry \in RecentEntries({}) :
              \E q : entry = EntryOf({}, q) /\ entry.repository = q
        BY <2>1, EntriesAre
      <4> QED
        BY <4>1, <4>2
    <3>2. /\ Len(list) \in Nat /\ Len(list) \in 1..Len(list)
          /\ EntryOf({}, r) =
               [repository       |-> r,
                latestReceivedAt |-> list[Len(list)].notification.receivedAt,
                latestSequence   |-> list[Len(list)].sequence,
                pushCount        |-> Len(list)]
      BY <2>1, <2>7, EntryIs
    <3> HIDE DEF list, S
    <3>3. /\ EntryOf({}, r).pushCount = Len(list)
          /\ EntryOf({}, r).latestSequence = list[Len(list)].sequence
      BY <3>2
    <3>4. list # <<>>
      BY <3>2
    <3> QED
      BY <2>2, <2>5, <3>1, <3>3, <3>4 DEF Last
  <2> QED
    BY <2>6, <2>7
<1> QED
  BY <1>1, FeedInvCorrect, PTL

============================================================================
