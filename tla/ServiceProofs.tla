--------------------------- MODULE ServiceProofs ---------------------------
(* Theorems about Service.tla, for every value of its constants: the store *)
(* actor is linearizable, and the requests it serves run as in Nexus.tla.  *)
EXTENDS Service, NexusProofs, SequenceTheorems

----------------------------------------------------------------------------
(* The inductive invariant.                                                *)

IsView(state) ==
  state = [events |-> state.events, commits |-> state.commits,
           catalog |-> state.catalog]

Message == [from : Client, operation : Operation]

(* A message waits for the client that sent it and for no other.           *)
MailboxOfClients ==
  /\ mailbox \in Seq(Message)
  /\ \A i \in DOMAIN mailbox :
       /\ mailbox[i].from \notin serving
       /\ session[mailbox[i].from] = Submitted(mailbox[i].operation)
  /\ \A i, j \in DOMAIN mailbox : mailbox[i].from = mailbox[j].from => i = j

(* A client waits for a message, or for the actor.                         *)
ClientsWait ==
  /\ session = [c \in Client |-> session[c]]
  /\ \A c \in Client :
       \/ session[c].at = "answered"
       \/ /\ \E o \in Operation : session[c] = Submitted(o)
          /\ \/ c \in serving
             \/ \E i \in DOMAIN mailbox : mailbox[i].from = c

ServingOne ==
  /\ \/ serving = {}
     \/ \E c \in Client : serving = {c} /\ session[c].at = "submitted"
  /\ serving = {} <=> work = NoWork
  /\ call.at = "closed" => work = NoWork

(* The observation in progress has changed `before' by its event, under a  *)
(* sequence that is new there, and by the commits up to the next one.      *)
ObservationSoFar(o) ==
  /\ o.kind = "Observe"
  /\ call.event = [sequence |-> call.event.sequence,
                   notification |-> o.notification]
  /\ call.event.sequence \in Sequence
  /\ \A e \in before.events : e.sequence < call.event.sequence
  /\ call.commits = o.commits
  /\ View = [events |-> before.events \cup {call.event},
             commits |-> before.commits
                           \cup {CommitRow(call.event, o.commits[i]) :
                                   i \in 1..(call.next - 1)},
             catalog |-> before.catalog]

(* An output of the request, as things are, is an outcome of it.           *)
IsOutcome(output, o) ==
  Outcome(View, AnswerIn(Committed(signalTier, output))) \in Effects(o, before)

(* At each stage, what the request has done since it was taken is one of   *)
(* its outcomes: at any time one that is told Aborted, and in the end the  *)
(* one that goes with its answer.                                          *)
RequestSoFar(o) ==
  /\ work.at \in {"arrived", "command", "applying"} => work.operation = o
  /\ work.at \in {"arrived", "command"} => View = before
  /\ Outcome(View, Aborted) \in Effects(o, before)
  /\ work.at = "applying" /\ call.at = "observing" => ObservationSoFar(o)
  /\ work.at = "applying" /\ call.at \in {"done", "recorded"} =>
       IsOutcome(OutputOf(o), o)
  /\ work.at = "completed" /\ lastError = None => IsOutcome(work.output, o)

ServiceInv ==
  /\ NexusInv
  /\ IsView(before)
  /\ MailboxOfClients
  /\ ClientsWait
  /\ ServingOne
  /\ \A c \in serving : RequestSoFar(session[c].operation)

----------------------------------------------------------------------------
(* The outcomes of an operation.                                           *)

(* An operation is of one of the kinds, with the fields of its kind.       *)
LEMMA OperationKinds ==
  ASSUME NEW o \in Operation
  PROVE  \/ /\ o.kind = "Receive" /\ o.notification \in Notification
            /\ OutputOf(o) = "EventRecorded"
         \/ /\ o.kind = "Observe" /\ o.notification \in Notification
            /\ o.commits \in CommitList /\ OutputOf(o) = "EventRecorded"
         \/ o.kind = "Query" /\ OutputOf(o) = "QueryResult"
         \/ /\ o.kind = "Register" /\ o.repository \in Repository
            /\ o.class \in Class /\ OutputOf(o) = "Registered"
         \/ /\ o.kind = "Retire" /\ o.repository \in Repository
            /\ OutputOf(o) = "Retired"
         \/ /\ o.kind = "SetSpoolDirectory" /\ o.path \in SpoolPath
            /\ OutputOf(o) = "SpoolDirectoryPolicySet"
         \/ /\ o.kind = "SetMirror" /\ o.repository \in Repository
            /\ o.target \in MirrorTarget /\ OutputOf(o) = "MirrorPolicySet"
BY DEF Operation, OutputOf, Receive, Observe, Query, Register, Retire,
       SetSpoolDirectory, SetMirror

(* Every operation may fail before it has done anything.                   *)
LEMMA MayAbort ==
  ASSUME NEW o \in Operation, NEW state
  PROVE  Outcome(state, Aborted) \in Effects(o, state)
BY OperationKinds DEF Effects, Observation, Registering, Retiring

(* An observation in progress, and one that is done, are outcomes.         *)
LEMMA ObservationOutcomes ==
  ASSUME NEW state, NEW notification, NEW list, NEW event,
         event = [sequence |-> event.sequence, notification |-> notification],
         event.sequence \in Sequence,
         \A e \in state.events : e.sequence < event.sequence,
         Len(list) \in Nat, NEW n \in 0..Len(list)
  PROVE  /\ Outcome(With(state, event, list, n), Aborted) \in
              Observation(notification, list, state)
         /\ n = Len(list) =>
              Outcome(With(state, event, list, n),
                      [kind |-> "EventRecorded",
                       sequence |-> event.sequence]) \in
                Observation(notification, list, state)
<1> DEFINE later == {s \in Sequence : \A e \in state.events : e.sequence < s}
           pushes == {[sequence |-> s, notification |-> notification] :
                        s \in later}
<1>1. event \in pushes
  OBVIOUS
<1> HIDE DEF later, pushes
<1> QED
  BY <1>1 DEF Observation, later, pushes

----------------------------------------------------------------------------
(* What the steps of a request do to the view.                             *)

LEMMA ViewKept ==
  ASSUME UNCHANGED <<events, commits, registrations>>
  PROVE  View' = View
BY DEF View, CatalogListing

LEMMA ViewIsView ==
  View = [events |-> events, commits |-> commits, catalog |-> CatalogListing]
BY DEF View

(* The event of an observation is stored under a later sequence.           *)
LEMMA EventStored ==
  ASSUME IInv, View = before, NEW event, AssertEvent(event),
         NEW list, Len(list) \in Nat,
         event = [sequence |-> event.sequence,
                  notification |-> event.notification]
  PROVE  /\ event.sequence \in Sequence
         /\ \A e \in before.events : e.sequence < event.sequence
         /\ View' = With(before, event, list, 0)
         /\ Outcome(View', Aborted) \in
              Observation(event.notification, list, before)
         /\ Len(list) = 0 =>
              Outcome(View', [kind |-> "EventRecorded",
                              sequence |-> event.sequence]) \in
                Observation(event.notification, list, before)
<1>1. /\ event.sequence = commitSequence + 1
      /\ commitSequence < MaxSequence
      /\ events' = events \cup {event}
      /\ UNCHANGED <<commits, registrations>>
  BY DEF AssertEvent, NextEventSequence, EngineCommit
<1>2. commitSequence \in Nat /\ MaxSequence \in Nat
  BY StoreAssumption DEF IInv, TypeOK
<1>3. event.sequence \in Sequence
  BY <1>1, <1>2 DEF Sequence
<1>4. \A e \in before.events : e.sequence < event.sequence
  <2>1. before.events = events
    BY ViewIsView
  <2>2. \A e \in events : e.sequence \in Nat /\ e.sequence <= commitSequence
    BY StoreAssumption
    DEF IInv, SequencesIssued, EventsRecorded, TypeOK, StoredEvent, Sequence
  <2> QED
    BY <1>1, <1>2, <2>1, <2>2
<1>5. View' = With(before, event, list, 0)
  <2>1. {CommitRow(event, list[i]) : i \in 1..0} = {}
    OBVIOUS
  <2>2. CatalogListing' = CatalogListing
    BY <1>1 DEF CatalogListing
  <2> QED
    BY <1>1, <2>1, <2>2 DEF View, With
<1> QED
  BY <1>3, <1>4, <1>5, ObservationOutcomes

(* The rows of the catalog after one is written or removed.                *)
LEMMA CatalogPut ==
  ASSUME NEW r, NEW k, registrations' = Put(registrations, r, k)
  PROVE  CatalogListing' =
           Others(View, r) \cup {[repository |-> r, class |-> k]}
BY DEF CatalogListing, View, Others, Put

LEMMA CatalogDrop ==
  ASSUME NEW r, registrations' = Drop(registrations, r)
  PROVE  CatalogListing' = Others(View, r)
BY DEF CatalogListing, View, Others, Drop

(* The call of a method leaves the view as an outcome of the request that  *)
(* may still fail; if the method is done, also of one that is answered.    *)
CallIsOutcome(o) ==
  /\ Outcome(View, Aborted) \in Effects(o, before)
  /\ call.at = "observing" => ObservationSoFar(o)
  /\ call.at \in {"done", "recorded"} => IsOutcome(OutputOf(o), o)

LEMMA CallOutcome ==
  ASSUME NexusInv, NEW o \in Operation, Call(o), View = before,
         UNCHANGED before, o.kind = "Query" => rows' = View
  PROVE  CallIsOutcome(o)'
<1>1. CASE /\ o.kind = "Query"
           /\ call' = Done
           /\ UNCHANGED <<tables, commitSequence, checkpoint, recorded>>
  <2>1. View' = before /\ rows' = before
    BY <1>1, ViewKept DEF tables
  <2>2. Effects(o, before) =
          {Outcome(before, Aborted),
           Outcome(before, [kind |-> "QueryResult", rows |-> before])}
    BY <1>1 DEF Effects
  <2>3. OutputOf(o) = "QueryResult"
    BY <1>1, OperationKinds
  <2>4. AnswerIn(Committed(signalTier, OutputOf(o)))' =
          [kind |-> "QueryResult", rows |-> before]
    BY <2>1, <2>3 DEF AnswerIn, Committed
  <2> QED
    BY <1>1, <2>1, <2>2, <2>4 DEF CallIsOutcome, IsOutcome, Done
<1>2. CASE o.kind = "Receive" /\ RecordHookNotification(o.notification)
  <2>1. PICK event :
          /\ event = [sequence |-> NextEventSequence,
                      notification |-> o.notification]
          /\ AssertEvent(event)
          /\ call' = Recorded(event, <<>>)
    BY <1>2 DEF RecordHookNotification
  <2>2. event = [sequence |-> event.sequence,
                 notification |-> event.notification]
        /\ event.notification = o.notification
    BY <2>1
  <2>3. Effects(o, before) = Observation(o.notification, <<>>, before)
    BY <1>2 DEF Effects
  <2>4. /\ Outcome(View', Aborted) \in Effects(o, before)
        /\ Outcome(View', [kind |-> "EventRecorded",
                           sequence |-> event.sequence]) \in
             Effects(o, before)
    BY <2>1, <2>2, <2>3, EventStored DEF NexusInv
  <2>5. OutputOf(o) = "EventRecorded"
    BY <1>2, OperationKinds
  <2>6. call'.at = "recorded" /\ call'.event = event
    BY <2>1 DEF Recorded
  <2>7. AnswerIn(Committed(signalTier, OutputOf(o)))' =
          [kind |-> "EventRecorded", sequence |-> event.sequence]
    BY <2>5, <2>6 DEF AnswerIn, Committed
  <2> QED
    BY <2>4, <2>6, <2>7 DEF CallIsOutcome, IsOutcome
<1>3. CASE /\ o.kind = "Observe"
           /\ RecordPushObservation(o.notification, o.commits)
  <2> DEFINE list == o.commits
  <2>1. PICK event :
          /\ event = [sequence |-> NextEventSequence,
                      notification |-> o.notification]
          /\ AssertEvent(event)
          /\ call' = IF Len(list) = 0 THEN Recorded(event, list)
                                      ELSE Observing(event, list, 1)
    BY <1>3 DEF RecordPushObservation
  <2>2. event = [sequence |-> event.sequence,
                 notification |-> event.notification]
        /\ event.notification = o.notification
    BY <2>1
  <2>3. Effects(o, before) = Observation(o.notification, list, before)
    BY <1>3 DEF Effects
  <2>4. Len(list) \in Nat
    BY <1>3, OperationKinds, CommitListIsSequence, StoreAssumption
  <2>5. /\ event.sequence \in Sequence
        /\ \A e \in before.events : e.sequence < event.sequence
        /\ View' = With(before, event, list, 0)
        /\ Outcome(View', Aborted) \in Effects(o, before)
        /\ Len(list) = 0 =>
             Outcome(View', [kind |-> "EventRecorded",
                             sequence |-> event.sequence]) \in
               Effects(o, before)
    BY <2>1, <2>2, <2>3, <2>4, EventStored DEF NexusInv
  <2>6. CASE Len(list) = 0
    <3>1. OutputOf(o) = "EventRecorded"
      BY <1>3, OperationKinds
    <3>2. call'.at = "recorded" /\ call'.event = event
      BY <2>1, <2>6 DEF Recorded
    <3>3. AnswerIn(Committed(signalTier, OutputOf(o)))' =
            [kind |-> "EventRecorded", sequence |-> event.sequence]
      BY <3>1, <3>2 DEF AnswerIn, Committed
    <3> QED
      BY <2>5, <2>6, <3>2, <3>3 DEF CallIsOutcome, IsOutcome
  <2>7. CASE Len(list) # 0
    <3>1. call' = Observing(event, list, 1)
      BY <2>1, <2>7
    <3>2. /\ call'.at = "observing" /\ call'.event = event
          /\ call'.commits = list /\ call'.next - 1 = 0
      BY <3>1 DEF Observing
    <3>3. ObservationSoFar(o)'
      <4> HIDE DEF list
      <4>1. (call.event = [sequence |-> call.event.sequence,
                           notification |-> o.notification])'
        BY <2>2, <3>2
      <4>2. View' = With(before, event, list, 0)
        BY <2>5
      <4> QED
        BY <1>3, <2>5, <3>2, <4>1, <4>2 DEF ObservationSoFar, With, list
    <3> QED
      BY <2>5, <3>2, <3>3 DEF CallIsOutcome
  <2> QED
    BY <2>6, <2>7
<1>4. CASE o.kind = "Register" /\ RegisterRepository(o.repository, o.class)
  <2>1. /\ registrations' = Put(registrations, o.repository, o.class)
        /\ call' = Done /\ UNCHANGED <<events, commits>>
    BY <1>4 DEF RegisterRepository
  <2> DEFINE after ==
        WithCatalog(before,
                    Others(before, o.repository)
                      \cup {[repository |-> o.repository,
                             class |-> o.class]})
  <2>2. View' = after
    BY <2>1, CatalogPut DEF View, WithCatalog
  <2>3. Effects(o, before) =
          {Outcome(before, Aborted), Outcome(after, Aborted),
           Outcome(after, [kind |-> "Registered"])}
    BY <1>4 DEF Effects, Registering
  <2>4. OutputOf(o) = "Registered"
    BY <1>4, OperationKinds
  <2>5. AnswerIn(Committed(signalTier, OutputOf(o)))' =
          [kind |-> "Registered"]
    BY <2>4 DEF AnswerIn, Committed
  <2> HIDE DEF after
  <2> QED
    BY <2>1, <2>2, <2>3, <2>5 DEF CallIsOutcome, IsOutcome, Done
<1>5. CASE o.kind = "Retire" /\ RetireRepository(o.repository)
  <2>1. Outcome(View, Aborted) \in Effects(o, before)
    BY MayAbort
  <2>2. CASE o.repository \notin DOMAIN registrations
    <3>1. call' = Failed /\ UNCHANGED <<events, commits, registrations>>
      BY <1>5, <2>2 DEF RetireRepository
    <3> QED
      BY <2>1, <3>1, ViewKept DEF CallIsOutcome, Failed
  <2>3. CASE o.repository \in DOMAIN registrations
    <3>1. /\ registrations' = Drop(registrations, o.repository)
          /\ call' = Done /\ UNCHANGED <<events, commits>>
      BY <1>5, <2>3 DEF RetireRepository
    <3> DEFINE after == WithCatalog(before, Others(before, o.repository))
    <3>2. View' = after
      BY <3>1, CatalogDrop DEF View, WithCatalog
    <3>3. after # before
      <4> DEFINE row == [repository |-> o.repository,
                         class |-> registrations[o.repository]]
      <4>1. row \in before.catalog
        BY <2>3 DEF View, CatalogListing
      <4>2. row \notin after.catalog
        BY DEF WithCatalog, Others
      <4> QED
        BY <4>1, <4>2
    <3>4. Effects(o, before) =
            {Outcome(before, Aborted), Outcome(after, Aborted),
             Outcome(after, [kind |-> "Retired"])}
      BY <1>5, <3>3 DEF Effects, Retiring
    <3>5. OutputOf(o) = "Retired"
      BY <1>5, OperationKinds
    <3>6. AnswerIn(Committed(signalTier, OutputOf(o)))' = [kind |-> "Retired"]
      BY <3>5 DEF AnswerIn, Committed
    <3> HIDE DEF after
    <3> QED
      BY <3>1, <3>2, <3>4, <3>6 DEF CallIsOutcome, IsOutcome, Done
  <2> QED
    BY <2>2, <2>3
<1>6. ASSUME \/ /\ o.kind = "SetSpoolDirectory"
                /\ SetSpoolDirectoryPolicy(o.path)
             \/ /\ o.kind = "SetMirror"
                /\ SetMirrorPolicy(o.repository, o.target)
      PROVE  CallIsOutcome(o)'
  <2>1. call' = Done /\ UNCHANGED <<events, commits, registrations>>
    BY <1>6 DEF SetSpoolDirectoryPolicy, SetMirrorPolicy
  <2>2. View' = before
    BY <2>1, ViewKept
  <2>3. Effects(o, before) =
          {Outcome(before, Aborted),
           Outcome(before, [kind |-> OutputOf(o)])}
    BY <1>6 DEF Effects
  <2>4. OutputOf(o) \notin {"QueryResult", "EventRecorded"}
    BY <1>6, OperationKinds
  <2>5. AnswerIn(Committed(signalTier, OutputOf(o)))' = [kind |-> OutputOf(o)]
    BY <2>4 DEF AnswerIn, Committed
  <2> QED
    BY <2>1, <2>2, <2>3, <2>5 DEF CallIsOutcome, IsOutcome, Done
<1> QED
  BY <1>1, <1>2, <1>3, <1>4, <1>5, <1>6 DEF Call

(* One more commit of the observation.                                     *)
LEMMA CommitOutcome ==
  ASSUME NexusInv, NEW o \in Operation, ObservationSoFar(o), AssertCommit,
         UNCHANGED before
  PROVE  CallIsOutcome(o)'
<1>1. PICK event, list, n : call.event = event /\ call.commits = list
                            /\ call.next = n
  OBVIOUS
<1>2. /\ event = [sequence |-> event.sequence,
                  notification |-> o.notification]
      /\ event.sequence \in Sequence
      /\ \A e \in before.events : e.sequence < event.sequence
      /\ list = o.commits
      /\ events = before.events \cup {event}
      /\ commits = before.commits
                     \cup {CommitRow(event, list[i]) : i \in 1..(n - 1)}
      /\ CatalogListing = before.catalog
  BY <1>1 DEF ObservationSoFar, View
<1>3. call.at = "observing"
  BY DEF AssertCommit
<1>4. /\ call \in [at : {"observing"}, event : StoredEvent,
                   commits : CommitList, next : 1..MaxCommits]
      /\ call.next <= Len(call.commits)
  BY <1>3 DEF NexusInv, IInv, TypeOK, Closed, Idle, Done, Failed
<1>5. n \in 1..Len(list) /\ Len(list) \in Nat
  BY <1>1, <1>4, CommitListIsSequence, StoreAssumption
<1>6. /\ commits' = commits \cup {CommitRow(event, list[n])}
      /\ UNCHANGED <<events, registrations>>
      /\ call' = IF n = Len(list) THEN Recorded(event, list)
                 ELSE [call EXCEPT !.next = n + 1]
  BY <1>1 DEF AssertCommit
<1>7. {CommitRow(event, list[i]) : i \in 1..(n - 1)}
        \cup {CommitRow(event, list[n])}
        = {CommitRow(event, list[i]) : i \in 1..n}
  <2>1. 1..n = 1..(n - 1) \cup {n}
    BY <1>5
  <2> QED
    BY <2>1
<1>8. View' = With(before, event, list, n)
  <2>1. CatalogListing' = before.catalog
    BY <1>2, <1>6 DEF CatalogListing
  <2>2. commits' = before.commits \cup {CommitRow(event, list[i]) : i \in 1..n}
    BY <1>2, <1>6, <1>7
  <2> QED
    BY <1>2, <1>6, <2>1, <2>2 DEF View, With
<1>9. Effects(o, before) = Observation(o.notification, list, before)
  BY <1>2 DEF Effects, ObservationSoFar
<1>10. /\ Outcome(View', Aborted) \in Effects(o, before)
       /\ n = Len(list) =>
            Outcome(View', [kind |-> "EventRecorded",
                            sequence |-> event.sequence]) \in
              Effects(o, before)
  BY <1>2, <1>5, <1>8, <1>9, ObservationOutcomes
<1>11. CASE n = Len(list)
  <2>1. call'.at = "recorded" /\ call'.event = event
    BY <1>6, <1>11 DEF Recorded
  <2>2. OutputOf(o) = "EventRecorded"
    BY OperationKinds DEF ObservationSoFar
  <2>3. AnswerIn(Committed(signalTier, OutputOf(o)))' =
          [kind |-> "EventRecorded", sequence |-> event.sequence]
    BY <2>1, <2>2 DEF AnswerIn, Committed
  <2> QED
    BY <1>10, <1>11, <2>1, <2>3 DEF CallIsOutcome, IsOutcome
<1>12. CASE n # Len(list)
  <2>1. /\ call'.at = "observing" /\ call'.event = event
        /\ call'.commits = list /\ call'.next - 1 = n
    <3>1. call' = [call EXCEPT !.next = n + 1]
      BY <1>6, <1>12
    <3> QED
      BY <1>1, <1>4, <1>5, <3>1
  <2>2. ObservationSoFar(o)'
    BY <1>2, <1>8, <2>1 DEF ObservationSoFar, With
  <2> QED
    BY <1>10, <2>1, <2>2 DEF CallIsOutcome
<1> QED
  BY <1>11, <1>12

LEMMA RequestKept ==
  ASSUME NEW o, RequestSoFar(o), UNCHANGED <<vars, nexusVars, rows, before>>
  PROVE  RequestSoFar(o)'
<1>1. UNCHANGED <<View, work, call, lastError, signalTier, rows, before>>
  BY ViewKept DEF vars, tables, nexusVars
<1>2. UNCHANGED <<ObservationSoFar(o), IsOutcome(OutputOf(o), o),
                  IsOutcome(work.output, o)>>
  BY <1>1 DEF ObservationSoFar, IsOutcome, AnswerIn, Committed
<1> QED
  BY <1>1, <1>2 DEF RequestSoFar

----------------------------------------------------------------------------
(* Every step preserves the invariant.                                     *)

LEMMA StepsOfNexus ==
  ASSUME ServiceInv, ServiceNext
  PROVE  [NexusNext]_<<vars, nexusVars>>
<1>1. CASE \E c \in Client, o \in Operation : Submit(c, o)
  BY <1>1 DEF Submit
<1>2. CASE Take
  <2>1. mailbox \in Seq(Message) /\ mailbox # <<>>
        /\ Arrive(Head(mailbox).operation)
    BY <1>2 DEF ServiceInv, MailboxOfClients, Take
  <2>2. Head(mailbox) \in Message
    BY <2>1, HeadTailProperties
  <2>3. Head(mailbox).operation \in Operation
    BY <2>2 DEF Message
  <2> QED
    BY <2>1, <2>3 DEF NexusNext
<1>3. CASE Work
  BY <1>3 DEF Work, NexusNext
<1>4. CASE Respond
  BY <1>4 DEF Respond, NexusNext
<1>5. CASE CrashOrOpen
  BY <1>5 DEF CrashOrOpen, NexusNext
<1> QED
  BY <1>1, <1>2, <1>3, <1>4, <1>5 DEF ServiceNext

LEMMA ServiceInvInit == ServiceInit => ServiceInv
<1> SUFFICES ASSUME ServiceInit
             PROVE  ServiceInv
  OBVIOUS
<1>1. NexusInv
  BY NexusInvInit DEF ServiceInit
<1>2. MailboxOfClients
  BY DEF ServiceInit, MailboxOfClients
<1>3. ClientsWait
  BY DEF ServiceInit, ClientsWait, Answered
<1>4. ServingOne
  BY DEF ServiceInit, NexusInit, ServingOne
<1> QED
  BY <1>1, <1>2, <1>3, <1>4
  DEF ServiceInit, ServiceInv, IsView, EmptyView

LEMMA SubmitPreserves ==
  ASSUME ServiceInv, NexusInv', NEW c \in Client, NEW o \in Operation,
         Submit(c, o)
  PROVE  ServiceInv'
<1> DEFINE m == [from |-> c, operation |-> o]
<1>1. /\ session[c].at = "answered"
      /\ session' = [session EXCEPT ![c] = Submitted(o)]
      /\ mailbox' = Append(mailbox, m)
      /\ UNCHANGED <<vars, nexusVars, serving, rows, before>>
  BY DEF Submit
<1>2. m \in Message /\ mailbox \in Seq(Message)
  BY DEF Message, ServiceInv, MailboxOfClients
<1>3. /\ session'[c] = Submitted(o)
      /\ \A d \in Client \ {c} : session'[d] = session[d]
      /\ session' = [d \in Client |-> session'[d]]
  BY <1>1 DEF ServiceInv, ClientsWait
<1>4. c \notin serving
  BY <1>1 DEF ServiceInv, ServingOne
<1>5. \A i \in DOMAIN mailbox : mailbox[i].from \in Client \ {c}
  <2> SUFFICES ASSUME NEW i \in DOMAIN mailbox
               PROVE  mailbox[i].from \in Client \ {c}
    OBVIOUS
  <2>1. mailbox[i] \in Message
    BY <1>2
  <2>2. session[mailbox[i].from] = Submitted(mailbox[i].operation)
    BY DEF ServiceInv, MailboxOfClients
  <2> QED
    BY <1>1, <2>1, <2>2 DEF Message, Submitted
<1>6. /\ mailbox' \in Seq(Message)
      /\ DOMAIN mailbox' = DOMAIN mailbox \cup {Len(mailbox) + 1}
      /\ Len(mailbox) + 1 \notin DOMAIN mailbox
      /\ mailbox'[Len(mailbox) + 1] = m
      /\ \A i \in DOMAIN mailbox : mailbox'[i] = mailbox[i]
  <2> HIDE DEF m
  <2> QED
    BY <1>1, <1>2, AppendProperties
<1>7. MailboxOfClients'
  BY <1>1, <1>3, <1>4, <1>5, <1>6 DEF ServiceInv, MailboxOfClients
<1>8. ClientsWait'
  BY <1>1, <1>3, <1>6 DEF ServiceInv, ClientsWait
<1>9. ServingOne'
  <2>1. UNCHANGED <<work, call>>
    BY <1>1 DEF vars, nexusVars
  <2> QED
    BY <1>1, <1>3, <1>4, <2>1 DEF ServiceInv, ServingOne
<1>10. ASSUME NEW d \in serving
       PROVE  RequestSoFar(session[d].operation)'
  <2>1. PICK p : p = session[d].operation
    OBVIOUS
  <2>2. session'[d] = session[d]
    BY <1>3, <1>4 DEF ServiceInv, ServingOne
  <2>3. RequestSoFar(p)'
    BY <1>1, <2>1, RequestKept DEF ServiceInv
  <2> QED
    BY <2>1, <2>2, <2>3
<1> QED
  BY <1>1, <1>7, <1>8, <1>9, <1>10 DEF ServiceInv, IsView

LEMMA TakePreserves ==
  ASSUME ServiceInv, NexusInv', Take
  PROVE  ServiceInv'
<1>1. PICK m : m = Head(mailbox)
  OBVIOUS
<1>2. /\ serving = {} /\ mailbox # <<>> /\ Arrive(m.operation)
      /\ serving' = {m.from} /\ mailbox' = Tail(mailbox)
      /\ before' = View /\ UNCHANGED <<session, rows>>
  BY <1>1 DEF Take
<1>3. /\ mailbox \in Seq(Message) /\ m \in Message
      /\ 1 \in DOMAIN mailbox /\ mailbox[1] = m
      /\ mailbox' \in Seq(Message)
      /\ DOMAIN mailbox = 1..Len(mailbox)
      /\ Len(mailbox) \in Nat /\ DOMAIN mailbox' = 1..(Len(mailbox) - 1)
      /\ \A i \in DOMAIN mailbox' :
           i + 1 \in DOMAIN mailbox /\ mailbox'[i] = mailbox[i + 1]
  <2>1. mailbox \in Seq(Message)
    BY DEF ServiceInv, MailboxOfClients
  <2> QED
    BY <1>1, <1>2, <2>1
<1>4. m.from \in Client /\ m.operation \in Operation
      /\ session[m.from] = Submitted(m.operation)
  BY <1>3 DEF ServiceInv, MailboxOfClients, Message
<1>5. MailboxOfClients'
  <2>1. \A i \in DOMAIN mailbox' :
          /\ mailbox'[i].from # m.from
          /\ session[mailbox'[i].from] = Submitted(mailbox'[i].operation)
    BY <1>3 DEF ServiceInv, MailboxOfClients
  <2>2. \A i, j \in DOMAIN mailbox' :
          mailbox'[i].from = mailbox'[j].from => i = j
    BY <1>3 DEF ServiceInv, MailboxOfClients
  <2> QED
    BY <1>2, <1>3, <2>1, <2>2 DEF MailboxOfClients
<1>6. ClientsWait'
  <2>1. ASSUME NEW c \in Client, c # m.from,
               NEW i \in DOMAIN mailbox, mailbox[i].from = c
        PROVE  i - 1 \in DOMAIN mailbox' /\ mailbox'[i - 1].from = c
    <3>1. i # 1
      BY <1>3, <2>1
    <3>2. i - 1 \in DOMAIN mailbox' /\ (i - 1) + 1 = i
      BY <1>3, <3>1
    <3> QED
      BY <1>3, <2>1, <3>2
  <2>2. ASSUME NEW c \in Client
        PROVE  \/ session'[c].at = "answered"
               \/ /\ \E o \in Operation : session'[c] = Submitted(o)
                  /\ \/ c \in serving'
                     \/ \E i \in DOMAIN mailbox' : mailbox'[i].from = c
    BY <1>2, <2>1 DEF ServiceInv, ClientsWait
  <2> QED
    BY <1>2, <2>2 DEF ServiceInv, ClientsWait
<1>7. call.at # "closed" /\ UNCHANGED vars
      /\ work' = SignalArrived(m.operation)
  BY <1>2 DEF Arrive, Ready
<1>8. ServingOne'
  <2>1. work' # NoWork
    BY <1>7 DEF SignalArrived, NoWork
  <2>2. session'[m.from].at = "submitted"
    BY <1>2, <1>4 DEF Submitted
  <2>3. call' = call
    BY <1>7 DEF vars
  <2> QED
    BY <1>2, <1>4, <1>7, <2>1, <2>2, <2>3 DEF ServingOne
<1>9. RequestSoFar(m.operation)'
  <2>1. View' = View
    BY <1>7, ViewKept DEF vars, tables
  <2>2. Outcome(before', Aborted) \in Effects(m.operation, before')
    BY <1>4, MayAbort
  <2> QED
    BY <1>2, <1>7, <2>1, <2>2 DEF RequestSoFar, SignalArrived
<1>10. \A c \in serving' : RequestSoFar(session[c].operation)'
  <2>1. session'[m.from].operation = m.operation
    BY <1>2, <1>4 DEF Submitted
  <2> QED
    BY <1>2, <1>9, <2>1
<1>11. IsView(before)'
  BY <1>2 DEF IsView, View
<1> QED
  BY <1>5, <1>6, <1>8, <1>10, <1>11 DEF ServiceInv

(* What the runner does leaves the clients and the mailbox alone.          *)
LEMMA WaitingKept ==
  ASSUME MailboxOfClients, ClientsWait, ServingOne, work # NoWork,
         work' # NoWork, UNCHANGED <<mailbox, serving, session>>
  PROVE  /\ MailboxOfClients' /\ ClientsWait'
         /\ call'.at # "closed" => ServingOne'
BY DEF MailboxOfClients, ClientsWait, ServingOne

LEMMA WorkPreserves ==
  ASSUME ServiceInv, NexusInv', Work
  PROVE  ServiceInv'
<1>1. UNCHANGED <<mailbox, serving, session, before>>
  BY DEF Work
<1>2. work # NoWork /\ work' # NoWork /\ call'.at # "closed"
  <2>1. work.at \in {"arrived", "command", "applying"}
    BY DEF Work, DecideCommand, Apply, MethodStep, Complete
  <2>2. work # NoWork
    BY <2>1 DEF NoWork
  <2>3. work'.at \in {"command", "applying", "completed"}
    BY <2>1
    DEF Work, DecideCommand, Apply, MethodStep, Complete, nexusVars, Command,
        Applying, Completed
  <2>4. call'.at # "closed"
    <3>1. call.at # "closed"
      BY <2>2 DEF ServiceInv, ServingOne
    <3>2. \/ UNCHANGED call
          \/ Call(work.operation)
          \/ EngineError
          \/ AssertCommit
      BY DEF Work, DecideCommand, Apply, MethodStep, Complete, vars
    <3>3. CASE Call(work.operation)
      BY <3>3 DEF Call, RecordHookNotification, RecordPushObservation,
                  RegisterRepository, RetireRepository,
                  SetSpoolDirectoryPolicy, SetMirrorPolicy, Recorded,
                  Observing, Done, Failed
    <3>4. CASE EngineError
      BY <3>4 DEF EngineError, Failed
    <3>5. CASE AssertCommit
      <4>1. call.at = "observing"
        BY <3>5 DEF AssertCommit
      <4>2. call' = Recorded(call.event, call.commits)
              \/ call' = [call EXCEPT !.next = call.next + 1]
        BY <3>5 DEF AssertCommit
      <4>3. call \in [at : {"observing"}, event : StoredEvent,
                      commits : CommitList, next : 1..MaxCommits]
        BY <4>1 DEF ServiceInv, NexusInv, IInv, TypeOK, Closed, Idle, Done,
                    Failed
      <4> QED
        BY <4>2, <4>3 DEF Recorded
    <3> QED
      BY <3>1, <3>2, <3>3, <3>4, <3>5
  <2> QED
    BY <2>2, <2>3, <2>4 DEF NoWork
<1>3. MailboxOfClients' /\ ClientsWait' /\ ServingOne'
  BY <1>1, <1>2, WaitingKept DEF ServiceInv
<1>4. PICK c, o : /\ serving = {c} /\ c \in Client /\ o \in Operation
                  /\ session[c] = Submitted(o)
  <2>1. PICK c \in Client : serving = {c} /\ session[c].at = "submitted"
    BY <1>2 DEF ServiceInv, ServingOne
  <2>2. PICK o \in Operation : session[c] = Submitted(o)
    BY <2>1 DEF ServiceInv, ClientsWait
  <2> QED
    BY <2>1, <2>2
<1>5. session[c].operation = o
  BY <1>4 DEF Submitted
<1>6. RequestSoFar(o)
  BY <1>4, <1>5 DEF ServiceInv
<1>7. RequestSoFar(o)'
  <2>1. CASE DecideCommand /\ UNCHANGED rows
    <3>1. /\ work.at = "arrived" /\ work' = Command(o)
          /\ UNCHANGED <<tables, call>>
      BY <1>6, <2>1 DEF RequestSoFar, DecideCommand, vars
    <3>2. View' = View
      BY <3>1, ViewKept DEF tables
    <3> QED
      BY <1>1, <1>6, <3>1, <3>2 DEF RequestSoFar, Command
  <2>2. CASE /\ Apply
             /\ rows' = IF work.operation.kind = "Query" THEN View ELSE rows
    <3>1. /\ work.at = "command" /\ work.operation = o
          /\ Call(o) \/ EngineError
          /\ work' = Applying(o)
          /\ View = before
      BY <1>6, <2>2 DEF RequestSoFar, Apply
    <3>2. CASE Call(o)
      <4>1. CallIsOutcome(o)'
        BY <1>1, <1>4, <2>2, <3>1, <3>2, CallOutcome DEF ServiceInv
      <4> QED
        BY <1>6, <3>1, <4>1 DEF CallIsOutcome, RequestSoFar, Applying
    <3>3. CASE EngineError
      <4>1. call' = Failed /\ View' = View
        BY <3>3, ViewKept DEF EngineError, tables
      <4> QED
        BY <1>1, <1>6, <3>1, <4>1 DEF RequestSoFar, Applying, Failed
    <3> QED
      BY <3>1, <3>2, <3>3
  <2>3. CASE MethodStep /\ UNCHANGED rows
    <3>1. work.at = "applying" /\ work' = work /\ work.operation = o
          /\ (AssertCommit \/ EngineError)
      BY <1>6, <2>3 DEF RequestSoFar, MethodStep, nexusVars
    <3>2. CASE AssertCommit
      <4>1. ObservationSoFar(o)
        BY <1>6, <3>1, <3>2 DEF RequestSoFar, AssertCommit
      <4>2. CallIsOutcome(o)'
        BY <1>1, <1>4, <3>2, <4>1, CommitOutcome DEF ServiceInv
      <4> QED
        BY <3>1, <4>2 DEF CallIsOutcome, RequestSoFar
    <3>3. CASE EngineError
      <4>1. call' = Failed /\ View' = View
        BY <3>3, ViewKept DEF EngineError, tables
      <4> QED
        BY <1>1, <1>6, <3>1, <4>1 DEF RequestSoFar, Failed
    <3> QED
      BY <3>1, <3>2, <3>3
  <2>4. CASE Complete /\ UNCHANGED rows
    <3>1. /\ work.at = "applying" /\ Ready /\ work.operation = o
          /\ UNCHANGED <<vars, rows, signalTier>>
          /\ \/ lastError' = "Engine" /\ work'.at = "completed"
             \/ call.at # "failed" /\ work' = Completed(OutputOf(o))
      BY <1>6, <2>4 DEF RequestSoFar, Complete, Completed
    <3>2. View' = View /\ call' = call
      BY <3>1, ViewKept DEF vars, tables
    <3>3. Outcome(View', Aborted) \in Effects(o, before')
      BY <1>1, <1>6, <3>2 DEF RequestSoFar
    <3>4. CASE lastError' = "Engine" /\ work'.at = "completed"
      BY <3>3, <3>4 DEF RequestSoFar, None
    <3>5. CASE call.at # "failed" /\ work' = Completed(OutputOf(o))
      <4>1. call.at \in {"done", "recorded"}
        BY <3>1, <3>5 DEF ServiceInv, NexusInv, MethodSoFar, Ready
      <4>2. IsOutcome(OutputOf(o), o)
        BY <1>6, <3>1, <4>1 DEF RequestSoFar
      <4>3. IsOutcome(OutputOf(o), o)'
        BY <1>1, <3>1, <3>2, <4>2 DEF IsOutcome, AnswerIn, Committed
      <4>4. work'.output = OutputOf(o) /\ work'.at = "completed"
        BY <3>5 DEF Completed
      <4>5. IsOutcome(work.output, o)'
        BY <4>3, <4>4 DEF IsOutcome
      <4> QED
        BY <3>3, <4>4, <4>5 DEF RequestSoFar
    <3> QED
      BY <3>1, <3>4, <3>5
  <2> QED
    BY <2>1, <2>2, <2>3, <2>4 DEF Work
<1>8. ASSUME NEW d \in serving'
      PROVE  RequestSoFar(session[d].operation)'
  <2>1. session'[d].operation = o
    BY <1>1, <1>4, <1>5, <1>8
  <2> QED
    BY <1>7, <2>1
<1> QED
  BY <1>1, <1>3, <1>8 DEF ServiceInv, IsView

LEMMA RespondPreserves ==
  ASSUME ServiceInv, NexusInv', Respond
  PROVE  ServiceInv'
<1>1. /\ session' = [c \in Client |->
                       IF c \in serving THEN Answered(AnswerIn(reply'))
                                        ELSE session[c]]
      /\ serving' = {} /\ work' = NoWork
      /\ UNCHANGED <<mailbox, before>>
  BY DEF Respond, Answer
<1>2. MailboxOfClients'
  <2>1. \A i \in DOMAIN mailbox :
          session'[mailbox[i].from] = session[mailbox[i].from]
    <3> SUFFICES ASSUME NEW i \in DOMAIN mailbox
                 PROVE  session'[mailbox[i].from] = session[mailbox[i].from]
      OBVIOUS
    <3>1. mailbox[i] \in Message /\ mailbox[i].from \notin serving
      BY DEF ServiceInv, MailboxOfClients
    <3> QED
      BY <1>1, <3>1 DEF Message
  <2> QED
    BY <1>1, <2>1 DEF ServiceInv, MailboxOfClients
<1>3. ClientsWait'
  BY <1>1 DEF ServiceInv, ClientsWait, Answered
<1>4. ServingOne'
  BY <1>1 DEF ServingOne
<1> QED
  BY <1>1, <1>2, <1>3, <1>4 DEF ServiceInv, IsView

LEMMA CrashOrOpenPreserves ==
  ASSUME ServiceInv, NexusInv', CrashOrOpen
  PROVE  ServiceInv'
<1>1. /\ mailbox' = <<>> /\ serving' = {}
      /\ session' = [c \in Client |-> IF session[c].at = "submitted"
                                      THEN Answered(Aborted) ELSE session[c]]
      /\ UNCHANGED before
      /\ CrashAndOpen
  BY DEF CrashOrOpen
<1>2. MailboxOfClients'
  BY <1>1 DEF MailboxOfClients
<1>3. ClientsWait'
  BY <1>1 DEF ServiceInv, ClientsWait, Answered, Submitted
<1>4. work' = NoWork
  <2>1. CASE Crash /\ work' = NoWork
    BY <2>1
  <2>2. CASE Open /\ UNCHANGED nexusVars
    BY <2>2 DEF ServiceInv, ServingOne, Open, nexusVars
  <2> QED
    BY <1>1, <2>1, <2>2 DEF CrashAndOpen
<1>5. ServingOne'
  BY <1>1, <1>4 DEF ServingOne
<1> QED
  BY <1>1, <1>2, <1>3, <1>5 DEF ServiceInv, IsView

LEMMA ServiceInvStep ==
  ServiceInv /\ [ServiceNext]_<<vars, nexusVars, serviceVars>> => ServiceInv'
<1> SUFFICES ASSUME ServiceInv,
                    [ServiceNext]_<<vars, nexusVars, serviceVars>>
             PROVE  ServiceInv'
  OBVIOUS
<1>1. CASE ServiceNext
  <2>1. NexusInv'
    BY <1>1, StepsOfNexus, NexusInvStep DEF ServiceInv
  <2> QED
    BY <1>1, <2>1, SubmitPreserves, TakePreserves, WorkPreserves,
       RespondPreserves, CrashOrOpenPreserves
    DEF ServiceNext
<1>2. CASE UNCHANGED <<vars, nexusVars, serviceVars>>
  <2>1. UNCHANGED <<vars, nexusVars>> /\ UNCHANGED vars
        /\ UNCHANGED <<mailbox, serving, session, rows, before>>
        /\ UNCHANGED <<work, call>>
    BY <1>2 DEF serviceVars, vars, nexusVars
  <2>2. NexusInv'
    BY <2>1, NexusInvStep DEF ServiceInv
  <2>3. MailboxOfClients' /\ ClientsWait' /\ ServingOne'
    BY <2>1 DEF ServiceInv, MailboxOfClients, ClientsWait, ServingOne
  <2>4. ASSUME NEW c \in serving'
        PROVE  RequestSoFar(session[c].operation)'
    <3>1. PICK o : o = session[c].operation
      OBVIOUS
    <3>2. RequestSoFar(o)'
      BY <2>1, <2>4, <3>1, RequestKept DEF ServiceInv
    <3>3. session'[c].operation = o
      BY <2>1, <3>1
    <3> QED
      BY <3>2, <3>3
  <2> QED
    BY <2>1, <2>2, <2>3, <2>4 DEF ServiceInv, IsView
<1> QED
  BY <1>1, <1>2

THEOREM ServiceInvCorrect == ServiceSpec => []ServiceInv
BY ServiceInvInit, ServiceInvStep, PTL DEF ServiceSpec

----------------------------------------------------------------------------
(* The results.                                                            *)

(* The requests that the store actor serves run as Nexus.tla says, so that *)
(* what NexusProofs.tla proves of a reply holds for them                   *)
(* (src/src/daemon.rs:209).                                                *)
THEOREM ServiceImplementsNexus == ServiceSpec => NexusSpec
<1>1. ServiceInit => NexusInit
  BY DEF ServiceInit
<1>2. ServiceInv /\ [ServiceNext]_<<vars, nexusVars, serviceVars>>
        => [NexusNext]_<<vars, nexusVars>>
  BY StepsOfNexus
<1> QED
  BY <1>1, <1>2, ServiceInvCorrect, PTL DEF ServiceSpec, NexusSpec

(* A client that waits has its message in the mailbox or in the hands of   *)
(* the actor, and never twice; one that was answered has none              *)
(* (src/src/daemon.rs:223).                                                *)
THEOREM ServiceTypeCorrect == ServiceSpec => []ServiceTypeOK
<1>1. ASSUME ServiceInv
      PROVE  ServiceTypeOK
  <2>1. serving \subseteq Client /\ Cardinality(serving) <= 1
    <3>1. CASE serving = {}
      BY <3>1, FS_EmptySet
    <3>2. ASSUME NEW c \in Client, serving = {c}
          PROVE  serving \subseteq Client /\ Cardinality(serving) <= 1
      BY <3>2, FS_Singleton
    <3> QED
      BY <1>1, <3>1, <3>2 DEF ServiceInv, ServingOne
  <2>2. ASSUME NEW c \in Client
        PROVE  Cardinality({i \in DOMAIN mailbox : mailbox[i].from = c}
                             \cup {0 : s \in serving \cap {c}}) =
                 IF session[c].at = "submitted" THEN 1 ELSE 0
    <3> DEFINE S == {i \in DOMAIN mailbox : mailbox[i].from = c}
                      \cup {0 : s \in serving \cap {c}}
    <3>1. ASSUME NEW i \in DOMAIN mailbox, mailbox[i].from = c
          PROVE  /\ session[c].at = "submitted" /\ c \notin serving
                 /\ \A j \in DOMAIN mailbox : mailbox[j].from = c => i = j
      <4>1. session[c] = Submitted(mailbox[i].operation) /\ c \notin serving
        BY <1>1, <3>1 DEF ServiceInv, MailboxOfClients
      <4>2. \A j \in DOMAIN mailbox : mailbox[j].from = c => i = j
        BY <1>1, <3>1 DEF ServiceInv, MailboxOfClients
      <4> QED
        BY <4>1, <4>2 DEF Submitted
    <3>2. c \in serving => session[c].at = "submitted"
      BY <1>1 DEF ServiceInv, ServingOne
    <3>3. session[c].at = "submitted" =>
            \/ c \in serving
            \/ \E i \in DOMAIN mailbox : mailbox[i].from = c
      BY <1>1 DEF ServiceInv, ClientsWait
    <3>4. CASE session[c].at # "submitted"
      <4>1. S = {}
        BY <3>1, <3>2, <3>4
      <4> QED
        BY <3>4, <4>1, FS_EmptySet
    <3>5. CASE session[c].at = "submitted" /\ c \in serving
      <4>1. S = {0}
        BY <3>1, <3>5
      <4> QED
        BY <3>5, <4>1, FS_Singleton
    <3>6. CASE session[c].at = "submitted" /\ c \notin serving
      <4>1. PICK i \in DOMAIN mailbox : S = {i}
        BY <3>1, <3>3, <3>6
      <4> QED
        BY <3>6, <4>1, FS_Singleton
    <3> QED
      BY <3>4, <3>5, <3>6
  <2> QED
    BY <1>1, <2>1, <2>2 DEF ServiceInv, ServingOne, NexusInv, ServiceTypeOK
<1> QED
  BY <1>1, ServiceInvCorrect, PTL

(* Initially, and in every step.                                           *)
LEMMA AtomicInitially == ServiceInit => Atomic!AtomicInit
BY DEF ServiceInit, NexusInit, Init, Atomic!AtomicInit, View, EmptyView,
       CatalogListing, EmptyTable, Answered, Atomic!Answered

AtomicState == IF serving = {} THEN View ELSE before

LEMMA AtomicStep ==
  ServiceInv /\ [ServiceNext]_<<vars, nexusVars, serviceVars>>
    => [Atomic!AtomicNext]_<<AtomicState, session>>
<1> SUFFICES ASSUME ServiceInv,
                    [ServiceNext]_<<vars, nexusVars, serviceVars>>
             PROVE  [Atomic!AtomicNext]_<<AtomicState, session>>
  OBVIOUS
<1>1. ASSUME NEW c \in Client, NEW o \in Operation, Submit(c, o)
      PROVE  Atomic!Submit(c, o)
  <2>1. View' = View /\ UNCHANGED <<serving, before>>
    BY <1>1, ViewKept DEF Submit, vars, tables
  <2> QED
    BY <1>1, <2>1
    DEF Submit, Atomic!Submit, Atomic!Pending, Submitted, Atomic!Submitted
<1>2. CASE Take
  BY <1>2 DEF Take, AtomicState
<1>3. CASE Work
  <2>1. work.at \in {"arrived", "command", "applying"}
    BY <1>3 DEF Work, DecideCommand, Apply, MethodStep, Complete
  <2>2. serving # {}
    BY <2>1 DEF ServiceInv, ServingOne, NoWork
  <2> QED
    BY <1>3, <2>2 DEF Work, AtomicState
<1>4. ASSUME Respond
      PROVE  \E c \in Client : Atomic!TakePlace(c)
  <2>1. /\ work.at = "completed"
        /\ reply' = IF lastError # None
                    THEN BatchAborted(signalTier, lastError)
                    ELSE IF OutputTier(work.output) # signalTier
                    THEN BatchAborted(signalTier, "NexusReplyTierMismatch")
                    ELSE Committed(signalTier, work.output)
        /\ session' = [c \in Client |->
                         IF c \in serving THEN Answered(AnswerIn(reply'))
                                          ELSE session[c]]
        /\ serving' = {}
        /\ UNCHANGED vars
    BY <1>4 DEF Respond, Answer
  <2>2. PICK c \in Client : serving = {c} /\ session[c].at = "submitted"
    BY <2>1 DEF ServiceInv, ServingOne, NoWork
  <2>3. View' = View
    BY <2>1, ViewKept DEF vars, tables
  <2>4. PICK answer : answer = AnswerIn(reply')
    OBVIOUS
  <2>5. Outcome(View, answer) \in Effects(session[c].operation, before)
    <3>1. CASE lastError # None
      <4>1. answer = Aborted
        BY <2>1, <2>4, <3>1 DEF AnswerIn, BatchAborted
      <4> QED
        BY <2>2, <4>1 DEF ServiceInv, RequestSoFar
    <3>2. CASE lastError = None
      <4>1. OutputTier(work.output) = signalTier
        BY <2>1, <3>2 DEF ServiceInv, NexusInv, ErrorIsKept
      <4>2. answer = AnswerIn(Committed(signalTier, work.output))
        BY <2>1, <2>4, <3>2, <4>1
      <4>3. IsOutcome(work.output, session[c].operation)
        BY <2>1, <2>2, <3>2 DEF ServiceInv, RequestSoFar
      <4> QED
        BY <4>2, <4>3 DEF IsOutcome
    <3> QED
      BY <3>1, <3>2
  <2>6. /\ AtomicState = before /\ AtomicState' = View
        /\ session' = [session EXCEPT ![c] = Answered(answer)]
    <3>1. session = [d \in Client |-> session[d]]
      BY DEF ServiceInv, ClientsWait
    <3> QED
      BY <2>1, <2>2, <2>3, <2>4, <3>1 DEF AtomicState
  <2>7. PICK effect \in Effects(session[c].operation, before) :
          effect = Outcome(View, answer)
    BY <2>5
  <2>8. effect.state = View /\ effect.answer = answer
    BY <2>7 DEF Outcome
  <2>9. c \in Atomic!Pending
    BY <2>2 DEF Atomic!Pending
  <2> QED
    BY <2>6, <2>7, <2>8, <2>9
    DEF Atomic!TakePlace, Answered, Atomic!Answered, AtomicState
<1>5. ASSUME CrashOrOpen
      PROVE  Atomic!Die
  <2>1. /\ serving' = {}
        /\ session' = [c \in Client |-> IF session[c].at = "submitted"
                                        THEN Answered(Aborted)
                                        ELSE session[c]]
        /\ CrashAndOpen
    BY <1>5 DEF CrashOrOpen
  <2>2. View' = View
    BY <2>1, ViewKept DEF CrashAndOpen, Crash, Open, tables
  <2>3. session' = [c \in Client |->
                      IF c \in Atomic!Pending THEN Atomic!Answered(Aborted)
                                              ELSE session[c]]
    BY <2>1 DEF Atomic!Pending, Atomic!Answered, Answered
  <2>4. \/ AtomicState' = AtomicState
        \/ \E c \in Atomic!Pending :
             \E effect \in Effects(session[c].operation, AtomicState) :
               AtomicState' = effect.state
    <3>1. CASE serving = {}
      BY <2>1, <2>2, <3>1 DEF AtomicState
    <3>2. CASE serving # {}
      <4>1. PICK c \in Client : serving = {c} /\ session[c].at = "submitted"
        BY <3>2 DEF ServiceInv, ServingOne
      <4>2. Outcome(View, Aborted) \in
              Effects(session[c].operation, AtomicState)
        BY <3>2, <4>1 DEF ServiceInv, RequestSoFar, AtomicState
      <4>3. Outcome(View, Aborted).state = AtomicState'
        BY <2>1, <2>2 DEF Outcome, AtomicState
      <4>4. c \in Atomic!Pending
        BY <4>1 DEF Atomic!Pending
      <4> QED
        BY <4>2, <4>3, <4>4
    <3> QED
      BY <3>1, <3>2
  <2> QED
    BY <2>3, <2>4 DEF Atomic!Die, AtomicState
<1>6. CASE UNCHANGED <<vars, nexusVars, serviceVars>>
  <2>1. View' = View
    BY <1>6, ViewKept DEF vars, tables
  <2> QED
    BY <1>6, <2>1 DEF serviceVars, AtomicState
<1> QED
  BY <1>1, <1>2, <1>3, <1>4, <1>5, <1>6 DEF ServiceNext, Atomic!AtomicNext

(* The clients of both tiers cannot tell the daemon from one that does     *)
(* each request in one step, whatever the store holds, however many they   *)
(* are and wherever methods fail and processes die: the actor serves one   *)
(* message at a time and keeps it to itself until it is answered           *)
(* (src/src/daemon.rs:194).                                                *)
THEOREM ServiceIsLinearizable == ServiceSpec => Linearizable
<1>1. ServiceInv /\ [ServiceNext]_<<vars, nexusVars, serviceVars>>
        => [Atomic!AtomicNext]_<<IF serving = {} THEN View ELSE before,
                                 session>>
  BY AtomicStep DEF AtomicState
<1> QED
  BY AtomicInitially, <1>1, ServiceInvCorrect, PTL
  DEF ServiceSpec, Linearizable, Atomic!AtomicSpec
============================================================================
