------------------------------ MODULE Service ------------------------------
(***************************************************************************)
(* The store actor between its clients and the store (src/src/daemon.rs):  *)
(* connections put requests of both tiers into its mailbox, and it runs    *)
(* each through the engines of Nexus.tla and the method of Store.tla, one  *)
(* engine commit at a time, before it takes the next.                      *)
(*                                                                         *)
(* Batches are left to Nexus.tla.  Whether the answer gets through is the  *)
(* subject of Connection.tla, and where the spool comes in that of         *)
(* Delivery.tla: for the store a spooled push is one more client with a    *)
(* Receive.                                                                *)
(***************************************************************************)
EXTENDS Nexus

CONSTANT Client    \* connections, each with one request at a time

VARIABLES
  mailbox,    \* requests that the actor has not taken yet
  serving,    \* the clients (at most one) whose request it has taken
  session,    \* what each client has submitted, or was answered last
  rows,       \* what the query in progress has read
  before      \* history: the view when the request in progress was taken

serviceVars == <<mailbox, serving, session, rows, before>>

Submitted(operation) == [at |-> "submitted", operation |-> operation]
Answered(answer) == [at |-> "answered", answer |-> answer]

Aborted == [kind |-> "Aborted"]

(* Store::repository_catalog, as a set of rows.                            *)
CatalogListing ==
  {[repository |-> r, class |-> registrations[r]] :
     r \in DOMAIN registrations}

(* The rows that queries are answered from.                                *)
View == [events |-> events, commits |-> commits, catalog |-> CatalogListing]
EmptyView == [events |-> {}, commits |-> {}, catalog |-> {}]

ServiceInit ==
  /\ NexusInit
  /\ mailbox = <<>>
  /\ serving = {}
  /\ session = [c \in Client |-> Answered(Aborted)]
  /\ rows = EmptyView
  /\ before = EmptyView

----------------------------------------------------------------------------

(* Queries answered from the store without asking the actor.               *)
SubmitQueriesToStore(c, operation) ==
  /\ call.at # "closed"
  /\ session[c].at = "answered"
  /\ IF operation.kind = "Query"
     THEN /\ session' = [session EXCEPT
                           ![c] = Answered([kind |-> "QueryResult",
                                            rows |-> View])]
          /\ UNCHANGED mailbox
     ELSE /\ session' = [session EXCEPT ![c] = Submitted(operation)]
          /\ mailbox' = Append(mailbox, [from |-> c, operation |-> operation])
  /\ UNCHANGED <<vars, nexusVars, serving, rows, before>>

(* A connection asks the store actor and waits for its answer.             *)
Submit(c, operation) ==
  /\ call.at # "closed"
  /\ session[c].at = "answered"
  /\ session' = [session EXCEPT ![c] = Submitted(operation)]
  /\ mailbox' = Append(mailbox, [from |-> c, operation |-> operation])
  /\ UNCHANGED <<vars, nexusVars, serving, rows, before>>

(* A message that stays in the mailbox until it is answered.               *)
TakeLeavingTheMessage ==
  /\ serving = {}
  /\ mailbox # <<>>
  /\ Arrive(Head(mailbox).operation)
  /\ serving' = {Head(mailbox).from}
  /\ before' = View
  /\ UNCHANGED <<mailbox, session, rows>>

(* HandleOrdinaryRequest or HandleMetaRequest: no other message until this *)
(* one is answered.                                                        *)
Take ==
  /\ serving = {}
  /\ mailbox # <<>>
  /\ Arrive(Head(mailbox).operation)
  /\ serving' = {Head(mailbox).from}
  /\ mailbox' = Tail(mailbox)
  /\ before' = View
  /\ UNCHANGED <<session, rows>>

(* The runner, up to its reply; execute_query reads its rows at once.      *)
Work ==
  /\ \/ DecideCommand /\ UNCHANGED rows
     \/ /\ Apply
        /\ rows' = IF work.operation.kind = "Query" THEN View ELSE rows
     \/ MethodStep /\ UNCHANGED rows
     \/ Complete /\ UNCHANGED rows
  /\ UNCHANGED <<mailbox, serving, session, before>>

(* What the client reads in the reply frame.                               *)
AnswerIn(frame) ==
  IF frame.frame = "aborted" THEN Aborted
  ELSE CASE frame.output = "QueryResult" ->
              [kind |-> "QueryResult", rows |-> rows]
         [] frame.output = "EventRecorded" ->
              [kind |-> "EventRecorded", sequence |-> call.event.sequence]
         [] OTHER -> [kind |-> frame.output]

Respond ==
  /\ Answer
  /\ session' = [c \in Client |->
                   IF c \in serving THEN Answered(AnswerIn(reply'))
                                    ELSE session[c]]
  /\ serving' = {}
  /\ UNCHANGED <<mailbox, rows, before>>

(* The mailbox and the request in progress die with the process.           *)
CrashOrOpen ==
  /\ CrashAndOpen
  /\ mailbox' = <<>>
  /\ serving' = {}
  /\ session' = [c \in Client |-> IF session[c].at = "submitted"
                                  THEN Answered(Aborted) ELSE session[c]]
  /\ UNCHANGED <<rows, before>>

ServiceNext ==
  \/ \E c \in Client, operation \in Operation : Submit(c, operation)
  \/ Take
  \/ Work
  \/ Respond
  \/ CrashOrOpen

ServiceSpec == ServiceInit /\ [][ServiceNext]_<<vars, nexusVars, serviceVars>>

----------------------------------------------------------------------------
(* Properties.                                                             *)

(* A client waits exactly while its request is in the mailbox, once, or in *)
(* the hands of the actor.                                                 *)
ServiceTypeOK ==
  /\ NexusTypeOK
  /\ serving \subseteq Client /\ Cardinality(serving) <= 1
  /\ serving = {} <=> work = NoWork
  /\ \A c \in Client :
       Cardinality({i \in DOMAIN mailbox : mailbox[i].from = c}
                     \cup {0 : s \in serving \cap {c}}) =
         IF session[c].at = "submitted" THEN 1 ELSE 0

(* The outcomes an operation may have, as its caller sees them.            *)
Outcome(state, answer) == [state |-> state, answer |-> answer]

(* A push of which `n' commits are stored.                                 *)
With(state, event, list, n) ==
  [events |-> state.events \cup {event},
   commits |-> state.commits \cup {CommitRow(event, list[i]) : i \in 1..n},
   catalog |-> state.catalog]

(* An observation under a later sequence: the event and all its commits,   *)
(* or after a failure the event and the first of them, or nothing.         *)
Observation(notification, list, state) ==
  LET later == {s \in Sequence : \A e \in state.events : e.sequence < s}
      pushes == {[sequence |-> s, notification |-> notification] : s \in later}
  IN  {Outcome(state, Aborted)}
        \cup {Outcome(With(state, event, list, n), Aborted) :
                event \in pushes, n \in 0..Len(list)}
        \cup {Outcome(With(state, event, list, Len(list)),
                      [kind |-> "EventRecorded",
                       sequence |-> event.sequence]) : event \in pushes}

WithCatalog(state, listing) ==
  [events |-> state.events, commits |-> state.commits, catalog |-> listing]

(* The rows of the other repositories.                                     *)
Others(state, repository) ==
  {row \in state.catalog : row.repository # repository}

Registering(repository, class, state) ==
  LET row == [repository |-> repository, class |-> class]
      after == WithCatalog(state, Others(state, repository) \cup {row})
  IN  {Outcome(state, Aborted), Outcome(after, Aborted),
       Outcome(after, [kind |-> "Registered"])}

Retiring(repository, state) ==
  LET after == WithCatalog(state, Others(state, repository))
  IN  {Outcome(state, Aborted)}
        \cup IF after = state THEN {}
             ELSE {Outcome(after, Aborted),
                   Outcome(after, [kind |-> "Retired"])}

Effects(operation, state) ==
  CASE operation.kind = "Receive" ->
         Observation(operation.notification, <<>>, state)
    [] operation.kind = "Observe" ->
         Observation(operation.notification, operation.commits, state)
    [] operation.kind = "Register" ->
         Registering(operation.repository, operation.class, state)
    [] operation.kind = "Retire" -> Retiring(operation.repository, state)
    [] operation.kind = "Query" ->
         {Outcome(state, Aborted),
          Outcome(state, [kind |-> "QueryResult", rows |-> state])}
    [] OTHER ->    \* a policy, which no query reads
         {Outcome(state, Aborted),
          Outcome(state, [kind |-> OutputOf(operation)])}

Atomic == INSTANCE AtomicService
            WITH Initial <- EmptyView,
                 state <- IF serving = {} THEN View ELSE before

(* The clients of both tiers cannot tell the daemon from one that does     *)
(* each request in a single step: a query sees every push and registration *)
(* that was acknowledged before it was sent, and of any push all of its    *)
(* commits or, if its request failed, the first of them; it never sees one *)
(* in progress.                                                            *)
Linearizable == Atomic!AtomicSpec

============================================================================
