--------------------------- MODULE AtomicService ---------------------------
(***************************************************************************)
(* A service whose clients each have one operation at a time: every        *)
(* operation takes place at one moment between its submission and its      *)
(* answer, as if no other were going on.  When the service dies, the       *)
(* operations that are not answered fail, and one of them may have taken   *)
(* place, or half taken place.                                             *)
(*                                                                         *)
(* Service.tla implements this specification (Linearizable there).         *)
(***************************************************************************)
CONSTANTS
  Client,
  Operation,
  Initial,         \* the state of the service at first
  Effects(_, _),   \* the outcomes of an operation in a state: records with
                   \* the state after it and the answer to it
  Aborted          \* the answer of an operation that failed

VARIABLES
  state,     \* what operations read and change
  session    \* what each client has submitted, or was answered last

Submitted(operation) == [at |-> "submitted", operation |-> operation]
Answered(answer) == [at |-> "answered", answer |-> answer]

Pending == {c \in Client : session[c].at = "submitted"}

AtomicInit ==
  /\ state = Initial
  /\ session = [c \in Client |-> Answered(Aborted)]

Submit(c, operation) ==
  /\ c \notin Pending
  /\ session' = [session EXCEPT ![c] = Submitted(operation)]
  /\ UNCHANGED state

TakePlace(c) ==
  /\ c \in Pending
  /\ \E effect \in Effects(session[c].operation, state) :
        /\ state' = effect.state
        /\ session' = [session EXCEPT ![c] = Answered(effect.answer)]

Die ==
  /\ \/ UNCHANGED state
     \/ \E c \in Pending :
          \E effect \in Effects(session[c].operation, state) :
             state' = effect.state
  /\ session' = [c \in Client |-> IF c \in Pending THEN Answered(Aborted)
                                                   ELSE session[c]]

AtomicNext ==
  \/ \E c \in Client, operation \in Operation : Submit(c, operation)
  \/ \E c \in Client : TakePlace(c)
  \/ Die

AtomicSpec == AtomicInit /\ [][AtomicNext]_<<state, session>>

============================================================================
