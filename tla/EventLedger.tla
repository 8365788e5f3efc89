---------------------------- MODULE EventLedger ----------------------------
(***************************************************************************)
(* What the repository ledger promises about its events, whatever happens  *)
(* inside the store: an event is recorded under a sequence greater than    *)
(* every sequence ever used, it never changes, and the only way to lose it *)
(* is to be the oldest one that is still retained.  So the retained events *)
(* are always the newest ones, without a gap, and a sequence names one     *)
(* event for ever.                                                         *)
(*                                                                         *)
(* Store.tla implements this specification (StoreRefinement there).        *)
(***************************************************************************)
EXTENDS Naturals

CONSTANTS
  Notification,   \* what a Gitolite receive hook reports of one push
  MaxSequence     \* the largest sequence that can be issued

VARIABLES
  recorded,       \* every event ever recorded
  retained        \* the events the ledger still answers queries from

ledgerVars == <<recorded, retained>>

LedgerInit ==
  /\ recorded = {}
  /\ retained = {}

(* A new event is newer than everything recorded so far.                   *)
Record(event) ==
  /\ \A e \in recorded : e.sequence < event.sequence
  /\ recorded' = recorded \cup {event}
  /\ retained' = retained \cup {event}

(* Retention drops the oldest retained event.                              *)
Forget(event) ==
  /\ \A e \in retained : event.sequence <= e.sequence
  /\ retained' = retained \ {event}
  /\ UNCHANGED recorded

LedgerNext ==
  \/ \E event \in [sequence : 1..MaxSequence, notification : Notification] :
        Record(event)
  \/ \E event \in retained : Forget(event)

LedgerSpec == LedgerInit /\ [][LedgerNext]_ledgerVars

============================================================================
