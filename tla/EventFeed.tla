----------------------------- MODULE EventFeed -----------------------------
(***************************************************************************)
(* An agent that follows the abstract ledger in pages: it asks for what is *)
(* retained past its cursor, and moves the cursor to the last event of the *)
(* page.  A page is not empty and may be cut short, but it leaves out no   *)
(* event before one that it shows.                                         *)
(*                                                                         *)
(* Queries.tla implements this specification (FeedRefinement there).       *)
(***************************************************************************)
EXTENDS EventLedger

VARIABLES
  cursor,      \* the last sequence the agent has seen
  delivered    \* every event the agent has been shown

pageVars == <<cursor, delivered>>

PagesInit ==
  /\ LedgerInit
  /\ cursor = 0
  /\ delivered = {}

New == {e \in retained : cursor < e.sequence}

PageUpTo(last) ==
  /\ cursor' = last.sequence
  /\ delivered' = delivered \cup {e \in New : e.sequence <= last.sequence}
  /\ UNCHANGED ledgerVars

PagesNext ==
  \/ LedgerNext /\ UNCHANGED pageVars
  \/ \E last \in New : PageUpTo(last)

PagesSpec == PagesInit /\ [][PagesNext]_<<ledgerVars, pageVars>>

(* The agent has been shown every retained event up to its cursor, and     *)
(* nothing past it: whatever is recorded or forgotten between two pages,   *)
(* no event slips in behind the cursor.                                    *)
NothingMissed ==
  /\ \A e \in retained : e.sequence <= cursor => e \in delivered
  /\ \A e \in delivered : e.sequence <= cursor

============================================================================
