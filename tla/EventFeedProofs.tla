-------------------------- MODULE EventFeedProofs --------------------------
(* What the abstract feed of EventFeed.tla gives its agent, for any        *)
(* notifications and any natural bound.                                    *)
EXTENDS EventFeed, TLAPS

Event == [sequence : 1..MaxSequence, notification : Notification]

(* The cursor is the start, or the sequence of an event that is recorded:  *)
(* whatever is recorded later comes after it.                              *)
PagesInv ==
  /\ recorded \subseteq Event
  /\ retained \subseteq recorded
  /\ delivered \subseteq recorded
  /\ cursor \in Nat
  /\ cursor = 0 \/ \E e \in recorded : e.sequence = cursor
  /\ NothingMissed

LEMMA PagesInvInit == PagesInit => PagesInv
BY DEF PagesInit, LedgerInit, PagesInv, NothingMissed

LEMMA PagesInvStep ==
  ASSUME MaxSequence \in Nat
  PROVE  PagesInv /\ [PagesNext]_<<ledgerVars, pageVars>> => PagesInv'
<1> SUFFICES ASSUME PagesInv, [PagesNext]_<<ledgerVars, pageVars>>
             PROVE  PagesInv'
  OBVIOUS
<1>1. ASSUME NEW event \in Event, Record(event), UNCHANGED pageVars
      PROVE  PagesInv'
  <2>1. cursor < event.sequence
    BY <1>1 DEF PagesInv, Record, Event
  <2>2. (recorded \subseteq Event)' /\ (retained \subseteq recorded)'
        /\ (delivered \subseteq recorded)'
    BY <1>1 DEF PagesInv, Record, pageVars
  <2>3. NothingMissed'
    BY <1>1, <2>1 DEF PagesInv, NothingMissed, Record, pageVars, Event
  <2> QED
    BY <1>1, <2>2, <2>3 DEF PagesInv, Record, pageVars
<1>2. ASSUME NEW event \in retained, Forget(event), UNCHANGED pageVars
      PROVE  PagesInv'
  BY <1>2 DEF PagesInv, NothingMissed, Forget, pageVars
<1>3. ASSUME NEW last \in New, PageUpTo(last)
      PROVE  PagesInv'
  <2>1. /\ last \in recorded
        /\ last.sequence \in Nat
        /\ cursor < last.sequence
    BY DEF PagesInv, New, Event
  <2>2. NothingMissed'
    <3>1. ASSUME NEW e \in retained, e.sequence <= last.sequence
          PROVE  e \in delivered'
      BY <1>3, <3>1 DEF PagesInv, NothingMissed, PageUpTo, New, Event
    <3>2. ASSUME NEW e \in delivered'
          PROVE  e.sequence <= last.sequence
      BY <1>3, <2>1, <3>2 DEF PagesInv, NothingMissed, PageUpTo, Event
    <3> QED
      BY <1>3, <3>1, <3>2 DEF NothingMissed, PageUpTo, ledgerVars
  <2> QED
    BY <1>3, <2>1, <2>2 DEF PagesInv, PageUpTo, New, ledgerVars
<1>4. ASSUME UNCHANGED <<ledgerVars, pageVars>>
      PROVE  PagesInv'
  BY <1>4 DEF PagesInv, NothingMissed, ledgerVars, pageVars
<1> QED
  BY <1>1, <1>2, <1>3, <1>4 DEF PagesNext, LedgerNext, Event

(* Whatever is recorded or forgotten between two pages, the agent has been *)
(* shown every retained event up to its cursor (src/src/lib.rs:675, the    *)
(* since_sequence of an Events query).                                     *)
THEOREM NothingMissedCorrect ==
  ASSUME MaxSequence \in Nat
  PROVE  PagesSpec => []NothingMissed
<1>1. PagesInv => NothingMissed
  BY DEF PagesInv
<1> QED
  BY PagesInvInit, PagesInvStep, <1>1, PTL DEF PagesSpec

============================================================================
