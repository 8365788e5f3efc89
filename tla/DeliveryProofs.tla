--------------------------- MODULE DeliveryProofs ---------------------------
(* Theorems about Delivery.tla, for any pushes, agents and spool files and *)
(* any number of crashes and failures.                                     *)
EXTENDS Delivery, TLAPS, SequenceTheorems, FiniteSetTheorems

----------------------------------------------------------------------------
(* The inductive invariant.                                                *)

InBox(message) == \E i \in DOMAIN mailbox : mailbox[i] = message

Distinct == \A i, j \in DOMAIN mailbox : mailbox[i] = mailbox[j] => i = j

(* No message is in the mailbox twice, and whoever sent one waits for it.  *)
MailboxInv ==
  /\ Distinct
  /\ \A c \in Client : InBox(Request(c)) => client[c] = "asked"

(* The cell, the mailbox, the pass and the ticker go together.             *)
RuntimeInv ==
  /\ runtime = Empty => mailbox = <<>> /\ pass = NoPass /\ ticker = "off"
  /\ \A c \in Client :
       runtime = Starting(c) =>
         mailbox = <<Ingest>> /\ ticker = "off" /\ client[c] = "waiting"
  /\ runtime = Started => ticker \in {"idle", "asked"}
  /\ ticker = "idle" => ~InBox(Ingest)
  /\ pass # NoPass => mailbox # <<>> /\ Head(mailbox) = Ingest

(* Where a push is.                                                        *)
PushSafe(p) ==
  /\ p \in partial <=> client[p] = "writing"
  /\ p \in spool => client[p] \in {"writing", "done"}
  /\ client[p] = "answered" => Delivered(p)
  /\ client[p] = "done" => Delivered(p) \/ p \in spool

(* A file is removed once it is recorded, and its hook has finished it.    *)
RemovingInv ==
  pass.at = "removing" =>
    /\ First(pass.files) \in Notification
    /\ client[First(pass.files)] = "done"
    /\ Delivered(First(pass.files))

PushInv ==
  /\ \A p \in Notification : PushSafe(p)
  /\ RemovingInv

DeliveryInv ==
  /\ TypeOK
  /\ IsFiniteSet(recorded)
  /\ MailboxInv
  /\ RuntimeInv
  /\ PushInv

----------------------------------------------------------------------------
(* Messages and the mailbox.                                               *)

LEMMA MessagesDiffer ==
  /\ \A c : Request(c) # Ingest
  /\ \A c, d : Request(c) = Request(d) => c = d
BY DEF Request, Ingest

LEMMA ClientsDiffer == Notification \cap Reader = {}
BY DeliveryAssumption

Message == {Request(c) : c \in Client} \cup {Ingest}

LEMMA TakeHead ==
  ASSUME mailbox \in Seq(Message), Distinct, mailbox # <<>>,
         mailbox' = Tail(mailbox)
  PROVE  /\ mailbox' \in Seq(Message) /\ Distinct'
         /\ InBox(Head(mailbox))
         /\ \A m : InBox(m)' => InBox(m) /\ m # Head(mailbox)
<1>1. /\ mailbox' \in Seq(Message)
      /\ DOMAIN mailbox = 1..Len(mailbox)
      /\ Len(mailbox) \in Nat \ {0}
      /\ Head(mailbox) = mailbox[1]
      /\ Len(mailbox') = Len(mailbox) - 1
      /\ \A i \in 1..(Len(mailbox) - 1) : mailbox'[i] = mailbox[i + 1]
  BY HeadTailProperties
<1>2. DOMAIN mailbox' = 1..(Len(mailbox) - 1)
  BY <1>1
<1>3. ASSUME NEW i \in DOMAIN mailbox'
      PROVE  /\ i \in Int /\ i + 1 \in DOMAIN mailbox /\ i + 1 # 1
             /\ mailbox'[i] = mailbox[i + 1]
  BY <1>1, <1>2
<1>4. 1 \in DOMAIN mailbox
  BY <1>1
<1>5. Distinct'
  <2>1. ASSUME NEW i \in DOMAIN mailbox', NEW j \in DOMAIN mailbox',
               mailbox'[i] = mailbox'[j]
        PROVE  i = j
    <3>1. i + 1 = j + 1
      BY <1>3, <2>1 DEF Distinct
    <3> QED
      BY <1>3, <3>1
  <2> QED
    BY <2>1 DEF Distinct
<1>6. ASSUME NEW m, NEW i \in DOMAIN mailbox', mailbox'[i] = m
      PROVE  InBox(m) /\ m # Head(mailbox)
  BY <1>1, <1>3, <1>4, <1>6 DEF InBox, Distinct
<1> QED
  BY <1>1, <1>4, <1>5, <1>6 DEF InBox

LEMMA PutLast ==
  ASSUME mailbox \in Seq(Message), Distinct, NEW new \in Message,
         ~InBox(new), mailbox' = Append(mailbox, new)
  PROVE  /\ mailbox' \in Seq(Message) /\ Distinct'
         /\ \A m : InBox(m)' => m = new \/ InBox(m)
         /\ mailbox # <<>> => Head(mailbox') = Head(mailbox)
         /\ mailbox' # <<>>
<1>1. /\ mailbox' \in Seq(Message)
      /\ DOMAIN mailbox' = 1..(Len(mailbox) + 1)
      /\ \A i \in 1..Len(mailbox) : mailbox'[i] = mailbox[i]
      /\ mailbox'[Len(mailbox) + 1] = new
      /\ DOMAIN mailbox = 1..Len(mailbox)
      /\ Len(mailbox) \in Nat
  BY AppendProperties
<1>2. \A i \in DOMAIN mailbox' :
        i \in DOMAIN mailbox \/ i = Len(mailbox) + 1
  BY <1>1
<1>3. Distinct'
  BY <1>1, <1>2 DEF Distinct, InBox
<1>4. \A m : InBox(m)' => m = new \/ InBox(m)
  BY <1>1, <1>2 DEF InBox
<1>5. mailbox # <<>> => Head(mailbox') = Head(mailbox)
  BY <1>1
<1> QED
  BY <1>1, <1>3, <1>4, <1>5

(* Recording only adds to what is recorded.                                *)
LEMMA RecordPushAdds ==
  ASSUME TypeOK, IsFiniteSet(recorded), NEW push \in Notification,
         RecordPush(push)
  PROVE  /\ recorded' \subseteq [sequence : 1..MaxSequence,
                                 notification : Notification]
         /\ retained' = recorded'
         /\ IsFiniteSet(recorded')
         /\ Delivered(push)'
         /\ \A p : Delivered(p) => Delivered(p)'
<1> DEFINE event == [sequence |-> NextSequence, notification |-> push]
<1>1. NextSequence \in 1..MaxSequence
  <2>1. Cardinality(recorded) \in Nat
    BY FS_CardinalityType
  <2> QED
    BY <2>1, DeliveryAssumption DEF RecordPush, NextSequence
<1>2. recorded' = recorded \cup {event} /\ retained' = recorded'
  BY DEF RecordPush, Record, TypeOK
<1>3. IsFiniteSet(recorded')
  BY <1>2, FS_AddElement
<1>4. event \in [sequence : 1..MaxSequence, notification : Notification]
  BY <1>1
<1>5. recorded' \subseteq [sequence : 1..MaxSequence,
                          notification : Notification]
  BY <1>2, <1>4 DEF TypeOK
<1>6. Delivered(push)'
  <2>1. event \in recorded' /\ event.notification = push
    BY <1>2
  <2> HIDE DEF event
  <2> QED
    BY <2>1 DEF Delivered
<1>7. \A p : Delivered(p) => Delivered(p)'
  BY <1>2 DEF Delivered
<1> QED
  BY <1>2, <1>3, <1>5, <1>6, <1>7

----------------------------------------------------------------------------
(* The invariant is inductive.                                             *)

LEMMA DeliveryInvInit == Init => DeliveryInv
<1> SUFFICES ASSUME Init PROVE DeliveryInv
  OBVIOUS
<1> USE DEF Init, LedgerInit, NoPass, Empty, Started, Starting
<1>1. TypeOK
  <2>1. mailbox \in Seq(Message)
    OBVIOUS
  <2>2. client \in [Client -> {"new", "waiting", "asked", "answered",
                              "failed", "spooling", "writing", "done"}]
    OBVIOUS
  <2>3. pass \in {NoPass} /\ runtime \in {Empty, Started}
    OBVIOUS
  <2>4. 0 \in 0..MaxCrashes /\ 0 \in 0..MaxFailures
    BY DeliveryAssumption
  <2>5. /\ recorded = {} /\ retained = {} /\ spool = {} /\ partial = {}
        /\ process = "down" /\ ticker = "off" /\ held = FALSE
        /\ crashes = 0 /\ failures = 0
    OBVIOUS
  <2> HIDE DEF Init, LedgerInit, NoPass, Empty, Started, Starting
  <2> QED
    BY <2>1, <2>2, <2>3, <2>4, <2>5 DEF TypeOK, Message
<1>2. IsFiniteSet(recorded)
  BY FS_EmptySet
<1>3. MailboxInv
  BY DEF MailboxInv, Distinct, InBox
<1>4. RuntimeInv
  BY DEF RuntimeInv
<1>5. PushInv
  BY DEF PushInv, PushSafe, RemovingInv, Client
<1> QED
  BY <1>1, <1>2, <1>3, <1>4, <1>5 DEF DeliveryInv

(* A client gets on by itself, which it does not while it is asking.       *)
LEMMA ClientSteps ==
  ASSUME DeliveryInv, NEW c \in Client,
         Submit(c) \/ Receive(c) \/ ReplyLost(c) \/ OpenFails(c)
  PROVE  DeliveryInv'
<1>1. /\ UNCHANGED <<ledgerVars, process, runtime, mailbox, pass, ticker,
                     held, spool, partial, crashes>>
      /\ failures' \in 0..MaxFailures
  BY DeliveryAssumption
  DEF DeliveryInv, TypeOK, Submit, Receive, ReplyLost, OpenFails, Failure,
      daemonVars, spoolVars, faultVars
<1>2. PICK s \in {"waiting", "spooling", "done", "failed"} :
        /\ client' = [client EXCEPT ![c] = s]
        /\ client[c] \in {"new", "done", "answered", "failed", "waiting"}
        /\ s = "done" => c \in Reader \/ Delivered(c)
        /\ client[c] = "done" => c \in Reader
        /\ client[c] = "waiting" => runtime = Empty
  BY ClientsDiffer
  DEF DeliveryInv, PushInv, PushSafe, TypeOK, Submit, Receive, ReplyLost,
      OpenFails, AfterFailure, Client
<1> USE DEF ledgerVars
<1>3. client' \in [Client -> {"new", "waiting", "asked", "answered",
                              "failed", "spooling", "writing", "done"}]
  BY <1>2 DEF DeliveryInv, TypeOK
<1>4. TypeOK' /\ IsFiniteSet(recorded)'
  BY <1>1, <1>3 DEF DeliveryInv, TypeOK
<1>5. \A d \in Client :
        /\ client[d] = "asked" => client'[d] = "asked"
        /\ client[d] = "waiting" /\ runtime # Empty => client'[d] = "waiting"
  BY <1>2 DEF DeliveryInv, TypeOK
<1>6. MailboxInv'
  BY <1>1, <1>5 DEF DeliveryInv, MailboxInv, Distinct, InBox
<1>7. RuntimeInv'
  BY <1>1, <1>5 DEF DeliveryInv, RuntimeInv, InBox, Empty, Starting
<1>8. ASSUME NEW p \in Notification
      PROVE  PushSafe(p)'
  BY <1>1, <1>2, ClientsDiffer
  DEF DeliveryInv, PushInv, PushSafe, TypeOK, Delivered, Client
<1>9. RemovingInv'
  BY <1>1, <1>2, ClientsDiffer
  DEF DeliveryInv, PushInv, RemovingInv, TypeOK, Delivered, Client
<1> QED
  BY <1>4, <1>6, <1>7, <1>8, <1>9 DEF DeliveryInv, PushInv

(* A hook leaves a spool file.                                             *)
LEMMA SpoolFileSteps ==
  ASSUME DeliveryInv, NEW push \in Notification,
         BeginSpoolFile(push) \/ FinishSpoolFile(push)
  PROVE  DeliveryInv'
<1>1. UNCHANGED <<ledgerVars, process, runtime, mailbox, pass, ticker, held,
                  crashes, failures>>
  BY DEF BeginSpoolFile, FinishSpoolFile, daemonVars, faultVars
<1>2. PICK s \in {"writing", "done"} :
        /\ client' = [client EXCEPT ![push] = s]
        /\ client[push] \in {"spooling", "writing"}
        /\ s = "writing" => /\ spool' = spool \cup {push}
                            /\ partial' = partial \cup {push}
        /\ s = "done" => /\ spool' = spool
                         /\ partial' = partial \ {push}
                         /\ client[push] = "writing"
  BY DEF BeginSpoolFile, FinishSpoolFile
<1> USE DEF ledgerVars
<1>3. client' \in [Client -> {"new", "waiting", "asked", "answered",
                              "failed", "spooling", "writing", "done"}]
  BY <1>2 DEF DeliveryInv, TypeOK
<1>4. spool' \subseteq File /\ partial' \subseteq spool' \cap Notification
  BY <1>2 DEF DeliveryInv, TypeOK, File
<1>5. TypeOK' /\ IsFiniteSet(recorded)'
  BY <1>1, <1>3, <1>4 DEF DeliveryInv, TypeOK
<1>6. \A d \in Client :
        client[d] \in {"asked", "waiting"} => client'[d] = client[d]
  BY <1>2 DEF DeliveryInv, TypeOK
<1>7. MailboxInv'
  BY <1>1, <1>6 DEF DeliveryInv, MailboxInv, Distinct, InBox
<1>8. RuntimeInv'
  BY <1>1, <1>6 DEF DeliveryInv, RuntimeInv, InBox
<1>9. ASSUME NEW p \in Notification
      PROVE  PushSafe(p)'
  BY <1>1, <1>2 DEF DeliveryInv, PushInv, PushSafe, TypeOK, Delivered, Client
<1>10. RemovingInv'
  BY <1>1, <1>2 DEF DeliveryInv, PushInv, RemovingInv, TypeOK, Delivered, Client
<1> QED
  BY <1>5, <1>7, <1>8, <1>9, <1>10 DEF DeliveryInv, PushInv

(* Files that do not decode are none of the pushes.                        *)
LEMMA MalformedFileSteps ==
  ASSUME DeliveryInv, NEW file \in Malformed,
         WriteMalformedFile(file) \/ TakeMalformedFile(file)
  PROVE  DeliveryInv'
<1>1. UNCHANGED <<recorded, retained, process, runtime, mailbox, pass,
                  ticker, held, partial, client, crashes, failures>>
  BY DEF WriteMalformedFile, TakeMalformedFile, ledgerVars, daemonVars,
         faultVars
<1>2. /\ spool' \subseteq File
      /\ spool' \cap Notification = spool \cap Notification
  BY DeliveryAssumption
  DEF WriteMalformedFile, TakeMalformedFile, DeliveryInv, TypeOK, File
<1>3. TypeOK'
  BY <1>1, <1>2 DEF DeliveryInv, TypeOK
<1>4. MailboxInv' /\ RuntimeInv'
  BY <1>1 DEF DeliveryInv, MailboxInv, RuntimeInv, Distinct, InBox
<1>5. PushInv'
  BY <1>1, <1>2 DEF DeliveryInv, PushInv, PushSafe, RemovingInv, Delivered
<1> QED
  BY <1>1, <1>3, <1>4, <1>5 DEF DeliveryInv

(* A connection finds the cell empty, or filled.                           *)
LEMMA ConnectSteps ==
  ASSUME DeliveryInv, NEW c \in Client, StartRuntime(c) \/ Ask(c)
  PROVE  DeliveryInv'
<1> USE DEF ledgerVars, spoolVars, faultVars
<1>1. CASE StartRuntime(c)
  <2>1. /\ UNCHANGED <<ledgerVars, process, pass, ticker, held, spoolVars,
                       client, faultVars>>
        /\ runtime = Empty /\ runtime' = Starting(c)
        /\ mailbox' = <<Ingest>>
        /\ client[c] = "waiting"
    BY <1>1 DEF StartRuntime
  <2>2. pass = NoPass /\ ticker = "off"
    BY <2>1 DEF DeliveryInv, RuntimeInv
  <2>3. mailbox' \in Seq(Message) /\ DOMAIN mailbox' = {1}
    BY <2>1 DEF Message
  <2>4. TypeOK' /\ IsFiniteSet(recorded)'
    BY <2>1, <2>3 DEF DeliveryInv, TypeOK, Message
  <2>5. MailboxInv'
    BY <2>1, <2>3, MessagesDiffer DEF MailboxInv, Distinct, InBox
  <2>6. RuntimeInv'
    BY <2>1, <2>2, <2>3 DEF RuntimeInv, Starting, Empty, Started
  <2>7. PushInv'
    BY <2>1 DEF DeliveryInv, PushInv, PushSafe, RemovingInv, Delivered
  <2> QED
    BY <2>4, <2>5, <2>6, <2>7 DEF DeliveryInv
<1>2. CASE Ask(c)
  <2>1. /\ UNCHANGED <<ledgerVars, process, runtime, pass, ticker, held,
                       spoolVars, faultVars>>
        /\ client[c] = "waiting" /\ runtime = Started
        /\ mailbox' = Append(mailbox, Request(c))
        /\ client' = [client EXCEPT ![c] = "asked"]
    BY <1>2 DEF Ask
  <2>2. /\ mailbox \in Seq(Message) /\ Distinct /\ ~InBox(Request(c))
        /\ Request(c) \in Message
    BY <2>1 DEF DeliveryInv, TypeOK, MailboxInv, Message
  <2>3. /\ mailbox' \in Seq(Message) /\ Distinct'
        /\ \A m : InBox(m)' => m = Request(c) \/ InBox(m)
        /\ mailbox # <<>> => Head(mailbox') = Head(mailbox)
        /\ mailbox' # <<>>
    BY <2>1, <2>2, PutLast
  <2>4. /\ client' \in [Client -> {"new", "waiting", "asked", "answered",
                                   "failed", "spooling", "writing", "done"}]
        /\ client'[c] = "asked"
        /\ \A d \in Client : d # c => client'[d] = client[d]
    BY <2>1 DEF DeliveryInv, TypeOK
  <2>5. TypeOK' /\ IsFiniteSet(recorded)'
    BY <2>1, <2>3, <2>4 DEF DeliveryInv, TypeOK, Message
  <2>6. MailboxInv'
    BY <2>3, <2>4, MessagesDiffer DEF DeliveryInv, MailboxInv
  <2>7. RuntimeInv'
    BY <2>1, <2>3, MessagesDiffer
    DEF DeliveryInv, RuntimeInv, Starting, Empty, Started
  <2>8. PushInv'
    BY <2>1, <2>4
    DEF DeliveryInv, PushInv, PushSafe, RemovingInv, Delivered, Client
  <2> QED
    BY <2>5, <2>6, <2>7, <2>8 DEF DeliveryInv
<1> QED
  BY <1>1, <1>2

(* Only the hold on the store file, or the process, changes.               *)
LEMMA OtherVariables ==
  ASSUME DeliveryInv, ReleaseStore \/ StartProcess
  PROVE  DeliveryInv'
<1>1. /\ UNCHANGED <<recorded, retained, runtime, mailbox, pass, ticker,
                     spool, partial, client, crashes, failures>>
      /\ held' \in BOOLEAN /\ process' \in {"down", "up"}
  BY DEF ReleaseStore, StartProcess, ledgerVars, spoolVars, faultVars,
         DeliveryInv, TypeOK
<1>2. TypeOK'
  BY <1>1 DEF DeliveryInv, TypeOK
<1>3. MailboxInv' /\ RuntimeInv'
  BY <1>1 DEF DeliveryInv, MailboxInv, RuntimeInv, Distinct, InBox
<1>4. PushInv'
  BY <1>1 DEF DeliveryInv, PushInv, PushSafe, RemovingInv, Delivered
<1> QED
  BY <1>1, <1>2, <1>3, <1>4 DEF DeliveryInv

(* The ticker is idle only while no pass is asked for.                     *)
LEMMA TickStep ==
  ASSUME DeliveryInv, Tick
  PROVE  DeliveryInv'
<1>1. /\ UNCHANGED <<recorded, retained, process, runtime, pass, held, spool,
                     partial, client, crashes, failures>>
      /\ ticker = "idle" /\ ticker' = "asked"
      /\ mailbox' = Append(mailbox, Ingest)
  BY DEF Tick, ledgerVars, spoolVars, faultVars
<1>2. /\ mailbox \in Seq(Message) /\ Distinct /\ ~InBox(Ingest)
      /\ Ingest \in Message
  BY <1>1 DEF DeliveryInv, TypeOK, MailboxInv, RuntimeInv, Message
<1>3. /\ mailbox' \in Seq(Message) /\ Distinct'
      /\ \A m : InBox(m)' => m = Ingest \/ InBox(m)
      /\ mailbox # <<>> => Head(mailbox') = Head(mailbox)
      /\ mailbox' # <<>>
  BY <1>1, <1>2, PutLast
<1>4. TypeOK'
  BY <1>1, <1>3 DEF DeliveryInv, TypeOK, Message
<1>5. MailboxInv'
  BY <1>1, <1>3, MessagesDiffer DEF DeliveryInv, MailboxInv
<1>6. runtime # Empty /\ \A c \in Client : runtime # Starting(c)
  BY <1>1 DEF DeliveryInv, RuntimeInv
<1>7. RuntimeInv'
  BY <1>1, <1>3, <1>6 DEF DeliveryInv, RuntimeInv
<1>8. PushInv'
  BY <1>1 DEF DeliveryInv, PushInv, PushSafe, RemovingInv, Delivered
<1> QED
  BY <1>1, <1>4, <1>5, <1>7, <1>8 DEF DeliveryInv

(* A crash leaves the ledger and the spool directory as they are.          *)
LEMMA CrashStep ==
  ASSUME DeliveryInv, Crash
  PROVE  DeliveryInv'
<1>1. /\ UNCHANGED <<recorded, retained, spool, partial, failures>>
      /\ process' = "down" /\ runtime' = Empty /\ mailbox' = <<>>
      /\ pass' = NoPass /\ ticker' = "off" /\ held' = FALSE
      /\ crashes' \in 0..MaxCrashes
  BY DeliveryAssumption
  DEF Crash, ledgerVars, spoolVars, DeliveryInv, TypeOK
<1>2. /\ client' \in [Client -> {"new", "waiting", "asked", "answered",
                                 "failed", "spooling", "writing", "done"}]
      /\ \A c \in Client :
           \/ client'[c] = "failed"
              /\ client[c] \in {"waiting", "asked", "answered"}
           \/ client'[c] = client[c] /\ client[c] # "answered"
  BY DEF Crash, DeliveryInv, TypeOK
<1>3. mailbox' \in Seq(Message) /\ DOMAIN mailbox' = {}
  BY <1>1
<1>4. TypeOK'
  BY <1>1, <1>2, <1>3 DEF DeliveryInv, TypeOK, Message
<1>5. MailboxInv'
  BY <1>3 DEF MailboxInv, Distinct, InBox
<1>6. RuntimeInv'
  BY <1>1, <1>3 DEF RuntimeInv, InBox, Empty, Started, Starting
<1>7. PushInv'
  BY <1>1, <1>2
  DEF DeliveryInv, PushInv, PushSafe, RemovingInv, Delivered, Client, NoPass
<1> QED
  BY <1>1, <1>4, <1>5, <1>6, <1>7 DEF DeliveryInv

(* The pass, which is the head of the mailbox, goes on to the next file or *)
(* comes to its end.                                                       *)
PassGoesOn ==
  \/ EndPass(TRUE) \/ EndPass(FALSE)
  \/ /\ \E files \in (SUBSET File) \ {{}} : pass' = Recording(files)
     /\ UNCHANGED <<mailbox, runtime, ticker, client, held>>

LEMMA PassGoesOnKeeps ==
  ASSUME DeliveryInv, mailbox # <<>>, Head(mailbox) = Ingest, PassGoesOn
  PROVE  /\ mailbox' \in Seq(Message) /\ MailboxInv' /\ RuntimeInv'
         /\ runtime' \in {Empty, Started} \cup {Starting(c) : c \in Client}
         /\ pass' \in {NoPass} \cup {Recording(files) :
                                    files \in (SUBSET File) \ {{}}}
         /\ ticker' \in {"off", "idle", "asked"} /\ held' \in BOOLEAN
         /\ client' \in [Client -> {"new", "waiting", "asked", "answered",
                                    "failed", "spooling", "writing", "done"}]
         /\ \A c \in Client :
              client'[c] # client[c] =>
                client[c] = "waiting" /\ client'[c] = "failed"
<1>1. /\ mailbox \in Seq(Message) /\ Distinct
      /\ runtime \in {Empty, Started} \cup {Starting(c) : c \in Client}
      /\ ticker \in {"off", "idle", "asked"} /\ held \in BOOLEAN
      /\ client \in [Client -> {"new", "waiting", "asked", "answered",
                                "failed", "spooling", "writing", "done"}]
  BY DEF DeliveryInv, TypeOK, MailboxInv, Message
<1>2. CASE PassGoesOn /\ mailbox' = mailbox /\ client' = client
           /\ runtime' = runtime /\ ticker' = ticker /\ held' = held
           /\ pass' \in {Recording(files) : files \in (SUBSET File) \ {{}}}
  <2>1. MailboxInv'
    BY <1>2 DEF DeliveryInv, MailboxInv, Distinct, InBox
  <2>2. runtime # Empty
    BY DEF DeliveryInv, RuntimeInv
  <2>3. RuntimeInv'
    BY <1>2, <2>2 DEF DeliveryInv, RuntimeInv, InBox
  <2> QED
    BY <1>1, <1>2, <2>1, <2>3
<1>3. CASE EndPass(TRUE) \/ EndPass(FALSE)
  <2>1. mailbox' = Tail(mailbox) /\ pass' = NoPass
    BY <1>3 DEF EndPass
  <2>2. /\ mailbox' \in Seq(Message) /\ Distinct'
        /\ \A m : InBox(m)' => InBox(m) /\ m # Ingest
    BY <1>1, <2>1, TakeHead
  <2>3. \/ /\ runtime # Empty /\ runtime' = Started /\ ticker' = "idle"
           /\ client' = client /\ held' = held
        \/ \E c \in Client :
             /\ runtime = Starting(c) /\ runtime' = Empty /\ held' = TRUE
             /\ client' = [client EXCEPT ![c] = "failed"]
             /\ ticker' = ticker
    BY <1>1, <1>3 DEF EndPass, Empty, Started, Starting
  <2>4. CASE /\ runtime' = Started /\ ticker' = "idle"
             /\ client' = client /\ held' = held
    <3>1. MailboxInv'
      BY <2>2, <2>4 DEF DeliveryInv, MailboxInv
    <3>2. RuntimeInv'
      BY <2>1, <2>2, <2>4
      DEF RuntimeInv, Started, Starting, Empty
    <3> QED
      BY <1>1, <2>1, <2>2, <2>4, <3>1, <3>2
  <2>5. ASSUME NEW c \in Client, runtime = Starting(c), runtime' = Empty,
               client' = [client EXCEPT ![c] = "failed"],
               held' = TRUE, ticker' = ticker
        PROVE  /\ MailboxInv' /\ RuntimeInv' /\ client[c] = "waiting"
    <3>1. mailbox = <<Ingest>> /\ ticker = "off" /\ client[c] = "waiting"
      BY <2>5 DEF DeliveryInv, RuntimeInv
    <3>2. mailbox' = <<>> /\ DOMAIN mailbox' = {}
      BY <2>1, <3>1
    <3>3. MailboxInv'
      BY <3>2 DEF MailboxInv, Distinct, InBox
    <3>4. RuntimeInv'
      BY <2>1, <2>5, <3>1, <3>2 DEF RuntimeInv, Started, Starting, Empty, InBox
    <3> QED
      BY <3>1, <3>3, <3>4
  <2> QED
    BY <1>1, <2>1, <2>2, <2>3, <2>4, <2>5
<1> QED
  BY <1>2, <1>3 DEF PassGoesOn

(* What a step of the pass does to the pass itself.                        *)
LEMMA PassStepGoesOn ==
  ASSUME DeliveryInv, BeginPass \/ RemoveFile \/ DecodeFails \/ PassFails
  PROVE  PassGoesOn
<1>1. ASSUME NEW files \in SUBSET File, Continue(files)
      PROVE  PassGoesOn
  <2>1. CASE files = {}
    BY <1>1, <2>1 DEF Continue, PassGoesOn
  <2>2. CASE files # {}
    <3>1. /\ pass' = Recording(files)
          /\ UNCHANGED <<mailbox, runtime, ticker, client, held>>
      BY <1>1, <2>2 DEF Continue
    <3>2. files \in (SUBSET File) \ {{}}
      BY <2>2
    <3> QED
      BY <3>1, <3>2 DEF PassGoesOn
  <2> QED
    BY <2>1, <2>2
<1>2. spool \in SUBSET File
  BY DEF DeliveryInv, TypeOK
<1>3. pass # NoPass => /\ pass.files \in SUBSET File
                       /\ pass.at \in {"recording", "removing"}
  BY DEF DeliveryInv, TypeOK
<1>4. pass.at \in {"recording", "removing"} => pass # NoPass
  BY DEF NoPass
<1> QED
  BY <1>1, <1>2, <1>3, <1>4
  DEF BeginPass, RemoveFile, DecodeFails, PassFails, PassGoesOn

(* A pass begins, goes on with the next file, or ends.                     *)
LEMMA PassSteps ==
  ASSUME DeliveryInv, BeginPass \/ RemoveFile \/ DecodeFails \/ PassFails
  PROVE  DeliveryInv'
<1>1. pass # NoPass => mailbox # <<>> /\ Head(mailbox) = Ingest
  BY DEF DeliveryInv, RuntimeInv
<1>2. pass # NoPass => /\ pass.files \in SUBSET File
                       /\ pass.at \in {"recording", "removing"}
  BY DEF DeliveryInv, TypeOK
<1>3. pass.at \in {"recording", "removing"} => pass # NoPass
  BY DEF NoPass
<1>4. mailbox # <<>> /\ Head(mailbox) = Ingest
  BY <1>1, <1>3 DEF BeginPass, Taking, RemoveFile, DecodeFails, PassFails
<1>5. PassGoesOn
  BY PassStepGoesOn
<1>6. /\ UNCHANGED <<recorded, retained, process, partial, crashes>>
      /\ failures' \in 0..MaxFailures
  <2>1. failures \in 0..MaxFailures
    BY DEF DeliveryInv, TypeOK
  <2>2. CASE BeginPass \/ RemoveFile \/ DecodeFails
    BY <2>1, <2>2
    DEF BeginPass, RemoveFile, DecodeFails, ledgerVars, spoolVars, faultVars
  <2>3. CASE PassFails
    BY <2>1, <2>3, DeliveryAssumption
    DEF PassFails, Failure, ledgerVars, spoolVars
  <2> QED
    BY <2>2, <2>3
<1>7. \/ spool' = spool
      \/ pass.at = "removing" /\ spool' = spool \ {First(pass.files)}
  BY DEF BeginPass, RemoveFile, DecodeFails, PassFails, spoolVars
<1>8. /\ mailbox' \in Seq(Message) /\ MailboxInv' /\ RuntimeInv'
      /\ runtime' \in {Empty, Started} \cup {Starting(c) : c \in Client}
      /\ pass' \in {NoPass} \cup {Recording(files) :
                                 files \in (SUBSET File) \ {{}}}
      /\ ticker' \in {"off", "idle", "asked"} /\ held' \in BOOLEAN
      /\ client' \in [Client -> {"new", "waiting", "asked", "answered",
                                 "failed", "spooling", "writing", "done"}]
      /\ \A c \in Client :
           client'[c] # client[c] =>
             client[c] = "waiting" /\ client'[c] = "failed"
  BY <1>4, <1>5, PassGoesOnKeeps
<1>9. /\ pass' \in {NoPass} \cup [at : {"recording", "removing"},
                                 files : (SUBSET File) \ {{}}]
      /\ pass'.at # "removing"
  BY <1>8 DEF Recording, NoPass
<1>10. /\ spool' \subseteq File
       /\ partial' \subseteq spool' \cap Notification
  BY <1>6, <1>7
  DEF DeliveryInv, TypeOK, PushInv, PushSafe, RemovingInv
<1>11. TypeOK'
  BY <1>6, <1>8, <1>9, <1>10 DEF DeliveryInv, TypeOK, Message
<1>12. ASSUME NEW p \in Notification
       PROVE  PushSafe(p)'
  <2>1. \/ spool' = spool
        \/ spool' = spool \ {p} /\ Delivered(p)
        \/ (p \in spool' <=> p \in spool)
    BY <1>7 DEF DeliveryInv, PushInv, RemovingInv
  <2> QED
    BY <1>6, <1>8, <2>1
    DEF DeliveryInv, PushInv, PushSafe, Delivered, Client
<1>13. PushInv'
  BY <1>9, <1>12 DEF PushInv, RemovingInv
<1> QED
  BY <1>6, <1>8, <1>11, <1>13 DEF DeliveryInv

(* The event of a file is committed before the file is removed.            *)
LEMMA RecordFileStep ==
  ASSUME DeliveryInv, RecordFile
  PROVE  DeliveryInv'
<1>0. PICK file \in Notification : file = First(pass.files)
  BY DEF RecordFile, Decodes
<1>1. /\ pass.at = "recording" /\ pass' = Removing(pass.files)
      /\ file \in spool /\ file \in Notification /\ file \notin partial
      /\ RecordPush(file)
      /\ UNCHANGED <<process, runtime, mailbox, ticker, held, spool, partial,
                     client, crashes, failures>>
  BY <1>0 DEF RecordFile, Decodes, spoolVars, faultVars
<1>2. /\ recorded' \subseteq [sequence : 1..MaxSequence,
                              notification : Notification]
      /\ retained' = recorded'
      /\ IsFiniteSet(recorded')
      /\ Delivered(file)'
      /\ \A p : Delivered(p) => Delivered(p)'
  BY <1>1, RecordPushAdds DEF DeliveryInv
<1>3. pass # NoPass /\ pass' # NoPass
  BY <1>1 DEF NoPass, Removing
<1>4. /\ pass' \in [at : {"recording", "removing"},
                   files : (SUBSET File) \ {{}}]
      /\ pass'.files = pass.files
  BY <1>1, <1>3 DEF DeliveryInv, TypeOK, Removing
<1>5. TypeOK'
  BY <1>1, <1>2, <1>4 DEF DeliveryInv, TypeOK
<1>6. MailboxInv'
  BY <1>1 DEF DeliveryInv, MailboxInv, Distinct, InBox
<1>7. RuntimeInv'
  BY <1>1, <1>3 DEF DeliveryInv, RuntimeInv, InBox
<1>8. \A p \in Notification : PushSafe(p)'
  BY <1>1, <1>2 DEF DeliveryInv, PushInv, PushSafe
<1>9. client[file] = "done"
  <2>1. PushSafe(file)
    BY <1>1 DEF DeliveryInv, PushInv
  <2> QED
    BY <1>1, <2>1 DEF PushSafe
<1>10. RemovingInv'
  <2>1. First(pass'.files) = file
    BY <1>0, <1>4
  <2> QED
    BY <1>1, <1>2, <1>9, <2>1 DEF RemovingInv
<1> QED
  BY <1>2, <1>5, <1>6, <1>7, <1>8, <1>10 DEF DeliveryInv, PushInv

(* The reply to a request, which is the head of the mailbox.               *)
LEMMA RequestSteps ==
  ASSUME DeliveryInv, NEW c \in Client, NEW answer \in {"answered", "failed"},
         Taking(Request(c)), Reply(c, answer),
         \/ UNCHANGED ledgerVars
         \/ c \in Notification /\ RecordPush(c),
         answer = "answered" /\ c \in Notification => RecordPush(c),
         crashes' = crashes, failures' \in 0..MaxFailures
  PROVE  DeliveryInv'
<1>1. /\ mailbox # <<>> /\ pass = NoPass /\ Head(mailbox) = Request(c)
      /\ mailbox' = Tail(mailbox)
      /\ client' = [client EXCEPT ![c] = answer]
      /\ UNCHANGED <<process, runtime, pass, ticker, held, spool, partial>>
  BY DEF Taking, Reply, spoolVars
<1>2. mailbox \in Seq(Message) /\ Distinct
  BY DEF DeliveryInv, TypeOK, MailboxInv, Message
<1>3. /\ mailbox' \in Seq(Message) /\ Distinct' /\ InBox(Request(c))
      /\ \A m : InBox(m)' => InBox(m) /\ m # Request(c)
  BY <1>1, <1>2, TakeHead
<1>4. client[c] = "asked"
  BY <1>3 DEF DeliveryInv, MailboxInv
<1>5. /\ client' \in [Client -> {"new", "waiting", "asked", "answered",
                                 "failed", "spooling", "writing", "done"}]
      /\ client'[c] = answer
      /\ \A d \in Client : d # c => client'[d] = client[d]
  BY <1>1 DEF DeliveryInv, TypeOK
<1>6. /\ recorded' \subseteq [sequence : 1..MaxSequence,
                              notification : Notification]
      /\ retained' = recorded'
      /\ IsFiniteSet(recorded')
      /\ c \in Notification /\ answer = "answered" => Delivered(c)'
      /\ \A p : Delivered(p) => Delivered(p)'
  <2>1. CASE UNCHANGED ledgerVars /\ ~RecordPush(c)
    BY <2>1 DEF DeliveryInv, TypeOK, ledgerVars, Delivered
  <2>2. CASE c \in Notification /\ RecordPush(c)
    BY <2>2, RecordPushAdds DEF DeliveryInv
  <2>3. CASE c \notin Notification /\ UNCHANGED ledgerVars
    BY <2>3 DEF DeliveryInv, TypeOK, ledgerVars, Delivered
  <2> QED
    BY <2>1, <2>2, <2>3
<1>7. TypeOK'
  BY <1>1, <1>3, <1>5, <1>6 DEF DeliveryInv, TypeOK, Message
<1>8. MailboxInv'
  BY <1>3, <1>5, MessagesDiffer DEF DeliveryInv, MailboxInv
<1>9. RuntimeInv'
  <2>1. \A d \in Client : runtime # Starting(d)
    <3>1. ASSUME NEW d \in Client, runtime = Starting(d)
          PROVE  Head(mailbox) = Ingest
      BY <3>1 DEF DeliveryInv, RuntimeInv
    <3> QED
      BY <1>1, <3>1, MessagesDiffer
  <2>2. runtime # Empty
    BY <1>1 DEF DeliveryInv, RuntimeInv
  <2> QED
    BY <1>1, <1>3, <2>1, <2>2 DEF DeliveryInv, RuntimeInv
<1>10. PushInv'
  <2>1. pass.at # "removing"
    BY <1>1 DEF NoPass
  <2>2. ASSUME NEW p \in Notification
        PROVE  PushSafe(p)'
    BY <1>1, <1>4, <1>5, <1>6 DEF DeliveryInv, PushInv, PushSafe, Client
  <2> QED
    BY <1>1, <2>1, <2>2 DEF PushInv, RemovingInv
<1> QED
  BY <1>6, <1>7, <1>8, <1>9, <1>10 DEF DeliveryInv

----------------------------------------------------------------------------
(* The theorems.                                                           *)

LEMMA DeliveryInvStep == DeliveryInv /\ [Next]_vars => DeliveryInv'
<1> SUFFICES ASSUME DeliveryInv, [Next]_vars PROVE DeliveryInv'
  OBVIOUS
<1>1. CASE UNCHANGED vars
  <2>1. UNCHANGED <<recorded, retained, process, runtime, mailbox, pass,
                    ticker, held, spool, partial, client, crashes, failures>>
    BY <1>1 DEF vars, ledgerVars, daemonVars, spoolVars, faultVars
  <2> QED
    BY <2>1 DEF DeliveryInv, TypeOK, MailboxInv, RuntimeInv, PushInv, PushSafe,
                RemovingInv, Distinct, InBox, Delivered
<1>2. ASSUME NEW c \in Client,
             Submit(c) \/ Receive(c) \/ ReplyLost(c) \/ Connect(c)
      PROVE  DeliveryInv'
  BY <1>2, ClientSteps, ConnectSteps DEF Connect
<1>3. CASE Handle
  <2>1. ASSUME NEW p \in Notification, HandlePush(p) \/ HandlePushFails(p)
        PROVE  DeliveryInv'
    <3>1. PICK answer \in {"answered", "failed"} :
            /\ Taking(Request(p)) /\ Reply(p, answer)
            /\ UNCHANGED ledgerVars \/ RecordPush(p)
            /\ answer = "answered" => RecordPush(p)
            /\ crashes' = crashes /\ failures' \in 0..MaxFailures
      BY <2>1, DeliveryAssumption
      DEF HandlePush, HandlePushFails, Failure, faultVars, DeliveryInv, TypeOK
    <3> QED
      BY <3>1, RequestSteps DEF Client
  <2>2. ASSUME NEW r \in Reader, HandleQuery(r) \/ HandleQueryFails(r)
        PROVE  DeliveryInv'
    <3>1. PICK answer \in {"answered", "failed"} :
            /\ Taking(Request(r)) /\ Reply(r, answer)
            /\ UNCHANGED ledgerVars
            /\ crashes' = crashes /\ failures' \in 0..MaxFailures
      BY <2>2, DeliveryAssumption
      DEF HandleQuery, HandleQueryFails, Failure, faultVars, DeliveryInv, TypeOK
    <3>2. r \in Client /\ r \notin Notification
      BY ClientsDiffer DEF Client
    <3> QED
      BY <3>1, <3>2, RequestSteps
  <2> QED
    BY <1>3, <2>1, <2>2, PassSteps, RecordFileStep DEF Handle
<1> QED
  BY <1>1, <1>2, <1>3, SpoolFileSteps, MalformedFileSteps, OtherVariables,
     TickStep, CrashStep DEF Next

(* The invariant, for every instance of the daemon.                        *)
THEOREM DeliveryInvCorrect == Spec => []DeliveryInv
<1> QED
  BY DeliveryInvInit, DeliveryInvStep, PTL DEF Spec

(* Everything keeps its type.                                              *)
THEOREM DeliveryTypeCorrect == Spec => []TypeOK
<1>1. DeliveryInv => TypeOK
  BY DEF DeliveryInv
<1> QED
  BY <1>1, DeliveryInvCorrect, PTL

(* The push of a hook that has finished is in the ledger, or in a complete *)
(* spool file (RemoveFile comes after RecordFile), whatever crashed or     *)
(* failed in between.                                                      *)
THEOREM NoPushLostCorrect == Spec => []NoPushLost
<1>1. DeliveryInv => NoPushLost
  BY DEF DeliveryInv, PushInv, PushSafe, NoPushLost
<1> QED
  BY <1>1, DeliveryInvCorrect, PTL

(* The ticker and the first pass never have two passes in the mailbox.     *)
THEOREM OneIngestAtATimeCorrect == Spec => []OneIngestAtATime
<1> DEFINE Ingests == {i \in DOMAIN mailbox : mailbox[i] = Ingest}
<1>1. DeliveryInv => OneIngestAtATime
  <2> SUFFICES ASSUME DeliveryInv PROVE Cardinality(Ingests) <= 1
    BY DEF OneIngestAtATime
  <2>1. \A i, j \in Ingests : i = j
    BY DEF DeliveryInv, MailboxInv, Distinct
  <2>2. CASE Ingests = {}
    BY <2>2, FS_EmptySet
  <2>3. CASE Ingests # {}
    <3>1. PICK i : Ingests = {i}
      BY <2>1, <2>3
    <3> QED
      BY <3>1, FS_Singleton
  <2> QED
    BY <2>2, <2>3
<1> QED
  BY <1>1, DeliveryInvCorrect, PTL

----------------------------------------------------------------------------
(* Recorded once, and once more at most for every fault.  A push whose     *)
(* last recording counts is neither submitted again nor in a spool file,   *)
(* except in the one that the pass is about to remove: it is settled, and  *)
(* it takes a fault to unsettle it.                                        *)

Listed(p) == pass # NoPass /\ p \in pass.files

Settled(p) ==
  /\ client[p] \in {"answered", "done"}
  /\ p \in spool \/ Listed(p) =>
       pass.at = "removing" /\ p = First(pass.files)

Repeats(p) == Cardinality(Copies(p))
Faults == crashes + failures

(* While a push may yet be recorded, a fault has paid for each recording.  *)
RepeatsInv ==
  \A p \in Notification :
    Repeats(p) <= IF Settled(p) THEN 1 + Faults ELSE Faults

LEMMA CountsAreNumbers ==
  ASSUME DeliveryInv
  PROVE  /\ crashes \in Nat /\ failures \in Nat /\ Faults \in Nat
         /\ \A p : IsFiniteSet(Copies(p)) /\ Repeats(p) \in Nat
<1>1. crashes \in Nat /\ failures \in Nat
  BY DeliveryAssumption DEF DeliveryInv, TypeOK
<1>2. ASSUME NEW p
      PROVE  IsFiniteSet(Copies(p)) /\ Repeats(p) \in Nat
  <2>1. Copies(p) \in SUBSET recorded /\ IsFiniteSet(recorded)
    BY DEF Copies, DeliveryInv
  <2>2. IsFiniteSet(Copies(p))
    BY <2>1, FS_Subset
  <2> QED
    BY <2>2, FS_CardinalityType DEF Repeats
<1> QED
  BY <1>1, <1>2 DEF Faults

(* Recording a push adds one copy of it, and none of another push.         *)
LEMMA RecordPushCopies ==
  ASSUME DeliveryInv, NEW push \in Notification, RecordPush(push)
  PROVE  /\ Repeats(push)' <= Repeats(push) + 1
         /\ Repeats(push)' \in Nat
         /\ \A p : p # push => Repeats(p)' = Repeats(p)
<1> DEFINE event == [sequence |-> NextSequence, notification |-> push]
<1>1. recorded' = recorded \cup {event} /\ event.notification = push
  BY DEF RecordPush, Record, DeliveryInv, TypeOK
<1> HIDE DEF event
<1>2. Copies(push)' = Copies(push) \cup {event}
  BY <1>1 DEF Copies
<1>3. IsFiniteSet(Copies(push)) /\ Repeats(push) \in Nat
  BY CountsAreNumbers
<1>4. /\ Cardinality(Copies(push) \cup {event}) \in Nat
      /\ Cardinality(Copies(push) \cup {event}) <= Cardinality(Copies(push)) + 1
  BY <1>3, FS_AddElement DEF Repeats
<1>5. ASSUME NEW p, p # push
      PROVE  Repeats(p)' = Repeats(p)
  <2>1. Copies(p)' = Copies(p)
    BY <1>1, <1>5 DEF Copies
  <2> QED
    BY <2>1 DEF Repeats
<1>6. Repeats(push)' = Cardinality(Copies(push) \cup {event})
  BY <1>2 DEF Repeats
<1> QED
  BY <1>4, <1>5, <1>6 DEF Repeats

(* A step that counts a fault pays for whatever it unsettles.              *)
Paid ==
  /\ Faults' \in Nat
  /\ \/ Faults' >= Faults + 1
     \/ Faults' = Faults /\ \A p \in Notification : Settled(p) => Settled(p)'

LEMMA NothingRecorded ==
  ASSUME DeliveryInv, RepeatsInv, recorded' = recorded, Paid
  PROVE  RepeatsInv'
<1>1. ASSUME NEW p \in Notification
      PROVE  Repeats(p)' = Repeats(p) /\ Repeats(p) \in Nat /\ Faults \in Nat
  BY CountsAreNumbers DEF Repeats, Copies
<1> QED
  BY <1>1 DEF RepeatsInv, Paid

LEMMA PushRecorded ==
  ASSUME DeliveryInv, RepeatsInv, NEW push \in Notification,
         RecordPush(push), ~Settled(push), Paid,
         Faults' = Faults => Settled(push)'
  PROVE  RepeatsInv'
<1>1. /\ Repeats(push)' <= Repeats(push) + 1
      /\ Repeats(push)' \in Nat
      /\ \A p : p # push => Repeats(p)' = Repeats(p)
  BY RecordPushCopies
<1>2. Faults \in Nat /\ \A p : Repeats(p) \in Nat
  BY CountsAreNumbers
<1>3. ASSUME NEW p \in Notification, p # push
      PROVE  Repeats(p)' <= IF Settled(p)' THEN 1 + Faults' ELSE Faults'
  BY <1>1, <1>2, <1>3 DEF RepeatsInv, Paid
<1>4. Repeats(push)' <= IF Settled(push)' THEN 1 + Faults' ELSE Faults'
  <2>1. Repeats(push) <= Faults
    BY DEF RepeatsInv
  <2> QED
    BY <1>1, <1>2, <2>1 DEF Paid
<1> QED
  BY <1>3, <1>4 DEF RepeatsInv

(* A crash and a failure are counted.                                      *)
LEMMA FaultIsPaid ==
  ASSUME DeliveryInv,
         \/ Failure /\ crashes' = crashes
         \/ crashes' = crashes + 1 /\ failures' = failures
  PROVE  Paid /\ Faults' # Faults
BY CountsAreNumbers DEF Failure, Paid, Faults

LEMMA KeptIsPaid ==
  ASSUME DeliveryInv, crashes' = crashes, failures' = failures,
         \A p \in Notification : Settled(p) => Settled(p)'
  PROVE  Paid
BY CountsAreNumbers DEF Paid, Faults

LEMMA RepeatsInvStep ==
  DeliveryInv /\ RepeatsInv /\ [Next]_vars => RepeatsInv'
<1> SUFFICES ASSUME DeliveryInv, RepeatsInv, [Next]_vars
             PROVE  RepeatsInv'
  OBVIOUS
<1>0. /\ client \in [Client -> {"new", "waiting", "asked", "answered",
                                "failed", "spooling", "writing", "done"}]
      /\ Notification \subseteq Client
      /\ \A p \in Notification : PushSafe(p)
  BY DEF DeliveryInv, TypeOK, PushInv, Client
<1>1. ASSUME recorded' = recorded,
             \/ Failure /\ crashes' = crashes
             \/ crashes' = crashes + 1 /\ failures' = failures
             \/ /\ crashes' = crashes /\ failures' = failures
                /\ \A p \in Notification : Settled(p) => Settled(p)'
      PROVE  RepeatsInv'
  BY <1>1, FaultIsPaid, KeptIsPaid, NothingRecorded
<1>2. CASE UNCHANGED vars
  <2>1. UNCHANGED <<recorded, client, spool, pass, crashes, failures>>
    BY <1>2 DEF vars, ledgerVars, daemonVars, spoolVars, faultVars
  <2> QED
    BY <1>1, <2>1 DEF Settled, Listed
<1>3. ASSUME NEW c \in Client,
             Submit(c) \/ Receive(c) \/ ReplyLost(c) \/ Connect(c)
      PROVE  RepeatsInv'
  <2>1. recorded' = recorded /\ crashes' = crashes
    BY <1>3
    DEF Submit, Receive, ReplyLost, Connect, StartRuntime, OpenFails, Ask,
        ledgerVars, faultVars
  <2>2. CASE Failure
    BY <1>1, <2>1, <2>2
  <2>3. CASE ~Failure
    <3>1. /\ UNCHANGED <<spool, pass, failures>>
          /\ client' = client \/
               \E s \in {"waiting", "asked", "spooling", "done", "failed"} :
                 /\ client' = [client EXCEPT ![c] = s]
                 /\ client[c] \in {"answered", "done"} /\ c \in Notification =>
                      s = "done"
      BY <1>0, <1>3, <2>3, ClientsDiffer
      DEF Submit, Receive, ReplyLost, Connect, StartRuntime, OpenFails, Ask,
          AfterFailure, ledgerVars, daemonVars, spoolVars, faultVars
    <3> QED
      BY <1>0, <1>1, <2>1, <3>1 DEF Settled, Listed
  <2> QED
    BY <2>2, <2>3
<1>4. ASSUME NEW push \in Notification,
             BeginSpoolFile(push) \/ FinishSpoolFile(push)
      PROVE  RepeatsInv'
  <2>1. /\ UNCHANGED <<recorded, pass, crashes, failures>>
        /\ \/ /\ client[push] = "spooling"
              /\ spool' = spool \cup {push}
           \/ client[push] = "writing" /\ spool' = spool
        /\ \A p \in Notification : p # push => client'[p] = client[p]
    BY <1>0, <1>4
    DEF BeginSpoolFile, FinishSpoolFile, ledgerVars, daemonVars, faultVars
  <2> QED
    BY <1>1, <2>1 DEF Settled, Listed
<1>5. ASSUME NEW file \in Malformed,
             WriteMalformedFile(file) \/ TakeMalformedFile(file)
      PROVE  RepeatsInv'
  <2>1. /\ UNCHANGED <<recorded, pass, client, crashes, failures>>
        /\ spool' \cap Notification = spool \cap Notification
    BY <1>5, DeliveryAssumption
    DEF WriteMalformedFile, TakeMalformedFile, ledgerVars, daemonVars,
        faultVars
  <2> QED
    BY <1>1, <2>1 DEF Settled, Listed
<1>6. CASE ReleaseStore \/ Tick \/ StartProcess
  <2>1. UNCHANGED <<recorded, client, spool, pass, crashes, failures>>
    BY <1>6
    DEF ReleaseStore, Tick, StartProcess, ledgerVars, spoolVars, faultVars
  <2> QED
    BY <1>1, <2>1 DEF Settled, Listed
<1>7. ASSUME NEW push \in Notification,
             HandlePush(push) \/ HandlePushFails(push)
      PROVE  RepeatsInv'
  <2>1. /\ pass = NoPass /\ InBox(Request(push))
        /\ UNCHANGED <<pass, spool>>
        /\ \E answer \in {"answered", "failed"} :
             client' = [client EXCEPT ![push] = answer]
    <3>1. Taking(Request(push)) /\ mailbox \in Seq(Message)
      BY <1>7 DEF HandlePush, HandlePushFails, DeliveryInv, TypeOK, Message
    <3>2. InBox(Request(push))
      BY <3>1, HeadTailProperties DEF Taking, InBox
    <3> QED
      BY <1>7, <3>1, <3>2
      DEF HandlePush, HandlePushFails, Taking, Reply, spoolVars
  <2>2. client[push] = "asked"
    BY <1>0, <2>1 DEF DeliveryInv, MailboxInv
  <2>3. ~Settled(push) /\ push \notin spool
    BY <1>0, <2>2 DEF Settled, PushSafe
  <2>4. CASE HandlePushFails(push)
    <3>1. /\ Failure /\ crashes' = crashes
          /\ RecordPush(push) \/ recorded' = recorded
      BY <2>4 DEF HandlePushFails, ledgerVars
    <3>2. Paid /\ Faults' # Faults
      BY <3>1, FaultIsPaid
    <3> QED
      BY <2>3, <3>1, <3>2, NothingRecorded, PushRecorded
  <2>5. CASE HandlePush(push)
    <3>1. /\ RecordPush(push) /\ crashes' = crashes /\ failures' = failures
          /\ client' = [client EXCEPT ![push] = "answered"]
      BY <2>5 DEF HandlePush, Reply, faultVars
    <3>2. Settled(push)'
      BY <1>0, <2>1, <2>3, <3>1 DEF Settled, Listed
    <3>3. \A p \in Notification : Settled(p) => Settled(p)'
      BY <1>0, <2>1, <3>1, <3>2 DEF Settled, Listed
    <3>4. Paid
      BY <3>1, <3>3, KeptIsPaid
    <3> QED
      BY <2>3, <3>1, <3>2, <3>4, PushRecorded
  <2> QED
    BY <1>7, <2>4, <2>5
<1>8. ASSUME NEW r \in Reader, HandleQuery(r) \/ HandleQueryFails(r)
      PROVE  RepeatsInv'
  <2>1. CASE HandleQueryFails(r)
    BY <1>1, <2>1 DEF HandleQueryFails, ledgerVars
  <2>2. CASE HandleQuery(r)
    <3>1. /\ UNCHANGED <<recorded, pass, spool, crashes, failures>>
          /\ client' = [client EXCEPT ![r] = "answered"]
      BY <2>2 DEF HandleQuery, Reply, ledgerVars, spoolVars, faultVars
    <3> QED
      BY <1>0, <1>1, <3>1, ClientsDiffer DEF Settled, Listed
  <2> QED
    BY <1>8, <2>1, <2>2
<1>9. CASE BeginPass \/ RemoveFile \/ DecodeFails
  <2>1. pass.at \in {"recording", "removing"} <=> pass # NoPass
    BY DEF DeliveryInv, TypeOK, NoPass
  <2>2. mailbox # <<>> /\ Head(mailbox) = Ingest
    BY <1>9, <2>1
    DEF BeginPass, Taking, RemoveFile, DecodeFails, DeliveryInv, RuntimeInv
  <2>3. PassGoesOn
    BY <1>9, PassStepGoesOn
  <2>4. \A c \in Client :
          client'[c] # client[c] =>
            client[c] = "waiting" /\ client'[c] = "failed"
    BY <2>2, <2>3, PassGoesOnKeeps
  <2>5. UNCHANGED <<recorded, crashes, failures>>
    BY <1>9 DEF BeginPass, RemoveFile, DecodeFails, ledgerVars, faultVars
  <2>6. CASE BeginPass
    <3>1. /\ pass = NoPass /\ spool' = spool
          /\ pass' = NoPass \/ pass' = Recording(spool)
      BY <2>6 DEF BeginPass, Taking, Continue, EndPass, spoolVars
    <3> QED
      BY <1>0, <1>1, <2>4, <2>5, <3>1 DEF Settled, Listed, NoPass, Recording
  <2>7. CASE RemoveFile
    <3>1. /\ pass.at = "removing" /\ spool' = spool \ {First(pass.files)}
          /\ \/ pass' = NoPass
             \/ pass' = Recording(pass.files \ {First(pass.files)})
      BY <2>7 DEF RemoveFile, Continue, EndPass
    <3> QED
      BY <1>0, <1>1, <2>1, <2>4, <2>5, <3>1
      DEF Settled, Listed, NoPass, Recording
  <2>8. CASE DecodeFails
    <3>1. pass.at = "recording" /\ spool' = spool /\ pass' = NoPass
      BY <2>8 DEF DecodeFails, EndPass, spoolVars
    <3> QED
      BY <1>0, <1>1, <2>1, <2>4, <2>5, <3>1 DEF Settled, Listed
  <2> QED
    BY <1>9, <2>6, <2>7, <2>8
<1>10. CASE RecordFile
  <2>1. PICK file \in Notification : file = First(pass.files)
    BY <1>10 DEF RecordFile, Decodes
  <2>2. /\ pass.at = "recording" /\ pass' = Removing(pass.files)
        /\ file \in spool /\ file \notin partial
        /\ RecordPush(file)
        /\ UNCHANGED <<client, spool, crashes, failures>>
    BY <1>10, <2>1 DEF RecordFile, Decodes, spoolVars, faultVars
  <2>3. /\ pass # NoPass /\ pass' # NoPass
        /\ pass'.files = pass.files /\ pass'.at = "removing"
    BY <2>2 DEF NoPass, Removing
  <2>4. client[file] = "done" /\ ~Settled(file)
    BY <1>0, <2>2 DEF Settled, PushSafe
  <2>5. Settled(file)'
    BY <2>1, <2>2, <2>3, <2>4 DEF Settled
  <2>6. \A p \in Notification : Settled(p) => Settled(p)'
    BY <2>2, <2>3 DEF Settled, Listed
  <2>7. Paid
    BY <2>2, <2>6, KeptIsPaid
  <2> QED
    BY <2>2, <2>4, <2>5, <2>7, PushRecorded
<1>11. CASE PassFails \/ Crash
  BY <1>1, <1>11 DEF PassFails, Crash, ledgerVars
<1> QED
  BY <1>2, <1>3, <1>4, <1>5, <1>6, <1>7, <1>8, <1>9, <1>10, <1>11
  DEF Next, Handle

(* A hook that cannot tell what became of its submission spools it, and a  *)
(* pass that stopped records a file again (AfterFailure, RemoveFile): each *)
(* fault makes one more copy of a push at most, and without a fault the    *)
(* two paths never both record it.                                         *)
THEOREM RepeatsNeedFaultsCorrect == Spec => []RepeatsNeedFaults
<1>1. Init => RepeatsInv
  <2> SUFFICES ASSUME Init
               PROVE  \A p \in Notification :
                        Repeats(p) <= IF Settled(p) THEN 1 + Faults ELSE Faults
    BY DEF RepeatsInv
  <2> TAKE p \in Notification
  <2>1. Copies(p) = {}
    BY DEF Init, LedgerInit, Copies
  <2>2. Repeats(p) = 0
    BY <2>1, FS_EmptySet DEF Repeats
  <2>3. Faults = 0
    BY DEF Init, Faults
  <2> QED
    BY <2>2, <2>3
<1>2. DeliveryInv /\ RepeatsInv => RepeatsNeedFaults
  <2> SUFFICES ASSUME DeliveryInv, RepeatsInv, NEW p \in Notification
               PROVE  Cardinality(Copies(p)) <= 1 + crashes + failures
    BY DEF RepeatsNeedFaults
  <2>1. Repeats(p) <= 1 + Faults
    BY CountsAreNumbers DEF RepeatsInv
  <2> QED
    BY <2>1, CountsAreNumbers DEF Repeats, Faults
<1> QED
  BY <1>1, <1>2, DeliveryInvInit, DeliveryInvCorrect, RepeatsInvStep,
     PTL DEF Spec

============================================================================
