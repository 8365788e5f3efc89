-------------------------- MODULE ConnectionProofs --------------------------
(* Theorems about Connection.tla, for any CLIs, peers and bounds: the      *)
(* connection is the at-most-once call of RequestReply.tla.                *)
EXTENDS Connection, TLAPS, SequenceTheorems, FiniteSetTheorems

----------------------------------------------------------------------------
(* The inductive invariant.                                                *)

Types ==
  /\ status \in [Requester -> {"idle", "greeting", "asking", "connected",
                               "ok", "refused", "failed"}]
  /\ backlog \in Seq(Requester)
  /\ handler \in [Requester -> {"none", "queued", "closed"} \cup Handled]
  /\ toDaemon \in [Requester -> Seq(ClientFrame)]
  /\ toClient \in [Requester -> Seq(DaemonFrame)]
  /\ effect \in [Requester -> {"none", "done", "aborted"}]

(* A connection waits in the backlog in one place at most.                 *)
BacklogInv ==
  /\ \A i \in DOMAIN backlog : handler[backlog[i]] = "queued"
  /\ \A i, j \in DOMAIN backlog : i # j => backlog[i] # backlog[j]

(* The handler knows what the store has done, until it closes.             *)
EffectKnown(c) ==
  /\ handler[c] \in {"none", "queued", "open", "asked"} => effect[c] = "none"
  /\ handler[c] \in {"done", "aborted"} => effect[c] = handler[c]

(* Success is on its way only from a connection that is closed, and only   *)
(* if the request succeeded.                                               *)
SuccessIsTrue(c) ==
  \/ toClient[c] \in Seq(DaemonFrame \ {"committed"})
  \/ handler[c] = "closed" /\ effect[c] = "done"

(* Before it sends its request, a client has had no effect.                *)
NotAsked(c) ==
  /\ toDaemon[c] \in Seq({"handshake"})
  /\ handler[c] \notin {"asked", "done", "aborted"}
  /\ effect[c] = "none"

CallInv(c) ==
  /\ EffectKnown(c)
  /\ SuccessIsTrue(c)
  /\ status[c] = "idle" => handler[c] = "none"
  /\ status[c] \in {"idle", "greeting", "refused"} => NotAsked(c)
  /\ status[c] = "ok" => handler[c] = "closed" /\ effect[c] = "done"

(* An incompatible CLI never gets past its greeting.                       *)
Rejected(c) ==
  /\ status[c] \in {"idle", "greeting", "refused"}
  /\ toClient[c] \in Seq({"rejected"})

ConnectionInv ==
  /\ Types
  /\ BacklogInv
  /\ \A c \in Requester : CallInv(c)
  /\ \A c \in Cli \ Compatible : Rejected(c)

----------------------------------------------------------------------------
(* Sequences of frames.                                                    *)

LEMMA AppendIn ==
  ASSUME NEW S, NEW s \in Seq(S), NEW e \in S
  PROVE  Append(s, e) \in Seq(S)
BY AppendProperties

LEMMA TailIn ==
  ASSUME NEW S, NEW s \in Seq(S), s # <<>>
  PROVE  Tail(s) \in Seq(S) /\ Head(s) \in S
BY HeadTailProperties

LEMMA NothingIn ==
  ASSUME NEW S
  PROVE  <<>> \in Seq(S)
OBVIOUS

LEMMA SeqGrows ==
  ASSUME NEW S, NEW T, S \subseteq T, NEW s \in Seq(S)
  PROVE  s \in Seq(T)
OBVIOUS

----------------------------------------------------------------------------
(* A step of one connection.                                               *)

(* Nothing changes for anyone but x.                                       *)
Local(x) ==
  \A c \in Requester \ {x} :
    /\ status'[c] = status[c]
    /\ handler'[c] = handler[c]
    /\ toDaemon'[c] = toDaemon[c]
    /\ toClient'[c] = toClient[c]
    /\ effect'[c] = effect[c]

LEMMA OthersKeepTheirs ==
  ASSUME ConnectionInv, NEW x \in Requester, Local(x)
  PROVE  /\ \A c \in Requester \ {x} : CallInv(c)'
         /\ \A c \in (Cli \ Compatible) \ {x} : Rejected(c)'
<1>1. ASSUME NEW c \in Requester \ {x}
      PROVE  CallInv(c)'
  <2>1. CallInv(c)
    BY DEF ConnectionInv
  <2> QED
    BY <2>1 DEF Local, CallInv, EffectKnown, SuccessIsTrue, NotAsked
<1>2. ASSUME NEW c \in (Cli \ Compatible) \ {x}
      PROVE  Rejected(c)'
  <2>1. Rejected(c) /\ c \in Requester \ {x}
    BY DEF ConnectionInv, Requester
  <2> QED
    BY <2>1 DEF Local, Rejected
<1> QED
  BY <1>1, <1>2

LEMMA Assemble ==
  ASSUME ConnectionInv, NEW x \in Requester, Local(x), Types', BacklogInv',
         CallInv(x)', x \in Cli \ Compatible => Rejected(x)'
  PROVE  ConnectionInv'
BY OthersKeepTheirs DEF ConnectionInv

(* A connection that is not in the backlog does not disturb it.            *)
LEMMA BacklogKept ==
  ASSUME ConnectionInv, NEW x \in Requester, Local(x), UNCHANGED backlog,
         handler[x] # "queued" \/ handler'[x] = handler[x]
  PROVE  BacklogInv'
<1>1. ASSUME NEW i \in DOMAIN backlog
      PROVE  handler'[backlog[i]] = "queued"
  <2>1. backlog[i] \in Requester /\ handler[backlog[i]] = "queued"
    BY DEF ConnectionInv, Types, BacklogInv
  <2> QED
    BY <2>1 DEF Local
<1> QED
  BY <1>1 DEF ConnectionInv, BacklogInv

(* A connection that was not there joins the backlog.                      *)
LEMMA QueueKeepsBacklog ==
  ASSUME Types, BacklogInv, NEW x \in Requester, handler[x] = "none",
         backlog' = Append(backlog, x),
         handler' = [handler EXCEPT ![x] = "queued"]
  PROVE  BacklogInv'
<1> USE DEF Types
<1>1. /\ DOMAIN backlog' = 1..(Len(backlog) + 1)
      /\ \A i \in 1..Len(backlog) : backlog'[i] = backlog[i]
      /\ backlog'[Len(backlog) + 1] = x
      /\ DOMAIN backlog = 1..Len(backlog)
      /\ Len(backlog) \in Nat
      /\ \A i \in 1..Len(backlog) : backlog[i] \in Requester
  BY AppendProperties
<1>2. \A i \in 1..Len(backlog) : backlog[i] # x
  BY <1>1 DEF BacklogInv
<1>3. \A i \in 1..(Len(backlog) + 1) :
        i \in 1..Len(backlog) \/ i = Len(backlog) + 1
  BY <1>1
<1>4. \A i \in DOMAIN backlog' : handler'[backlog'[i]] = "queued"
  BY <1>1, <1>2, <1>3 DEF BacklogInv
<1>5. ASSUME NEW i \in DOMAIN backlog', NEW j \in DOMAIN backlog', i # j
      PROVE  backlog'[i] # backlog'[j]
  BY <1>1, <1>2, <1>3, <1>5 DEF BacklogInv
<1> QED
  BY <1>4, <1>5 DEF BacklogInv

----------------------------------------------------------------------------

LEMMA ConnectionInvInit == Init => ConnectionInv
<1> SUFFICES ASSUME Init
             PROVE  ConnectionInv
  OBVIOUS
<1>1. Types
  BY NothingIn DEF Init, Types
<1>2. BacklogInv
  BY DEF Init, BacklogInv
<1>3. \A c \in Requester : CallInv(c)
  BY NothingIn
  DEF Init, CallInv, EffectKnown, SuccessIsTrue, NotAsked
<1>4. \A c \in Cli \ Compatible : Rejected(c)
  BY NothingIn DEF Init, Rejected, Requester
<1> QED
  BY <1>1, <1>2, <1>3, <1>4 DEF ConnectionInv

(* The CLI.                                                                *)
LEMMA CliPreserves ==
  ASSUME ConnectionInv, NEW x \in Cli, CliStep(x)
  PROVE  ConnectionInv'
<1> x \in Requester
  BY DEF Requester
<1>a. Types /\ CallInv(x) /\ (x \in Cli \ Compatible => Rejected(x))
  BY DEF ConnectionInv
<1>1. CASE RefuseArguments(x) \/ NoListener(x)
  <2>1. Types' /\ Local(x) /\ backlog' = backlog /\ handler' = handler
    BY <1>1, <1>a DEF RefuseArguments, NoListener, Becomes, Types, Local
  <2>2. CallInv(x)' /\ (x \in Cli \ Compatible => Rejected(x)')
    BY <1>1, <1>a
    DEF RefuseArguments, NoListener, Becomes, Types, CallInv, EffectKnown,
        SuccessIsTrue, NotAsked, Rejected
  <2> QED
    BY <2>1, <2>2, BacklogKept, Assemble
<1>2. CASE Connect(x)
  <2>1. /\ status' = [status EXCEPT ![x] = "greeting"]
        /\ handler' = [handler EXCEPT ![x] = "queued"]
        /\ toDaemon' = [toDaemon EXCEPT ![x] = <<"handshake">>]
        /\ toClient' = toClient /\ effect' = effect
        /\ backlog' = Append(backlog, x)
        /\ status[x] = "idle" /\ handler[x] = "none"
    BY <1>2, <1>a DEF Connect, Queue, Becomes, CallInv
  <2>2. <<"handshake">> \in Seq({"handshake"})
        /\ <<"handshake">> \in Seq(ClientFrame)
    BY DEF ClientFrame
  <2>3. Types' /\ Local(x)
    BY <2>1, <2>2, <1>a, AppendIn DEF Types, Local
  <2>4. BacklogInv'
    BY <2>1, <1>a, QueueKeepsBacklog DEF ConnectionInv
  <2>5. CallInv(x)' /\ (x \in Cli \ Compatible => Rejected(x)')
    BY <2>1, <2>2, <1>a
    DEF Types, CallInv, EffectKnown, SuccessIsTrue, NotAsked, Rejected
  <2> QED
    BY <2>3, <2>4, <2>5, Assemble
<1>3. CASE Greeted(x)
  <2> DEFINE rest == Tail(toClient[x])
  <2>1. /\ toClient[x] # <<>> /\ status[x] = "greeting"
        /\ toClient' = [toClient EXCEPT ![x] = rest]
        /\ handler' = handler /\ effect' = effect /\ backlog' = backlog
    BY <1>3 DEF Greeted
  <2>2. rest \in Seq(DaemonFrame) /\ rest = toClient'[x]
    BY <2>1, <1>a, TailIn DEF Types
  <2>3. SuccessIsTrue(x)'
    BY <2>1, <2>2, <1>a, TailIn DEF CallInv, SuccessIsTrue
  <2>4. x \in Cli \ Compatible =>
          Head(toClient[x]) = "rejected" /\ rest \in Seq({"rejected"})
    BY <2>1, <1>a, TailIn DEF Rejected
  <2>5. CASE Head(toClient[x]) = "accepted" /\ handler[x] # "closed"
    <3>1. PICK frame \in {"request", "foreign"} :
            toDaemon' = [toDaemon EXCEPT ![x] = Append(@, frame)]
      BY <1>3, <2>5 DEF Greeted
    <3>2. status' = [status EXCEPT ![x] = "asking"]
      BY <1>3, <2>5 DEF Greeted, Becomes
    <3>3. Append(toDaemon[x], frame) \in Seq(ClientFrame)
      BY <1>a, AppendIn DEF Types, ClientFrame
    <3>4. Types' /\ Local(x)
      BY <2>1, <2>2, <3>1, <3>2, <3>3, <1>a DEF Types, Local
    <3>5. CallInv(x)'
      BY <2>1, <2>3, <3>2, <1>a DEF Types, CallInv, EffectKnown
    <3> QED
      BY <2>1, <2>4, <2>5, <3>4, <3>5, BacklogKept, Assemble
  <2>6. CASE ~(Head(toClient[x]) = "accepted" /\ handler[x] # "closed")
    <3>1. status' = [status EXCEPT ![x] = "refused"] /\ toDaemon' = toDaemon
      BY <1>3, <2>6 DEF Greeted, Becomes
    <3>2. Types' /\ Local(x)
      BY <2>1, <2>2, <3>1, <1>a DEF Types, Local
    <3>3. CallInv(x)' /\ (x \in Cli \ Compatible => Rejected(x)')
      BY <2>1, <2>2, <2>3, <2>4, <3>1, <1>a
      DEF Types, CallInv, EffectKnown, NotAsked, Rejected
    <3> QED
      BY <2>1, <3>2, <3>3, BacklogKept, Assemble
  <2> QED
    BY <2>5, <2>6
<1>4. CASE Answered(x)
  <2> DEFINE rest == Tail(toClient[x])
  <2>1. /\ toClient[x] # <<>> /\ status[x] = "asking"
        /\ toClient' = [toClient EXCEPT ![x] = rest]
        /\ handler' = handler /\ effect' = effect /\ backlog' = backlog
        /\ toDaemon' = toDaemon
    BY <1>4 DEF Answered
  <2>2. PICK end \in {"ok", "failed"} :
          /\ status' = [status EXCEPT ![x] = end]
          /\ end = "ok" => Head(toClient[x]) = "committed"
    BY <1>4 DEF Answered, Becomes
  <2>3. rest \in Seq(DaemonFrame) /\ rest = toClient'[x]
    BY <2>1, <1>a, TailIn DEF Types
  <2>4. SuccessIsTrue(x)'
    BY <2>1, <2>3, <1>a, TailIn DEF CallInv, SuccessIsTrue
  <2>5. end = "ok" => handler[x] = "closed" /\ effect[x] = "done"
    BY <2>1, <2>2, <1>a, TailIn DEF CallInv, SuccessIsTrue
  <2>6. Types' /\ Local(x)
    BY <2>1, <2>2, <2>3, <1>a DEF Types, Local
  <2>7. CallInv(x)' /\ x \notin Cli \ Compatible
    BY <2>1, <2>2, <2>4, <2>5, <1>a DEF Types, CallInv, EffectKnown, Rejected
  <2> QED
    BY <2>1, <2>6, <2>7, BacklogKept, Assemble
<1>5. CASE ConnectionClosed(x) \/ Interrupt(x)
  <2>1. /\ status' = [status EXCEPT ![x] = Lost(x)]
        /\ status[x] \in {"greeting", "asking"}
        /\ UNCHANGED <<backlog, handler, toDaemon, toClient, effect>>
    BY <1>5 DEF ConnectionClosed, Interrupt, Becomes
  <2>2. Types' /\ Local(x)
    BY <2>1, <1>a DEF Types, Local, Lost
  <2>3. CallInv(x)' /\ (x \in Cli \ Compatible => Rejected(x)')
    BY <2>1, <1>a
    DEF Types, CallInv, EffectKnown, SuccessIsTrue, NotAsked, Rejected, Lost
  <2> QED
    BY <2>1, <2>2, <2>3, BacklogKept, Assemble
<1> QED
  BY <1>1, <1>2, <1>3, <1>4, <1>5 DEF CliStep

(* Other peers, and the next connection.                                   *)
LEMMA PeerPreserves ==
  ASSUME ConnectionInv, NEW x \in Peer, PeerStep(x)
  PROVE  ConnectionInv'
<1> x \in Requester /\ x \notin Cli
  BY ConnectionAssumption DEF Requester
<1>a. Types /\ CallInv(x)
  BY DEF ConnectionInv
<1>1. CASE PeerConnect(x)
  <2>1. /\ status' = [status EXCEPT ![x] = "connected"]
        /\ handler' = [handler EXCEPT ![x] = "queued"]
        /\ UNCHANGED <<toDaemon, toClient, effect>>
        /\ backlog' = Append(backlog, x)
        /\ status[x] = "idle" /\ handler[x] = "none"
    BY <1>1, <1>a DEF PeerConnect, Queue, Becomes, CallInv
  <2>2. Types' /\ Local(x)
    BY <2>1, <1>a, AppendIn DEF Types, Local
  <2>3. BacklogInv'
    BY <2>1, <1>a, QueueKeepsBacklog DEF ConnectionInv
  <2>4. CallInv(x)'
    BY <2>1, <1>a DEF Types, CallInv, EffectKnown, SuccessIsTrue, NotAsked
  <2> QED
    BY <2>2, <2>3, <2>4, Assemble
<1>2. ASSUME NEW frame \in ClientFrame, PeerSend(x, frame)
      PROVE  ConnectionInv'
  <2>1. Append(toDaemon[x], frame) \in Seq(ClientFrame)
    BY <1>a, AppendIn DEF Types
  <2>2. Types' /\ Local(x)
    BY <1>2, <2>1, <1>a DEF PeerSend, Types, Local
  <2>3. CallInv(x)'
    BY <1>2, <1>a DEF PeerSend, CallInv, EffectKnown, SuccessIsTrue
  <2> QED
    BY <1>2, <2>2, <2>3, BacklogKept, Assemble DEF PeerSend
<1>3. CASE PeerLeave(x)
  <2>1. Types' /\ Local(x)
    BY <1>3, <1>a DEF PeerLeave, Becomes, Types, Local
  <2>2. CallInv(x)'
    BY <1>3, <1>a
    DEF PeerLeave, Becomes, Types, CallInv, EffectKnown, SuccessIsTrue
  <2> QED
    BY <1>3, <2>1, <2>2, BacklogKept, Assemble DEF PeerLeave
<1> QED
  BY <1>1, <1>2, <1>3 DEF PeerStep

LEMMA RenewPreserves ==
  ASSUME ConnectionInv, NEW x \in Requester, Renew(x)
  PROVE  ConnectionInv'
<1>a. Types
  BY DEF ConnectionInv
<1>1. Types' /\ Local(x) /\ backlog' = backlog /\ handler[x] # "queued"
  BY <1>a, NothingIn DEF Renew, Becomes, Types, Local
<1>2. CallInv(x)' /\ Rejected(x)'
  BY <1>a, NothingIn
  DEF Renew, Becomes, Types, CallInv, EffectKnown, SuccessIsTrue, NotAsked,
      Rejected
<1> QED
  BY <1>1, <1>2, BacklogKept, Assemble

(* The daemon's task.                                                      *)
LEMMA ServePreserves ==
  ASSUME ConnectionInv, NEW x \in Requester, Serve(x)
  PROVE  ConnectionInv'
<1>a. /\ Types /\ CallInv(x)
      /\ x \in Cli \ Compatible => Rejected(x) /\ x \notin Peer
  BY ConnectionAssumption DEF ConnectionInv
<1>r. ASSUME NEW frame, Reads(x, frame)
      PROVE  /\ handler[x] = "open" /\ toDaemon[x] # <<>>
             /\ toDaemon' = [toDaemon EXCEPT ![x] = Tail(toDaemon[x])]
             /\ Tail(toDaemon[x]) \in Seq(ClientFrame)
             /\ NotAsked(x) => /\ Tail(toDaemon[x]) \in Seq({"handshake"})
                               /\ frame = "handshake"
  BY <1>a, <1>r, TailIn DEF Reads, Types, NotAsked
<1>1. CASE AnswerHandshake(x)
  <2>1. /\ handler[x] = "open"
        /\ toDaemon' = [toDaemon EXCEPT ![x] = Tail(toDaemon[x])]
        /\ Tail(toDaemon[x]) \in Seq(ClientFrame)
        /\ NotAsked(x) => Tail(toDaemon[x]) \in Seq({"handshake"})
    BY <1>1, <1>r DEF AnswerHandshake
  <2>2. UNCHANGED <<status, backlog, effect>>
    BY <1>1 DEF AnswerHandshake
  <2>3. toClient[x] \in Seq(DaemonFrame \ {"committed"})
    BY <2>1, <1>a DEF CallInv, SuccessIsTrue
  <2>4. CASE Ended(x)
    <3>1. handler' = [handler EXCEPT ![x] = "closed"] /\ toClient' = toClient
      BY <1>1, <2>4 DEF AnswerHandshake, Closes
    <3>2. Types' /\ Local(x)
      BY <2>1, <2>2, <3>1, <1>a DEF Types, Local
    <3>3. CallInv(x)' /\ (x \in Cli \ Compatible => Rejected(x)')
      BY <2>1, <2>2, <2>3, <2>4, <3>1, <1>a
      DEF Types, CallInv, EffectKnown, SuccessIsTrue, NotAsked, Rejected,
          Ended
    <3> QED
      BY <2>1, <2>2, <3>2, <3>3, BacklogKept, Assemble
  <2>5. CASE ~Ended(x)
    <3> DEFINE answer == HandshakeReplyFor(x)
               answers == IF x \in Peer THEN toClient[x]
                                        ELSE Append(toClient[x], answer)
    <3>1. /\ handler' = handler
          /\ toClient' = [toClient EXCEPT ![x] = answers]
      BY <1>1, <2>5 DEF AnswerHandshake
    <3>2. answer \in DaemonFrame \ {"committed"}
      BY DEF HandshakeReplyFor, DaemonFrame
    <3>3. /\ answers \in Seq(DaemonFrame \ {"committed"})
          /\ answers \in Seq(DaemonFrame)
      BY <2>3, <3>2, <1>a, AppendIn DEF Types
    <3>4. x \in Cli \ Compatible => answers \in Seq({"rejected"})
      <4>1. x \in Cli \ Compatible => answer = "rejected"
        BY <1>a DEF HandshakeReplyFor
      <4> QED
        BY <4>1, <1>a, AppendIn DEF Rejected
    <3>5. Types' /\ Local(x)
      BY <2>1, <2>2, <3>1, <3>3, <1>a DEF Types, Local
    <3>6. CallInv(x)' /\ (x \in Cli \ Compatible => Rejected(x)')
      BY <2>1, <2>2, <3>1, <3>3, <3>4, <1>a
      DEF Types, CallInv, EffectKnown, SuccessIsTrue, NotAsked, Rejected
    <3> QED
      BY <2>1, <2>2, <3>1, <3>5, <3>6, BacklogKept, Assemble
  <2> QED
    BY <2>4, <2>5
<1>2. CASE AskStore(x)
  <2>1. /\ handler[x] = "open" /\ ~NotAsked(x)
        /\ toDaemon' = [toDaemon EXCEPT ![x] = Tail(toDaemon[x])]
        /\ Tail(toDaemon[x]) \in Seq(ClientFrame)
    BY <1>2, <1>r DEF AskStore
  <2>2. PICK next \in {"asked", "closed"} :
          handler' = [handler EXCEPT ![x] = next]
    BY <1>2 DEF AskStore, Closes
  <2>3. UNCHANGED <<status, backlog, toClient, effect>>
    BY <1>2 DEF AskStore
  <2>4. Types' /\ Local(x)
    BY <2>1, <2>2, <2>3, <1>a DEF Types, Local, Handled
  <2>5. CallInv(x)' /\ (x \in Cli \ Compatible => Rejected(x)')
    BY <2>1, <2>2, <2>3, <1>a
    DEF Types, CallInv, EffectKnown, SuccessIsTrue, Rejected
  <2> QED
    BY <2>1, <2>3, <2>4, <2>5, BacklogKept, Assemble
<1>3. CASE Unexpected(x) \/ EndOfStream(x)
  <2>1. /\ handler[x] = "open"
        /\ handler' = [handler EXCEPT ![x] = "closed"]
        /\ UNCHANGED <<status, backlog, toClient, effect>>
    BY <1>3, <1>r DEF Unexpected, EndOfStream, Closes
  <2>2. PICK rest \in Seq(ClientFrame) :
          /\ toDaemon' = [toDaemon EXCEPT ![x] = rest]
          /\ NotAsked(x) => rest \in Seq({"handshake"})
    <3>1. CASE Unexpected(x)
      BY <1>r, <3>1 DEF Unexpected
    <3>2. CASE EndOfStream(x)
      <4>1. /\ toDaemon' = [toDaemon EXCEPT ![x] = toDaemon[x]]
            /\ toDaemon[x] \in Seq(ClientFrame)
            /\ NotAsked(x) => toDaemon[x] \in Seq({"handshake"})
        BY <3>2, <1>a DEF EndOfStream, Types, NotAsked
      <4> QED
        BY <4>1
    <3> QED
      BY <1>3, <3>1, <3>2
  <2>3. Types' /\ Local(x)
    BY <2>1, <2>2, <1>a DEF Types, Local
  <2>4. status[x] # "idle"
    BY <2>1, <1>a DEF CallInv
  <2>5. CallInv(x)' /\ (x \in Cli \ Compatible => Rejected(x)')
    BY <2>1, <2>2, <2>4, <1>a
    DEF Types, CallInv, EffectKnown, SuccessIsTrue, NotAsked, Rejected
  <2> QED
    BY <2>1, <2>3, <2>5, BacklogKept, Assemble
<1>4. CASE Handle(x)
  <2>1. PICK outcome \in {"done", "aborted"} :
          /\ handler' = [handler EXCEPT ![x] = outcome]
          /\ effect' = [effect EXCEPT ![x] = outcome]
    BY <1>4 DEF Handle
  <2>2. handler[x] = "asked"
        /\ UNCHANGED <<status, backlog, toDaemon, toClient>>
    BY <1>4 DEF Handle
  <2>3. Types' /\ Local(x)
    BY <2>1, <2>2, <1>a DEF Types, Local, Handled
  <2>4. CallInv(x)' /\ (x \in Cli \ Compatible => Rejected(x)')
    BY <2>1, <2>2, <1>a
    DEF Types, CallInv, EffectKnown, SuccessIsTrue, NotAsked, Rejected
  <2> QED
    BY <2>2, <2>3, <2>4, BacklogKept, Assemble
<1>5. CASE WriteReply(x)
  <2> DEFINE replies == IF x \in Peer \/ Ended(x) THEN toClient[x]
                        ELSE Append(toClient[x], ReplyOf(handler[x]))
  <2>1. /\ handler[x] \in {"done", "aborted"}
        /\ handler' = [handler EXCEPT ![x] = "closed"]
        /\ toClient' = [toClient EXCEPT ![x] = replies]
        /\ UNCHANGED <<status, backlog, toDaemon, effect>>
    BY <1>5 DEF WriteReply, Closes
  <2>2. /\ effect[x] = handler[x]
        /\ toClient[x] \in Seq(DaemonFrame \ {"committed"})
        /\ status[x] \notin {"idle", "greeting", "refused", "ok"}
    BY <2>1, <1>a DEF CallInv, EffectKnown, SuccessIsTrue, NotAsked
  <2>3. replies \in Seq(DaemonFrame)
    BY <2>1, <1>a, AppendIn DEF Types, ReplyOf, DaemonFrame
  <2>4. handler[x] = "aborted" => replies \in Seq(DaemonFrame \ {"committed"})
    BY <2>2, AppendIn DEF ReplyOf, DaemonFrame
  <2>5. Types' /\ Local(x)
    BY <2>1, <2>3, <1>a DEF Types, Local
  <2>6. CallInv(x)' /\ x \notin Cli \ Compatible
    BY <2>1, <2>2, <2>4, <1>a
    DEF Types, CallInv, EffectKnown, SuccessIsTrue, Rejected
  <2> QED
    BY <2>1, <2>5, <2>6, BacklogKept, Assemble
<1> QED
  BY <1>1, <1>2, <1>3, <1>4, <1>5 DEF Serve

(* The listener takes the first connection of the backlog.                 *)
LEMMA AcceptPreserves ==
  ASSUME ConnectionInv, Accept
  PROVE  ConnectionInv'
<1>a. Types /\ BacklogInv /\ backlog # <<>>
  BY DEF ConnectionInv, Accept
<1>x. PICK x \in Requester : x = Head(backlog)
  BY <1>a, TailIn DEF Types
<1>1. /\ backlog' = Tail(backlog)
      /\ handler' = [handler EXCEPT ![x] = "open"]
      /\ UNCHANGED <<status, toDaemon, toClient, effect>>
  BY <1>x DEF Accept
<1>2. /\ x \in Requester /\ Tail(backlog) \in Seq(Requester)
      /\ DOMAIN backlog = 1..Len(backlog)
      /\ Len(backlog) \in Nat \ {0}
      /\ x = backlog[1]
      /\ Len(Tail(backlog)) = Len(backlog) - 1
      /\ \A i \in 1..(Len(backlog) - 1) : Tail(backlog)[i] = backlog[i + 1]
      /\ \A i \in 1..Len(backlog) : backlog[i] \in Requester
  BY <1>a, <1>x, HeadTailProperties DEF Types
<1>3. handler[x] = "queued" /\ CallInv(x)
      /\ (x \in Cli \ Compatible => Rejected(x))
  BY <1>2, <1>a DEF BacklogInv, ConnectionInv
<1>4. Types' /\ Local(x)
  BY <1>1, <1>2, <1>a DEF Types, Local, Handled
<1>5. BacklogInv'
  <2>1. DOMAIN backlog' = 1..(Len(backlog) - 1)
    BY <1>1, <1>2
  <2>2. ASSUME NEW i \in 1..(Len(backlog) - 1)
        PROVE  /\ i + 1 \in DOMAIN backlog /\ 1 \in DOMAIN backlog /\ i + 1 # 1
               /\ backlog'[i] = backlog[i + 1]
    BY <1>1, <1>2
  <2>3. \A i \in DOMAIN backlog' : handler'[backlog'[i]] = "queued"
    <3>1. ASSUME NEW i \in DOMAIN backlog'
          PROVE  handler'[backlog'[i]] = "queued"
      <4>1. backlog'[i] \in Requester \ {x} /\ handler[backlog'[i]] = "queued"
        BY <2>1, <2>2, <1>2, <1>a DEF BacklogInv
      <4> QED
        BY <4>1, <1>1, <1>a DEF Types
    <3> QED
      BY <3>1
  <2>4. ASSUME NEW i \in DOMAIN backlog', NEW j \in DOMAIN backlog', i # j
        PROVE  backlog'[i] # backlog'[j]
    <3>1. i + 1 # j + 1
      BY <2>1, <1>2, <2>4
    <3> QED
      BY <2>1, <2>2, <3>1, <1>a DEF BacklogInv
  <2> QED
    BY <2>3, <2>4 DEF BacklogInv
<1>6. CallInv(x)' /\ (x \in Cli \ Compatible => Rejected(x)')
  BY <1>1, <1>3, <1>a, <1>2
  DEF Types, CallInv, EffectKnown, SuccessIsTrue, NotAsked, Rejected
<1> QED
  BY <1>2, <1>4, <1>5, <1>6, Assemble

LEMMA CrashPreserves ==
  ASSUME ConnectionInv, Crash
  PROVE  ConnectionInv'
<1>1. /\ backlog' = <<>>
      /\ handler' = [c \in Requester |->
                       IF handler[c] = "none" THEN "none" ELSE "closed"]
      /\ UNCHANGED <<status, toDaemon, toClient, effect>>
  BY DEF Crash
<1>2. Types'
  BY <1>1, NothingIn DEF ConnectionInv, Types
<1>3. BacklogInv'
  BY <1>1 DEF BacklogInv
<1>4. ASSUME NEW c \in Requester
      PROVE  CallInv(c)'
  <2>1. CallInv(c)
    BY DEF ConnectionInv
  <2> QED
    BY <1>1, <2>1 DEF CallInv, EffectKnown, SuccessIsTrue, NotAsked
<1>5. ASSUME NEW c \in Cli \ Compatible
      PROVE  Rejected(c)'
  <2>1. Rejected(c)
    BY DEF ConnectionInv
  <2> QED
    BY <1>1, <2>1 DEF Rejected
<1> QED
  BY <1>2, <1>3, <1>4, <1>5 DEF ConnectionInv

LEMMA ConnectionInvStep == ConnectionInv /\ [Next]_vars => ConnectionInv'
<1>1. ASSUME ConnectionInv, StartProcess \/ UNCHANGED vars
      PROVE  ConnectionInv'
  BY <1>1
  DEF StartProcess, vars, ConnectionInv, Types, BacklogInv, CallInv,
      EffectKnown, SuccessIsTrue, NotAsked, Rejected
<1> QED
  BY <1>1, CliPreserves, PeerPreserves, RenewPreserves, ServePreserves,
     AcceptPreserves, CrashPreserves
  DEF Next

THEOREM ConnectionInvCorrect == Spec => []ConnectionInv
BY ConnectionInvInit, ConnectionInvStep, PTL DEF Spec

(* The daemon serves a request without a handshake (src/src/daemon.rs:168),*)
(* but a CLI of an incompatible version never sends one                    *)
(* (src/src/client.rs:129), so nothing is ever done for it.                *)
THEOREM IncompatibleCliChangesNothingCorrect ==
  Spec => []IncompatibleCliChangesNothing
<1>1. ConnectionInv => IncompatibleCliChangesNothing
  BY DEF ConnectionInv, Rejected, CallInv, NotAsked, Requester,
         IncompatibleCliChangesNothing
<1> QED
  BY ConnectionInvCorrect, <1>1, PTL

----------------------------------------------------------------------------
(* Slots, the backlog and the frames on their way.                         *)

(* A CLI and the daemon take turns: there is one frame at most between     *)
(* them, and none while the daemon is at work for the CLI.                 *)
TakesTurns(c) ==
  /\ \/ toDaemon[c] = <<>> /\ toClient[c] = <<>>
     \/ \E frame : toDaemon[c] = <<frame>> /\ toClient[c] = <<>>
     \/ \E frame : toDaemon[c] = <<>> /\ toClient[c] = <<frame>>
  /\ status[c] = "idle" => toDaemon[c] = <<>> /\ toClient[c] = <<>>
  /\ handler[c] \in {"asked", "done", "aborted"} =>
       toDaemon[c] = <<>> /\ toClient[c] = <<>>

LimitsInv ==
  /\ process \in {"down", "up"}
  /\ crashes \in 0..MaxCrashes
  /\ failures \in 0..MaxFailures
  /\ IsFiniteSet(InService) /\ Cardinality(InService) <= Slots
  /\ \A c \in Requester :
       handler[c] = "queued" => \E i \in DOMAIN backlog : backlog[i] = c
  /\ \A c \in Cli : TakesTurns(c)

(* What a step does to the handlers: one connection joins the backlog, or  *)
(* leaves it, or all break, or some go on to be closed.                    *)
LEMMA HandlerSteps ==
  ASSUME ConnectionInv, [Next]_vars
  PROVE  \/ \E x \in Requester :
              /\ handler[x] = "none" /\ backlog' = Append(backlog, x)
              /\ handler' = [handler EXCEPT ![x] = "queued"]
         \/ Accept
         \/ Crash
         \/ /\ UNCHANGED backlog
            /\ \A c \in Requester :
                 /\ handler'[c] = "queued" => handler[c] = "queued"
                 /\ handler'[c] \in Handled => handler[c] \in Handled
<1>a. Types
  BY DEF ConnectionInv
<1>1. ASSUME NEW x \in Requester, Connect(x) \/ PeerConnect(x)
      PROVE  /\ handler[x] = "none" /\ backlog' = Append(backlog, x)
             /\ handler' = [handler EXCEPT ![x] = "queued"]
  BY <1>1 DEF Connect, PeerConnect, Queue, ConnectionInv, CallInv
<1>2. ASSUME NEW x \in Requester, Renew(x) \/ Serve(x)
      PROVE  /\ UNCHANGED backlog
             /\ \A c \in Requester :
                  /\ handler'[c] = "queued" => handler[c] = "queued"
                  /\ handler'[c] \in Handled => handler[c] \in Handled
  <2>1. \/ handler' = handler
        \/ handler' = [handler EXCEPT ![x] = "none"]
        \/ handler' = [handler EXCEPT ![x] = "closed"]
        \/ /\ handler[x] \in Handled
           /\ \E next \in Handled : handler' = [handler EXCEPT ![x] = next]
    BY <1>2
    DEF Renew, Serve, AnswerHandshake, AskStore, Unexpected, EndOfStream,
        Handle, WriteReply, Closes, Reads, Handled
  <2>2. UNCHANGED backlog
    BY <1>2
    DEF Renew, Serve, AnswerHandshake, AskStore, Unexpected, EndOfStream,
        Handle, WriteReply
  <2> QED
    BY <2>1, <2>2, <1>a DEF Types, Handled
<1>3. ASSUME \/ \E c \in Cli : CliStep(c) /\ ~Connect(c)
             \/ \E c \in Peer : PeerStep(c) /\ ~PeerConnect(c)
             \/ StartProcess
             \/ UNCHANGED vars
      PROVE  UNCHANGED <<backlog, handler>>
  BY <1>3
  DEF CliStep, RefuseArguments, NoListener, Greeted, Answered,
      ConnectionClosed, Interrupt, PeerStep, PeerSend, PeerLeave,
      StartProcess, vars
<1> QED
  BY <1>1, <1>2, <1>3 DEF Next, Requester

LEMMA SlotsStep ==
  ASSUME ConnectionInv, LimitsInv, [Next]_vars
  PROVE  IsFiniteSet(InService)' /\ (Cardinality(InService) <= Slots)'
<1>1. Slots \in Nat /\ Cardinality(InService) \in Nat
  BY ConnectionAssumption, FS_CardinalityType DEF LimitsInv
<1>2. ASSUME InService' \subseteq InService
      PROVE  IsFiniteSet(InService)' /\ (Cardinality(InService) <= Slots)'
  <2>1. IsFiniteSet(InService') /\ Cardinality(InService') \in Nat
        /\ Cardinality(InService') <= Cardinality(InService)
    BY <1>2, FS_Subset, FS_CardinalityType DEF LimitsInv
  <2> QED
    BY <1>1, <2>1 DEF LimitsInv
<1>3. CASE Accept
  <2>1. PICK x : x = Head(backlog)
    OBVIOUS
  <2>2. handler' = [handler EXCEPT ![x] = "open"]
        /\ Cardinality(InService) < Slots
    BY <1>3, <2>1 DEF Accept, FreeSlot
  <2>3. x \in Requester /\ Types
    BY <1>3, <2>1, TailIn DEF Accept, ConnectionInv, Types
  <2>4. InService' = InService \cup {x}
    BY <2>2, <2>3 DEF InService, Types, Handled
  <2>5. /\ IsFiniteSet(InService \cup {x})
        /\ Cardinality(InService \cup {x}) <= Cardinality(InService) + 1
    BY <1>1, FS_AddElement DEF LimitsInv
  <2>6. Cardinality(InService \cup {x}) \in Nat
    BY <2>5, FS_CardinalityType
  <2> QED
    BY <1>1, <2>2, <2>4, <2>5, <2>6
<1>4. CASE Crash
  <2>1. InService' = {}
    BY <1>4 DEF Crash, InService, Handled
  <2> QED
    BY <1>2, <2>1
<1>5. ASSUME NEW x \in Requester, handler[x] = "none",
             handler' = [handler EXCEPT ![x] = "queued"]
      PROVE  InService' \subseteq InService
  BY <1>5 DEF InService, Handled, ConnectionInv, Types
<1>6. ASSUME \A c \in Requester :
               handler'[c] \in Handled => handler[c] \in Handled
      PROVE  InService' \subseteq InService
  BY <1>6 DEF InService
<1> QED
  BY <1>2, <1>3, <1>4, <1>5, <1>6, HandlerSteps

LEMMA QueuedStep ==
  ASSUME ConnectionInv, LimitsInv, [Next]_vars
  PROVE  \A c \in Requester :
           handler'[c] = "queued" => \E i \in DOMAIN backlog' : backlog'[i] = c
<1>a. Types /\ backlog \in Seq(Requester)
  BY DEF ConnectionInv, Types
<1> SUFFICES ASSUME NEW c \in Requester, handler'[c] = "queued"
             PROVE  \E i \in DOMAIN backlog' : backlog'[i] = c
  OBVIOUS
<1>1. ASSUME handler[c] = "queued"
      PROVE  \E i \in DOMAIN backlog : backlog[i] = c
  BY <1>1 DEF LimitsInv
<1>2. ASSUME NEW x \in Requester, backlog' = Append(backlog, x),
             handler' = [handler EXCEPT ![x] = "queued"]
      PROVE  \E i \in DOMAIN backlog' : backlog'[i] = c
  <2>1. /\ DOMAIN backlog' = DOMAIN backlog \cup {Len(backlog) + 1}
        /\ backlog'[Len(backlog) + 1] = x
        /\ \A i \in DOMAIN backlog : backlog'[i] = backlog[i]
    BY <1>2, <1>a, AppendProperties
  <2>2. c = x \/ handler[c] = "queued"
    BY <1>2, <1>a DEF Types
  <2> QED
    BY <1>1, <2>1, <2>2
<1>3. CASE Accept
  <2>1. PICK x : x = Head(backlog)
    OBVIOUS
  <2>2. /\ handler' = [handler EXCEPT ![x] = "open"]
        /\ backlog' = Tail(backlog) /\ backlog # <<>>
    BY <1>3, <2>1 DEF Accept
  <2>3. c # x /\ handler[c] = "queued"
    <3>1. x \in Requester
      BY <2>1, <2>2, <1>a, TailIn
    <3> QED
      BY <2>2, <3>1, <1>a DEF Types
  <2>4. PICK i \in DOMAIN backlog : backlog[i] = c
    BY <1>1, <2>3
  <2>5. /\ DOMAIN backlog = 1..Len(backlog) /\ Len(backlog) \in Nat
        /\ backlog[1] = x
        /\ DOMAIN backlog' = 1..(Len(backlog) - 1)
        /\ \A j \in 1..(Len(backlog) - 1) : backlog'[j] = backlog[j + 1]
    BY <2>1, <2>2, <1>a
  <2>6. i # 1
    BY <2>3, <2>4, <2>5
  <2>7. i - 1 \in 1..(Len(backlog) - 1) /\ (i - 1) + 1 = i
    BY <2>5, <2>6
  <2> QED
    BY <2>4, <2>5, <2>7
<1>4. CASE Crash
  BY <1>4 DEF Crash
<1> QED
  BY <1>1, <1>2, <1>3, <1>4, HandlerSteps

LEMMA OneFrame ==
  ASSUME NEW frame
  PROVE  /\ Tail(<<frame>>) = <<>> /\ <<frame>> # <<>>
         /\ Append(<<>>, frame) = <<frame>>
         /\ Len(<<frame>>) = 1
OBVIOUS

LEMMA TurnsKept ==
  ASSUME ConnectionInv, LimitsInv, NEW c \in Cli,
         UNCHANGED <<toDaemon[c], toClient[c]>>,
         status'[c] = "idle" => status[c] = "idle",
         handler'[c] \in {"asked", "done", "aborted"} =>
           handler[c] \in {"asked", "done", "aborted"}
  PROVE  TakesTurns(c)'
BY DEF LimitsInv, TakesTurns

LEMMA OthersTakeTurns ==
  ASSUME ConnectionInv, LimitsInv, NEW x \in Requester, Local(x)
  PROVE  \A c \in Cli \ {x} : TakesTurns(c)'
BY DEF LimitsInv, TakesTurns, Local, Requester

LEMMA CliTakesTurns ==
  ASSUME ConnectionInv, LimitsInv, NEW x \in Cli, CliStep(x)
  PROVE  \A c \in Cli : TakesTurns(c)'
<1>a. Types /\ x \in Requester /\ TakesTurns(x)
  BY DEF ConnectionInv, LimitsInv, Requester
<1>1. CASE RefuseArguments(x) \/ NoListener(x) \/ ConnectionClosed(x)
             \/ Interrupt(x)
  <2>1. PICK next \in {"refused", "failed"} :
          status' = [status EXCEPT ![x] = next]
    BY <1>1 DEF RefuseArguments, NoListener, ConnectionClosed, Interrupt, Lost,
                Becomes
  <2>2. UNCHANGED <<handler, toDaemon, toClient>>
    BY <1>1 DEF RefuseArguments, NoListener, ConnectionClosed, Interrupt
  <2> QED
    BY <2>1, <2>2, <1>a, TurnsKept DEF Types, Requester
<1>2. CASE Connect(x)
  <2>1. /\ status' = [status EXCEPT ![x] = "greeting"]
        /\ handler' = [handler EXCEPT ![x] = "queued"]
        /\ toDaemon' = [toDaemon EXCEPT ![x] = <<"handshake">>]
        /\ UNCHANGED <<toClient, effect>>
        /\ status[x] = "idle"
    BY <1>2 DEF Connect, Queue, Becomes
  <2>2. Local(x)
    BY <2>1, <1>a DEF Types, Local
  <2>3. toClient'[x] = <<>> /\ toDaemon'[x] = <<"handshake">>
    BY <2>1, <1>a DEF Types, TakesTurns
  <2>4. TakesTurns(x)'
    BY <2>1, <2>3, <1>a DEF Types, TakesTurns
  <2> QED
    BY <2>2, <2>4, <1>a, OthersTakeTurns
<1>3. CASE Greeted(x) \/ Answered(x)
  <2>1. /\ toClient[x] # <<>>
        /\ toClient' = [toClient EXCEPT ![x] = Tail(toClient[x])]
        /\ UNCHANGED <<handler, effect>>
    BY <1>3 DEF Greeted, Answered
  <2>2. PICK next \in {"asking", "refused", "ok", "failed"} :
          status' = [status EXCEPT ![x] = next]
    BY <1>3 DEF Greeted, Answered, Becomes
  <2>3. PICK frame :
          \/ toDaemon' = toDaemon
          \/ toDaemon' = [toDaemon EXCEPT ![x] = Append(toDaemon[x], frame)]
    BY <1>3 DEF Greeted, Answered
  <2>4. Local(x)
    BY <2>1, <2>2, <2>3, <1>a DEF Types, Local
  <2>5. toDaemon[x] = <<>> /\ toClient'[x] = <<>>
    BY <2>1, <1>a, OneFrame DEF Types, TakesTurns
  <2>6. toDaemon'[x] = <<>> \/ toDaemon'[x] = <<frame>>
    BY <2>3, <2>5, <1>a, OneFrame DEF Types
  <2>7. /\ handler'[x] \notin {"asked", "done", "aborted"}
        /\ status'[x] # "idle"
    BY <2>1, <2>2, <1>a DEF Types, TakesTurns
  <2>8. TakesTurns(x)'
    BY <2>5, <2>6, <2>7 DEF TakesTurns
  <2> QED
    BY <2>4, <2>8, <1>a, OthersTakeTurns
<1> QED
  BY <1>1, <1>2, <1>3 DEF CliStep

LEMMA ServeTakesTurns ==
  ASSUME ConnectionInv, LimitsInv, NEW x \in Requester, Serve(x)
  PROVE  \A c \in Cli : TakesTurns(c)'
<1>a. Types /\ CallInv(x) /\ status' = status
  BY DEF ConnectionInv, Serve, AnswerHandshake, AskStore, Unexpected,
         EndOfStream, Handle, WriteReply
<1>b. /\ toDaemon' = toDaemon
         \/ toDaemon' = [toDaemon EXCEPT ![x] = Tail(toDaemon[x])]
      /\ toClient' = toClient
         \/ \E frames : toClient' = [toClient EXCEPT ![x] = frames]
      /\ handler' = handler
         \/ \E next : handler' = [handler EXCEPT ![x] = next]
      /\ effect' = effect
         \/ \E outcome : effect' = [effect EXCEPT ![x] = outcome]
  BY DEF Serve, AnswerHandshake, AskStore, Unexpected, EndOfStream, Handle,
         WriteReply, Reads, Closes
<1>c. Local(x)
  BY <1>a, <1>b DEF Types, Local
<1> SUFFICES ASSUME x \in Cli
             PROVE  TakesTurns(x)'
  BY <1>c, OthersTakeTurns
<1>d. TakesTurns(x) /\ x \notin Peer
  BY ConnectionAssumption DEF LimitsInv
<1>e. handler[x] \in Handled => status'[x] # "idle"
  BY <1>a DEF CallInv, Handled
<1>1. CASE AnswerHandshake(x)
  <2>1. /\ handler[x] = "open" /\ toDaemon[x] # <<>>
        /\ toDaemon' = [toDaemon EXCEPT ![x] = Tail(toDaemon[x])]
        /\ \/ handler' = handler
           \/ handler' = [handler EXCEPT ![x] = "closed"]
        /\ \/ toClient' = toClient
           \/ toClient' = [toClient EXCEPT
                             ![x] = Append(toClient[x], HandshakeReplyFor(x))]
    BY <1>1, <1>d DEF AnswerHandshake, Reads, Closes
  <2>2. toDaemon'[x] = <<>> /\ toClient[x] = <<>>
    BY <2>1, <1>a, <1>d, OneFrame DEF Types, TakesTurns
  <2>3. toClient'[x] = <<>> \/ toClient'[x] = <<HandshakeReplyFor(x)>>
    BY <2>1, <2>2, <1>a, OneFrame DEF Types
  <2>4. handler'[x] \in {"open", "closed"}
    BY <2>1, <1>a DEF Types
  <2> QED
    BY <2>1, <2>2, <2>3, <2>4, <1>e DEF TakesTurns, Handled
<1>2. CASE AskStore(x) \/ Unexpected(x)
  <2>1. /\ toDaemon[x] # <<>>
        /\ toDaemon' = [toDaemon EXCEPT ![x] = Tail(toDaemon[x])]
        /\ UNCHANGED toClient
    BY <1>2 DEF AskStore, Unexpected, Reads
  <2>2. toDaemon'[x] = <<>> /\ toClient'[x] = <<>>
    BY <2>1, <1>a, <1>d, OneFrame DEF Types, TakesTurns
  <2> QED
    BY <2>2 DEF TakesTurns
<1>3. CASE EndOfStream(x)
  <2>1. handler'[x] = "closed" /\ UNCHANGED <<toDaemon, toClient>>
    BY <1>3, <1>a DEF EndOfStream, Closes, Types
  <2> QED
    BY <2>1, <1>a, TurnsKept
<1>4. CASE Handle(x)
  <2>1. handler[x] = "asked" /\ UNCHANGED <<toDaemon, toClient>>
    BY <1>4 DEF Handle
  <2> QED
    BY <2>1, <1>a, TurnsKept
<1>5. CASE WriteReply(x)
  <2> DEFINE answer == Append(toClient[x], ReplyOf(handler[x]))
             replies == IF x \in Peer \/ Ended(x) THEN toClient[x] ELSE answer
  <2>1. /\ handler[x] \in {"done", "aborted"}
        /\ handler' = [handler EXCEPT ![x] = "closed"]
        /\ UNCHANGED toDaemon
        /\ toClient' = [toClient EXCEPT ![x] = replies]
    BY <1>5 DEF WriteReply, Closes
  <2>2. /\ toDaemon'[x] = <<>> /\ toClient[x] = <<>>
        /\ toClient'[x] = replies
        /\ handler'[x] = "closed"
    <3> HIDE DEF replies
    <3> QED
      BY <2>1, <1>a, <1>d DEF Types, TakesTurns
  <2>3. toClient'[x] = <<>> \/ toClient'[x] = <<ReplyOf(handler[x])>>
    BY <2>2, OneFrame
  <2> QED
    BY <2>1, <2>2, <2>3, <1>e DEF TakesTurns, Handled
<1> QED
  BY <1>1, <1>2, <1>3, <1>4, <1>5 DEF Serve

LEMMA TurnsStep ==
  ASSUME ConnectionInv, LimitsInv, [Next]_vars
  PROVE  \A c \in Cli : TakesTurns(c)'
<1>a. Types
  BY DEF ConnectionInv
<1>1. ASSUME NEW x \in Peer, PeerStep(x)
      PROVE  \A c \in Cli : TakesTurns(c)'
  <2>1. x \in Requester /\ Cli \ {x} = Cli
    BY ConnectionAssumption DEF Requester
  <2>2. Local(x)
    BY <1>1, <1>a
    DEF Types, Local, PeerStep, PeerConnect, PeerSend, PeerLeave, Queue,
        Becomes
  <2> QED
    BY <2>1, <2>2, OthersTakeTurns
<1>2. ASSUME NEW x \in Requester, Renew(x)
      PROVE  \A c \in Cli : TakesTurns(c)'
  <2>1. Local(x) /\ toDaemon'[x] = <<>> /\ toClient'[x] = <<>>
    BY <1>2, <1>a DEF Types, Local, Renew, Becomes
  <2>2. TakesTurns(x)'
    BY <2>1 DEF TakesTurns
  <2> QED
    BY <2>1, <2>2, OthersTakeTurns
<1>3. CASE Accept
  <2>1. PICK x \in Requester : x = Head(backlog)
    BY <1>3, <1>a, TailIn DEF Accept, Types
  <2>2. handler' = [handler EXCEPT ![x] = "open"]
        /\ UNCHANGED <<status, toDaemon, toClient>>
    BY <1>3, <2>1 DEF Accept
  <2>3. \A c \in Cli : handler'[c] \in {"asked", "done", "aborted"} =>
                         handler[c] \in {"asked", "done", "aborted"}
    BY <2>2, <1>a DEF Types, Requester
  <2> QED
    BY <2>2, <2>3, TurnsKept
<1>4. CASE Crash
  <2>1. \A c \in Cli : handler'[c] \notin {"asked", "done", "aborted"}
    BY <1>4 DEF Crash, Requester
  <2> QED
    BY <1>4, <2>1, TurnsKept DEF Crash
<1>5. CASE StartProcess \/ UNCHANGED vars
  BY <1>5, TurnsKept DEF StartProcess, vars
<1> QED
  BY <1>1, <1>2, <1>3, <1>4, <1>5, CliTakesTurns, ServeTakesTurns DEF Next

LEMMA FaultsStep ==
  ASSUME LimitsInv, [Next]_vars
  PROVE  /\ process' \in {"down", "up"}
         /\ crashes' \in 0..MaxCrashes
         /\ failures' \in 0..MaxFailures
<1>1. process' = process \/ process' \in {"down", "up"}
  BY DEF Next, CliStep, PeerStep, Serve, RefuseArguments, NoListener, Connect,
         Greeted, Answered, ConnectionClosed, Interrupt, PeerConnect, PeerSend,
         PeerLeave, Renew, AnswerHandshake, AskStore, Unexpected, EndOfStream,
         Handle, WriteReply, Accept, StartProcess, Crash, vars
<1>2. crashes' = crashes \/ (crashes < MaxCrashes /\ crashes' = crashes + 1)
  BY DEF Next, CliStep, PeerStep, Serve, RefuseArguments, NoListener, Connect,
         Greeted, Answered, ConnectionClosed, Interrupt, PeerConnect, PeerSend,
         PeerLeave, Renew, AnswerHandshake, AskStore, Unexpected, EndOfStream,
         Handle, WriteReply, Accept, StartProcess, Crash, vars, faultVars
<1>3. failures' = failures \/ Failure
  BY DEF Next, CliStep, PeerStep, Serve, RefuseArguments, NoListener, Connect,
         Greeted, Answered, ConnectionClosed, Interrupt, PeerConnect, PeerSend,
         PeerLeave, Renew, AnswerHandshake, AskStore, Unexpected, EndOfStream,
         Handle, WriteReply, Accept, StartProcess, Crash, vars, faultVars
<1> QED
  BY <1>1, <1>2, <1>3, ConnectionAssumption DEF LimitsInv, Failure

(* The daemon never serves more connections than it has slots; one that    *)
(* waits is in the backlog; and a CLI and the daemon take turns, so that   *)
(* there is never more than one frame of theirs to be read                 *)
(* (src/src/daemon.rs:156, src/src/client.rs:88).                          *)
THEOREM ConnectionTypeCorrect == Spec => []TypeOK
<1>1. Init => LimitsInv
  <2> SUFFICES ASSUME Init
               PROVE  LimitsInv
    OBVIOUS
  <2>1. InService = {}
    BY DEF Init, InService, Handled
  <2>2. IsFiniteSet(InService) /\ Cardinality(InService) <= Slots
    BY <2>1, FS_EmptySet, ConnectionAssumption
  <2>3. \A c \in Cli : TakesTurns(c)
    BY DEF Init, TakesTurns, Requester
  <2> QED
    BY <2>2, <2>3, ConnectionAssumption DEF Init, LimitsInv
<1>2. ConnectionInv /\ LimitsInv /\ [Next]_vars => LimitsInv'
  BY SlotsStep, QueuedStep, TurnsStep, FaultsStep DEF LimitsInv
<1>3. ConnectionInv /\ LimitsInv => TypeOK
  <2> SUFFICES ASSUME ConnectionInv, LimitsInv
               PROVE  TypeOK
    OBVIOUS
  <2>1. \A c \in Cli : Len(toDaemon[c]) + Len(toClient[c]) <= 1
    <3> SUFFICES ASSUME NEW c \in Cli
                 PROVE  Len(toDaemon[c]) + Len(toClient[c]) <= 1
      OBVIOUS
    <3>1. TakesTurns(c)
      BY DEF LimitsInv
    <3>2. CASE toDaemon[c] = <<>> /\ toClient[c] = <<>>
      BY <3>2
    <3>3. ASSUME NEW frame, toDaemon[c] = <<frame>>, toClient[c] = <<>>
          PROVE  Len(toDaemon[c]) + Len(toClient[c]) <= 1
      BY <3>3, OneFrame
    <3>4. ASSUME NEW frame, toDaemon[c] = <<>>, toClient[c] = <<frame>>
          PROVE  Len(toDaemon[c]) + Len(toClient[c]) <= 1
      BY <3>4, OneFrame
    <3> QED
      BY <3>1, <3>2, <3>3, <3>4 DEF TakesTurns
  <2> QED
    BY <2>1 DEF ConnectionInv, Types, BacklogInv, LimitsInv, TypeOK
<1> QED
  BY <1>1, <1>2, <1>3, ConnectionInvCorrect, PTL DEF Spec

----------------------------------------------------------------------------
(* The refinement: what each step is to the sender and to the store.       *)

LEMMA RpcInit == Init => RPC!RpcInit
BY DEF Init, RPC!RpcInit, Phase

(* A step in which x, if anyone, learns something.                         *)
LEMMA PhaseBecomes ==
  ASSUME Types, NEW x \in Requester, NEW state,
         status' = [status EXCEPT ![x] = state]
  PROVE  Phase' = [Phase EXCEPT
                     ![x] = IF state \in {"greeting", "asking", "connected"}
                            THEN "waiting" ELSE state]
BY DEF Types, Phase

LEMMA RpcStep ==
  ConnectionInv /\ [Next]_vars => [RPC!RpcNext]_<<Phase, effect>>
<1> SUFFICES ASSUME ConnectionInv, [Next]_vars
             PROVE  RPC!RpcNext \/ (Phase' = Phase /\ effect' = effect)
  BY DEF RPC!rpcVars
<1>a. Types
  BY DEF ConnectionInv
<1>1. ASSUME NEW x \in Cli, CliStep(x)
      PROVE  RPC!RpcNext \/ (Phase' = Phase /\ effect' = effect)
  <2>1. x \in Requester /\ CallInv(x) /\ effect' = effect
    BY <1>1
    DEF ConnectionInv, Requester, CliStep, RefuseArguments, NoListener,
        Connect, Greeted, Answered, ConnectionClosed, Interrupt
  <2>2. Phase[x] = IF status[x] \in {"greeting", "asking", "connected"}
                   THEN "waiting" ELSE status[x]
    BY <2>1 DEF Phase
  <2>3. CASE RefuseArguments(x) \/ NoListener(x)
    <3>1. RPC!Refuse(x)
      BY <2>1, <2>2, <2>3, <1>a, PhaseBecomes
      DEF RefuseArguments, NoListener, Becomes, CallInv, NotAsked, RPC!Refuse
    <3> QED
      BY <2>1, <3>1 DEF RPC!RpcNext
  <2>4. CASE Connect(x)
    <3>1. RPC!Invoke(x)
      BY <2>1, <2>2, <2>4, <1>a, PhaseBecomes
      DEF Connect, Queue, Becomes, RPC!Invoke
    <3> QED
      BY <2>1, <3>1 DEF RPC!RpcNext
  <2>5. CASE Greeted(x)
    <3>1. CASE status' = [status EXCEPT ![x] = "asking"]
      <4>1. Phase' = Phase
        BY <2>1, <2>5, <3>1, <1>a, PhaseBecomes DEF Greeted, Phase
      <4> QED
        BY <2>1, <4>1
    <3>2. CASE status' = [status EXCEPT ![x] = "refused"]
      <4>1. RPC!Refuse(x)
        BY <2>1, <2>2, <2>5, <3>2, <1>a, PhaseBecomes
        DEF Greeted, CallInv, NotAsked, RPC!Refuse
      <4> QED
        BY <2>1, <4>1 DEF RPC!RpcNext
    <3> QED
      BY <2>5, <3>1, <3>2 DEF Greeted, Becomes
  <2>6. CASE Answered(x)
    <3>1. CASE /\ status' = [status EXCEPT ![x] = "ok"]
               /\ Head(toClient[x]) = "committed"
      <4>1. effect[x] = "done"
        BY <2>1, <2>6, <3>1, TailIn DEF Answered, CallInv, SuccessIsTrue
      <4>2. RPC!Succeed(x)
        BY <2>1, <2>2, <2>6, <3>1, <4>1, <1>a, PhaseBecomes
        DEF Answered, RPC!Succeed
      <4> QED
        BY <2>1, <4>2 DEF RPC!RpcNext
    <3>2. CASE status' = [status EXCEPT ![x] = "failed"]
      <4>1. RPC!Fail(x)
        BY <2>1, <2>2, <2>6, <3>2, <1>a, PhaseBecomes DEF Answered, RPC!Fail
      <4> QED
        BY <2>1, <4>1 DEF RPC!RpcNext
    <3> QED
      BY <2>6, <3>1, <3>2 DEF Answered, Becomes
  <2>7. CASE ConnectionClosed(x) \/ Interrupt(x)
    <3>1. /\ status' = [status EXCEPT ![x] = Lost(x)]
          /\ status[x] \in {"greeting", "asking"}
      BY <2>7 DEF ConnectionClosed, Interrupt, Becomes
    <3>2. CASE status[x] = "greeting"
      <4>1. RPC!Refuse(x)
        BY <2>1, <2>2, <3>1, <3>2, <1>a, PhaseBecomes
        DEF Lost, CallInv, NotAsked, RPC!Refuse
      <4> QED
        BY <2>1, <4>1 DEF RPC!RpcNext
    <3>3. CASE status[x] = "asking"
      <4>1. RPC!Fail(x)
        BY <2>1, <2>2, <3>1, <3>3, <1>a, PhaseBecomes DEF Lost, RPC!Fail
      <4> QED
        BY <2>1, <4>1 DEF RPC!RpcNext
    <3> QED
      BY <3>1, <3>2, <3>3
  <2> QED
    BY <1>1, <2>3, <2>4, <2>5, <2>6, <2>7 DEF CliStep
<1>2. ASSUME NEW x \in Peer, PeerStep(x)
      PROVE  RPC!RpcNext \/ (Phase' = Phase /\ effect' = effect)
  <2>1. x \in Requester /\ effect' = effect
    BY <1>2 DEF Requester, PeerStep, PeerConnect, PeerSend, PeerLeave
  <2>2. Phase[x] = IF status[x] \in {"greeting", "asking", "connected"}
                   THEN "waiting" ELSE status[x]
    BY <2>1 DEF Phase
  <2>3. CASE PeerConnect(x)
    <3>1. RPC!Invoke(x)
      BY <2>1, <2>2, <2>3, <1>a, PhaseBecomes
      DEF PeerConnect, Queue, Becomes, RPC!Invoke
    <3> QED
      BY <2>1, <3>1 DEF RPC!RpcNext
  <2>4. CASE PeerLeave(x)
    <3>1. RPC!Fail(x)
      BY <2>1, <2>2, <2>4, <1>a, PhaseBecomes
      DEF PeerLeave, Becomes, RPC!Fail
    <3> QED
      BY <2>1, <3>1 DEF RPC!RpcNext
  <2>5. ASSUME NEW frame \in ClientFrame, PeerSend(x, frame)
        PROVE  Phase' = Phase
    BY <2>5 DEF PeerSend, Phase
  <2> QED
    BY <1>2, <2>1, <2>3, <2>4, <2>5 DEF PeerStep
<1>3. ASSUME NEW x \in Requester, Renew(x)
      PROVE  RPC!RpcNext
  <2>1. RPC!Again(x)
    BY <1>3, <1>a, PhaseBecomes
    DEF Renew, Becomes, Ended, Phase, RPC!Again
  <2> QED
    BY <2>1 DEF RPC!RpcNext
<1>4. ASSUME NEW x \in Requester, Serve(x)
      PROVE  RPC!RpcNext \/ (Phase' = Phase /\ effect' = effect)
  <2>1. status' = status /\ CallInv(x)
    BY <1>4
    DEF ConnectionInv, Serve, AnswerHandshake, AskStore, Unexpected,
        EndOfStream, Handle, WriteReply
  <2>2. Phase' = Phase
    BY <2>1 DEF Phase
  <2>3. CASE Handle(x)
    <3>1. /\ effect[x] = "none"
          /\ status[x] \in {"asking", "connected", "failed"}
      BY <2>1, <2>3, <1>a
      DEF Handle, Types, CallInv, EffectKnown, NotAsked
    <3>2. RPC!TakeEffect(x)
      BY <2>2, <2>3, <3>1 DEF Handle, Phase, RPC!TakeEffect
    <3> QED
      BY <3>2 DEF RPC!RpcNext
  <2>4. CASE ~Handle(x)
    <3>1. effect' = effect
      BY <1>4, <2>4
      DEF Serve, AnswerHandshake, AskStore, Unexpected, EndOfStream,
          WriteReply
    <3> QED
      BY <2>2, <3>1
  <2> QED
    BY <2>3, <2>4
<1>5. ASSUME Accept \/ StartProcess \/ Crash \/ UNCHANGED vars
      PROVE  Phase' = Phase /\ effect' = effect
  BY <1>5 DEF Accept, StartProcess, Crash, vars, Phase
<1> QED
  BY <1>1, <1>2, <1>3, <1>4, <1>5 DEF Next

(* However a connection breaks, and whatever is sent on it, it is an       *)
(* at-most-once call (src/src/client.rs:55, src/src/daemon.rs:156).        *)
THEOREM ConnectionImplementsRequestReply == Spec => AtMostOnce
BY RpcInit, RpcStep, ConnectionInvCorrect, PTL
DEF Spec, AtMostOnce, RPC!RpcSpec, RPC!rpcVars

============================================================================
