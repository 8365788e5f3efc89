----------------------------- MODULE Connection -----------------------------
(***************************************************************************)
(* One request over one Signal connection: the CLI (src/src/client.rs),    *)
(* the listener of the generated shell (src/src/schema/daemon.rs) and the  *)
(* handler of a connection (src/src/daemon.rs).  The working and the meta  *)
(* tier differ in the contract of their frames only.                       *)
(*                                                                         *)
(* The CLI waits for the answer to its handshake before it sends its       *)
(* request.  The daemon does not insist: it answers a handshake as often   *)
(* as one comes, and serves a request that comes without.  So besides the  *)
(* CLIs there are peers, which send what they like, or nothing: a frame is *)
(* read without a timeout.                                                 *)
(*                                                                         *)
(* The listener belongs to triad-runtime: it accepts connections in their  *)
(* order while fewer than Slots of them are being handled.                 *)
(***************************************************************************)
EXTENDS Naturals, Sequences, FiniteSets

CONSTANTS
  Cli,          \* the CLIs, each of which runs again and again
  Peer,         \* other programs that connect
  Compatible,   \* the CLIs whose protocol version the daemon accepts
  Slots,        \* request_concurrency_limit
  MaxFrames,    \* bound on the unread frames of a peer
  MaxCrashes,   \* bound on the daemon's crashes
  MaxFailures   \* bound on the requests that fail

ASSUME ConnectionAssumption ==
  /\ Cli \cap Peer = {}
  /\ Compatible \subseteq Cli
  /\ Slots \in Nat \ {0}
  /\ MaxFrames \in Nat
  /\ MaxCrashes \in Nat
  /\ MaxFailures \in Nat

VARIABLES
  process,    \* the daemon process: "down" or "up"
  status,     \* how far each CLI or peer has got
  backlog,    \* connections the listener has yet to accept
  handler,    \* the daemon's side of each connection
  toDaemon,   \* frames written by the client and not read yet
  toClient,   \* frames written by the daemon and not read yet
  effect,     \* history: what the store has done for the connection
  crashes,    \* crashes so far
  failures    \* failures so far

faultVars == <<crashes, failures>>
vars == <<process, status, backlog, handler, toDaemon, toClient, effect,
          faultVars>>

Requester == Cli \cup Peer

(* Foreign stands for every frame but a handshake or a request, and for    *)
(* what does not decode as one or is too long to be read.                  *)
ClientFrame == {"handshake", "request", "foreign"}
DaemonFrame == {"accepted", "rejected", "committed", "aborted"}

Ended(c) == status[c] \in {"ok", "refused", "failed"}

Handled == {"open", "asked", "done", "aborted"}
InService == {c \in Requester : handler[c] \in Handled}
FreeSlot == Cardinality(InService) < Slots

TypeOK ==
  /\ process \in {"down", "up"}
  /\ status \in [Requester -> {"idle", "greeting", "asking", "connected",
                               "ok", "refused", "failed"}]
  /\ backlog \in Seq(Requester)
  /\ handler \in [Requester -> {"none", "queued", "closed"} \cup Handled]
  /\ toDaemon \in [Requester -> Seq(ClientFrame)]
  /\ toClient \in [Requester -> Seq(DaemonFrame)]
  /\ effect \in [Requester -> {"none", "done", "aborted"}]
  /\ crashes \in 0..MaxCrashes
  /\ failures \in 0..MaxFailures
  /\ Cardinality(InService) <= Slots
  /\ \A c \in Requester :
       handler[c] = "queued" <=> \E i \in DOMAIN backlog : backlog[i] = c
  /\ \A c \in Cli : Len(toDaemon[c]) + Len(toClient[c]) <= 1

Init ==
  /\ process = "down"
  /\ status = [c \in Requester |-> "idle"]
  /\ backlog = <<>>
  /\ handler = [c \in Requester |-> "none"]
  /\ toDaemon = [c \in Requester |-> <<>>]
  /\ toClient = [c \in Requester |-> <<>>]
  /\ effect = [c \in Requester |-> "none"]
  /\ crashes = 0
  /\ failures = 0

Failure == failures < MaxFailures /\ failures' = failures + 1

Becomes(c, state) == status' = [status EXCEPT ![c] = state]

----------------------------------------------------------------------------
(* The CLI: send_working and send_meta.                                    *)

(* CommandLineInput: not one argument, a flag, a file that cannot be read, *)
(* or text that is not an operation of the tier.                           *)
RefuseArguments(c) ==
  /\ status[c] = "idle"
  /\ Becomes(c, "refused")
  /\ UNCHANGED <<process, backlog, handler, toDaemon, toClient, effect,
                 faultVars>>

(* Without a listener, connect fails.                                      *)
NoListener(c) ==
  /\ status[c] = "idle"
  /\ process = "down"
  /\ Becomes(c, "refused")
  /\ UNCHANGED <<process, backlog, handler, toDaemon, toClient, effect,
                 faultVars>>

Queue(c) ==
  /\ status[c] = "idle"
  /\ process = "up"
  /\ backlog' = Append(backlog, c)
  /\ handler' = [handler EXCEPT ![c] = "queued"]

(* The request written right after the handshake.                          *)
ConnectPipelining(c) ==
  /\ Queue(c)
  /\ Becomes(c, "greeting")
  /\ toDaemon' = [toDaemon EXCEPT ![c] = <<"handshake", "request">>]
  /\ UNCHANGED <<process, toClient, effect, faultVars>>

(* The kernel completes the connect, and the handshake fits its buffer.    *)
Connect(c) ==
  /\ Queue(c)
  /\ Becomes(c, "greeting")
  /\ toDaemon' = [toDaemon EXCEPT ![c] = <<"handshake">>]
  /\ UNCHANGED <<process, toClient, effect, faultVars>>

(* handshake_working and handshake_meta, and the request, which may be too *)
(* long for the daemon to read, and which cannot be written any more if    *)
(* the daemon has closed the connection meanwhile.                         *)
Greeted(c) ==
  /\ status[c] = "greeting"
  /\ toClient[c] # <<>>
  /\ toClient' = [toClient EXCEPT ![c] = Tail(@)]
  /\ IF Head(toClient[c]) = "accepted" /\ handler[c] # "closed"
     THEN /\ Becomes(c, "asking")
          /\ \E frame \in {"request", "foreign"} :
               toDaemon' = [toDaemon EXCEPT ![c] = Append(@, frame)]
     ELSE /\ Becomes(c, "refused")
          /\ UNCHANGED toDaemon
  /\ UNCHANGED <<process, backlog, handler, effect, faultVars>>

(* unwrap_single_reply: the commit status of an aborted batch is dropped.  *)
(* A reply longer than the client reads is a failure, too.                 *)
Answered(c) ==
  /\ status[c] = "asking"
  /\ toClient[c] # <<>>
  /\ toClient' = [toClient EXCEPT ![c] = Tail(@)]
  /\ \/ /\ Becomes(c, IF Head(toClient[c]) = "committed" THEN "ok"
                                                         ELSE "failed")
        /\ UNCHANGED failures
     \/ Becomes(c, "failed") /\ Failure
  /\ UNCHANGED <<process, backlog, handler, toDaemon, effect, crashes>>

(* What a CLI that gives up here has done: nothing, or it does not know.   *)
Lost(c) == IF status[c] = "greeting" THEN "refused" ELSE "failed"

(* Reading fails at the end of a stream that the daemon has closed.        *)
ConnectionClosed(c) ==
  /\ status[c] \in {"greeting", "asking"}
  /\ toClient[c] = <<>>
  /\ handler[c] = "closed"
  /\ Becomes(c, Lost(c))
  /\ UNCHANGED <<process, backlog, handler, toDaemon, toClient, effect,
                 faultVars>>

(* Someone stops the CLI.                                                  *)
Interrupt(c) ==
  /\ status[c] \in {"greeting", "asking"}
  /\ Becomes(c, Lost(c))
  /\ UNCHANGED <<process, backlog, handler, toDaemon, toClient, effect,
                 faultVars>>

----------------------------------------------------------------------------
(* Other peers.                                                            *)

PeerConnect(c) ==
  /\ Queue(c)
  /\ Becomes(c, "connected")
  /\ UNCHANGED <<process, toDaemon, toClient, effect, faultVars>>

PeerSend(c, frame) ==
  /\ status[c] = "connected"
  /\ handler[c] # "closed"
  /\ Len(toDaemon[c]) < MaxFrames
  /\ toDaemon' = [toDaemon EXCEPT ![c] = Append(@, frame)]
  /\ UNCHANGED <<process, status, backlog, handler, toClient, effect,
                 faultVars>>

PeerLeave(c) ==
  /\ status[c] = "connected"
  /\ Becomes(c, "failed")
  /\ UNCHANGED <<process, backlog, handler, toDaemon, toClient, effect,
                 faultVars>>

(* A new connection, once nothing is left of the last one.                 *)
Renew(c) ==
  /\ Ended(c)
  /\ handler[c] \in {"none", "closed"}
  /\ Becomes(c, "idle")
  /\ handler' = [handler EXCEPT ![c] = "none"]
  /\ toDaemon' = [toDaemon EXCEPT ![c] = <<>>]
  /\ toClient' = [toClient EXCEPT ![c] = <<>>]
  /\ effect' = [effect EXCEPT ![c] = "none"]
  /\ UNCHANGED <<process, backlog, faultVars>>

----------------------------------------------------------------------------
(* The daemon: one task per accepted connection.                           *)

Accept ==
  /\ process = "up"
  /\ backlog # <<>>
  /\ FreeSlot
  /\ backlog' = Tail(backlog)
  /\ handler' = [handler EXCEPT ![Head(backlog)] = "open"]
  /\ UNCHANGED <<process, status, toDaemon, toClient, effect, faultVars>>

(* The task reads the next frame.                                          *)
Reads(c, frame) ==
  /\ handler[c] = "open"
  /\ toDaemon[c] # <<>>
  /\ Head(toDaemon[c]) = frame
  /\ toDaemon' = [toDaemon EXCEPT ![c] = Tail(@)]

Closes(c) == handler' = [handler EXCEPT ![c] = "closed"]

HandshakeReplyFor(c) ==
  IF c \in Compatible \cup Peer THEN "accepted" ELSE "rejected"

(* The loop goes on after a handshake, also after one it has rejected; a   *)
(* reply cannot be written to a client that is gone.  What peers do with   *)
(* their answers is up to them.                                            *)
AnswerHandshake(c) ==
  /\ Reads(c, "handshake")
  /\ IF Ended(c) THEN Closes(c) /\ UNCHANGED toClient
     ELSE /\ toClient' = [toClient EXCEPT
                            ![c] = IF c \in Peer THEN @
                                   ELSE Append(@, HandshakeReplyFor(c))]
          /\ UNCHANGED handler
  /\ UNCHANGED <<process, status, backlog, effect, faultVars>>

(* The request goes to the store actor, or there is no store actor.        *)
AskStore(c) ==
  /\ Reads(c, "request")
  /\ \/ handler' = [handler EXCEPT ![c] = "asked"] /\ UNCHANGED failures
     \/ Closes(c) /\ Failure
  /\ UNCHANGED <<process, status, backlog, toClient, effect, crashes>>


(* A frame of any other kind, or one that cannot be read, ends the task.   *)
Unexpected(c) ==
  /\ Reads(c, "foreign")
  /\ Closes(c)
  /\ UNCHANGED <<process, status, backlog, toClient, effect, faultVars>>

(* So does the end of the stream.                                          *)
EndOfStream(c) ==
  /\ handler[c] = "open"
  /\ toDaemon[c] = <<>>
  /\ Ended(c)
  /\ Closes(c)
  /\ UNCHANGED <<process, status, backlog, toDaemon, toClient, effect,
                 faultVars>>

(* The store actor handles the request, whether or not its client is still *)
(* there: the method succeeds or fails.                                    *)
Handle(c) ==
  /\ handler[c] = "asked"
  /\ \E outcome \in {"done", "aborted"} :
       /\ outcome = "aborted" => Failure
       /\ outcome = "done" => UNCHANGED failures
       /\ handler' = [handler EXCEPT ![c] = outcome]
       /\ effect' = [effect EXCEPT ![c] = outcome]
  /\ UNCHANGED <<process, status, backlog, toDaemon, toClient, crashes>>

ReplyOf(outcome) == IF outcome = "done" THEN "committed" ELSE "aborted"

(* Reading on after the reply.                                             *)
WriteReplyAndReadOn(c) ==
  /\ handler[c] \in {"done", "aborted"}
  /\ toClient' = [toClient EXCEPT
                    ![c] = IF c \in Peer \/ Ended(c) THEN @
                           ELSE Append(@, ReplyOf(handler[c]))]
  /\ handler' = [handler EXCEPT ![c] = "open"]
  /\ UNCHANGED <<process, status, backlog, toDaemon, effect, faultVars>>

(* The reply is written, if anyone is left to read it, and the connection  *)
(* is closed after its one request.                                        *)
WriteReply(c) ==
  /\ handler[c] \in {"done", "aborted"}
  /\ toClient' = [toClient EXCEPT
                    ![c] = IF c \in Peer \/ Ended(c) THEN @
                           ELSE Append(@, ReplyOf(handler[c]))]
  /\ Closes(c)
  /\ UNCHANGED <<process, status, backlog, toDaemon, effect, faultVars>>

----------------------------------------------------------------------------
(* The process.                                                            *)

StartProcess ==
  /\ process = "down"
  /\ process' = "up"
  /\ UNCHANGED <<status, backlog, handler, toDaemon, toClient, effect,
                 faultVars>>

(* Every connection breaks.  What has been written to a client can still   *)
(* be read.                                                                *)
Crash ==
  /\ process = "up"
  /\ crashes < MaxCrashes
  /\ crashes' = crashes + 1
  /\ process' = "down"
  /\ backlog' = <<>>
  /\ handler' = [c \in Requester |->
                   IF handler[c] = "none" THEN "none" ELSE "closed"]
  /\ UNCHANGED <<status, toDaemon, toClient, effect, failures>>

----------------------------------------------------------------------------

CliStep(c) ==
  \/ RefuseArguments(c)
  \/ NoListener(c)
  \/ Connect(c)
  \/ Greeted(c)
  \/ Answered(c)
  \/ ConnectionClosed(c)
  \/ Interrupt(c)

PeerStep(c) ==
  \/ PeerConnect(c)
  \/ \E frame \in ClientFrame : PeerSend(c, frame)
  \/ PeerLeave(c)

Serve(c) ==
  \/ AnswerHandshake(c)
  \/ AskStore(c)
  \/ Unexpected(c)
  \/ EndOfStream(c)
  \/ Handle(c)
  \/ WriteReply(c)

Next ==
  \/ \E c \in Cli : CliStep(c)
  \/ \E c \in Peer : PeerStep(c)
  \/ \E c \in Requester : Renew(c) \/ Serve(c)
  \/ Accept
  \/ StartProcess
  \/ Crash

Spec == Init /\ [][Next]_vars

(* The tokio runtime keeps polling the listener and the tasks that can     *)
(* move, the service manager starts a daemon that is down, and a CLI goes  *)
(* on once it has what it waits for.  A peer need not do anything.         *)
Fairness ==
  /\ \A c \in Cli : WF_vars(Greeted(c) \/ Answered(c) \/ ConnectionClosed(c))
  /\ \A c \in Requester : WF_vars(Serve(c))
  /\ WF_vars(Accept)
  /\ WF_vars(StartProcess)

FairSpec == Spec /\ Fairness

----------------------------------------------------------------------------
(* Properties.                                                             *)

Phase ==
  [c \in Requester |->
     IF status[c] \in {"greeting", "asking", "connected"} THEN "waiting"
                                                          ELSE status[c]]

RPC == INSTANCE RequestReply WITH phase <- Phase, effect <- effect

(* A connection is an at-most-once call.  Whatever is sent on it, and      *)
(* wherever it breaks, one request at most is handled; a CLI that prints a *)
(* reply has had its effect; one that failed before it sent its request    *)
(* has had none and will have none.                                        *)
AtMostOnce == RPC!RpcSpec

(* The daemon serves a request that no handshake came before, so only the  *)
(* CLI can keep a request of an incompatible version from the store.  It   *)
(* does: it waits for the answer before it sends the request.              *)
IncompatibleCliChangesNothing ==
  \A c \in Cli \ Compatible : effect[c] = "none"

(* Every CLI that connected comes to an end, unless peers that never ask   *)
(* for anything hold every slot for ever: they are the one thing that can  *)
(* keep a CLI waiting, since neither side has a timeout.                   *)
PeersHoldEverySlot == Cardinality({c \in Peer : handler[c] = "open"}) = Slots


============================================================================
