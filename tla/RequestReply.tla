---------------------------- MODULE RequestReply ----------------------------
(***************************************************************************)
(* What a client of the ledger may rely on for one request, whatever       *)
(* happens to the connection it is sent on: the request takes effect at    *)
(* most once; success is reported only after it has; a client that was     *)
(* refused has changed nothing and never will; and a client that failed    *)
(* knows nothing, since its request may take effect even after that.       *)
(*                                                                         *)
(* Connection.tla implements this specification (AtMostOnce there).        *)
(***************************************************************************)
CONSTANT Requester     \* whoever connects, one request at a time

VARIABLES
  phase,    \* what each requester knows of its request
  effect    \* what the store has done for it

rpcVars == <<phase, effect>>

RpcTypeOK ==
  /\ phase \in [Requester -> {"idle", "waiting", "ok", "refused", "failed"}]
  /\ effect \in [Requester -> {"none", "done", "aborted"}]

RpcInit ==
  /\ phase = [c \in Requester |-> "idle"]
  /\ effect = [c \in Requester |-> "none"]

Invoke(c) ==
  /\ phase[c] = "idle"
  /\ phase' = [phase EXCEPT ![c] = "waiting"]
  /\ UNCHANGED effect

(* The method succeeds, or stops half way with its engine error.           *)
TakeEffect(c) ==
  /\ phase[c] \in {"waiting", "failed"}
  /\ effect[c] = "none"
  /\ \E outcome \in {"done", "aborted"} :
       effect' = [effect EXCEPT ![c] = outcome]
  /\ UNCHANGED phase

Succeed(c) ==
  /\ phase[c] = "waiting"
  /\ effect[c] = "done"
  /\ phase' = [phase EXCEPT ![c] = "ok"]
  /\ UNCHANGED effect

(* Also a requester that is not served at all, without having waited.      *)
Refuse(c) ==
  /\ phase[c] \in {"idle", "waiting"}
  /\ effect[c] = "none"
  /\ phase' = [phase EXCEPT ![c] = "refused"]
  /\ UNCHANGED effect

Fail(c) ==
  /\ phase[c] = "waiting"
  /\ phase' = [phase EXCEPT ![c] = "failed"]
  /\ UNCHANGED effect

(* The next request of the same requester.                                 *)
Again(c) ==
  /\ phase[c] \in {"ok", "refused", "failed"}
  /\ phase' = [phase EXCEPT ![c] = "idle"]
  /\ effect' = [effect EXCEPT ![c] = "none"]

RpcNext ==
  \E c \in Requester :
    Invoke(c) \/ TakeEffect(c) \/ Succeed(c) \/ Refuse(c) \/ Fail(c) \/ Again(c)

RpcSpec == RpcInit /\ [][RpcNext]_rpcVars

============================================================================
