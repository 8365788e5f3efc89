----------------------------- MODULE MCService -----------------------------
(* Small instances of Service.tla for TLC.                                 *)
EXTENDS Service

MCCommits ==
  {[object |-> "c1", ref |-> "main"], [object |-> "c2", ref |-> "main"]}

============================================================================
