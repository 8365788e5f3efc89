------------------------------ MODULE MCStore ------------------------------
(* Small instances of Store.tla for TLC.                                   *)
EXTENDS Store

(* One object pushed on two refs: two keys of the commits table.           *)
MCCommits ==
  {[object |-> "c1", ref |-> "main"], [object |-> "c1", ref |-> "topic"]}

============================================================================
