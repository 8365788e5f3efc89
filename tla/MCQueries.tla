----------------------------- MODULE MCQueries -----------------------------
(* Small instances of Queries.tla for TLC.                                 *)
EXTENDS Queries

(* Two commits, with one path in common.                                   *)
MCCommits ==
  {[object |-> 1, ref |-> 1, message |-> 1, files |-> {1, 2}],
   [object |-> 2, ref |-> 1, message |-> 2, files |-> {2}]}

MCFound == {<<1, 1>>, <<2, 1>>, <<2, 2>>}

============================================================================
