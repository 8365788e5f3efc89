------------------------------ MODULE MCNexus ------------------------------
(* Small instances of Nexus.tla for TLC.                                   *)
EXTENDS Nexus

MCCommits ==
  {[object |-> "c1", ref |-> "main"], [object |-> "c1", ref |-> "topic"]}

============================================================================
