---------------------------- MODULE MCConnection ----------------------------
(* Small instances of Connection.tla for TLC.                              *)
EXTENDS Connection

============================================================================
