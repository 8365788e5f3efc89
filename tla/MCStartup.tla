----------------------------- MODULE MCStartup -----------------------------
(* Small instances of Startup.tla for TLC.                                 *)
EXTENDS Startup

============================================================================
