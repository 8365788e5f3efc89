SPECIFICATION FairSpec
CONSTANTS
  Cli = {c1, c2}
  Peer = {p1}
  Compatible = {c1}
  Slots = 1
  MaxFrames = 2
  MaxCrashes = 1
  MaxFailures = 1
INVARIANTS
  TypeOK
  IncompatibleCliChangesNothing
PROPERTIES
  AtMostOnce
  
