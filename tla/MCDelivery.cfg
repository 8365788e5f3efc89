SPECIFICATION FairSpec
CONSTANTS
  Notification = {1, 3}
  Reader = {q1}
  Malformed = {2}
  MaxSequence = 5
  MaxCrashes = 1
  MaxFailures = 1
INVARIANTS
  TypeOK
  NoPushLost
  RepeatsNeedFaults
  OneIngestAtATime
PROPERTIES
  EveryRequestEnds
  SpoolDrains
  ServiceRecovers
