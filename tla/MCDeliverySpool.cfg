SPECIFICATION FairSpec
CONSTANTS
  Notification = {1, 3}
  Reader = {q1}
  Malformed = {2}
  MaxSequence = 5
  MaxCrashes = 0
  MaxFailures = 0
INVARIANT SpoolIsSeparate
