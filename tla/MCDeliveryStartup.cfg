SPECIFICATION FairSpec
CONSTANTS
  Notification = {1, 3}
  Reader = {q1}
  Malformed = {}
  MaxSequence = 5
  MaxCrashes = 0
  MaxFailures = 0
PROPERTY SpoolIngestedOnStartup
