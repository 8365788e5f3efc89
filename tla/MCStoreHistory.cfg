SPECIFICATION Spec
CONSTANTS
  Repository = {r1}
  Timestamp = {1, 2}
  RefUpdates = {u1}
  CommitObservation <- MCCommits
  Class = {}
  MirrorTarget = {}
  SpoolPath = {}
  Budget = {0, 1, 2}
  MaxSequence = 6
  MaxCommits = 2
INVARIANT RemovedHistoryIsCompacted
