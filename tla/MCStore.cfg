SPECIFICATION Spec
CONSTANTS
  Repository = {r1}
  Timestamp = {1, 2}
  RefUpdates = {u1}
  CommitObservation <- MCCommits
  Class = {k1}
  MirrorTarget = {m1}
  SpoolPath = {p1}
  Budget = {0, 1, 2}
  MaxSequence = 6
  MaxCommits = 2
INVARIANTS
  IInv
  SequencesNeverReused
  CommitsHaveTheirEvent
  RetainedAreNewest
  RecordedIsComplete
  CompactedToBudget
PROPERTY
  StoreRefinement
