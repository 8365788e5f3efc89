SPECIFICATION NexusSpec
CONSTANTS
  Repository = {r1}
  Timestamp = {1}
  RefUpdates = {u1}
  CommitObservation <- MCCommits
  Class = {k1}
  MirrorTarget = {m1}
  SpoolPath = {p1}
  Budget = {}
  MaxSequence = 4
  MaxCommits = 2
INVARIANTS
  NexusTypeOK
  NotCommittedIsTrue
  RejectionIsNotCommitted
  CommittedIsDurable
