SPECIFICATION ServiceSpec
CONSTANTS
  Client = {a, b}
  Repository = {r1}
  Timestamp = {1}
  RefUpdates = {u1}
  CommitObservation <- MCCommits
  Class = {k1}
  MirrorTarget = {}
  SpoolPath = {p1}
  Budget = {}
  MaxSequence = 3
  MaxCommits = 2
INVARIANT ServiceTypeOK
PROPERTY Linearizable
