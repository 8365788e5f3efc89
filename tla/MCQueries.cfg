SPECIFICATION FeedSpec
CONSTANTS
  Repository = {1, 2}
  Timestamp = {1, 2}
  RefUpdates = {u1}
  CommitObservation <- MCCommits
  Class = {}
  MirrorTarget = {}
  SpoolPath = {}
  Budget = {0, 1}
  MaxSequence = 5
  MaxCommits = 1
  Limit = {1, 2}
  Found <- MCFound
INVARIANTS
  FeedInOrder
  FeedMissesNothing
  RecentAgreesWithEvents
  CommitsOfRecentRepositories
  LimitKeepsNewest
  WindowsCover
  FilesOfShownCommits
PROPERTY FeedRefinement
