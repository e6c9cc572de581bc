SPECIFICATION FairSpec
CONSTANTS
  one = one
  two = two
  Callers = {one, two}
  Jobs <- MCJobs
  Names = {p, q}
  Retries = 2
  MaxLines = 2
  Nodes = {1, 2, 3, 4, 5, 6}
  Kind <- MCKind
  PointsTo <- MCPointsTo
  Locked = {}
  Movable = {1, 3}
  Starts = {0, 3, 4}
  Trees <- MCTrees
  Options <- MCOptions
  MaxLinks = 1
  MaxPath = 4
  MaxChanges = 1
  BufferSize = 2
  PipeSize = 2
  MaxOutput = 5
INVARIANTS MovesKeepLines TemporariesOwned WalkedWhole CommandHeard
PROPERTY CallsEnd
CHECK_DEADLOCK FALSE
