SPECIFICATION Spec
CONSTANTS
  Pids = {1, 2, 3}
  InitPid = 1
  Subreapers = {}
  MaxBirths = 2
  AccessModes = {"full"}
  SockModes = {TRUE, FALSE}
  InitialTables <- Tables
  Requests <- SnapshotCalls
  Mounts = {"mounted"}
INVARIANT SnapshotAtOnePoint
