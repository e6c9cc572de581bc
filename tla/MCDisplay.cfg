SPECIFICATION FairSpec
CONSTANTS
  Pids = {1, 2, 3}
  InitPid = 1
  Subreapers = {}
  MaxBirths = 2
  AccessModes = {"full", "public", "none"}
  SockModes = {FALSE}
  InitialTables <- Tables3
  Asks <- MCAsks
  Inodes = {1, 2, 3}
  SocketsAt <- MCSockets
  NewSockets <- MCNewSockets
  Formats = {"tree", "table"}
  ListedPids = {1, 2, 3, 4}
  Listings <- AllListings
INVARIANTS TypeOK PrintedExactlyOnce Indentation SurvivorToldWhole NeverBack AnsweredInOrder ConnectionsMatchSockets
PROPERTY DisplayEnds
CHECK_DEADLOCK FALSE
