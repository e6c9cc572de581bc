SPECIFICATION FairSpec
CONSTANTS
  Pids = {1, 2, 3, 4}
  InitPid = 1
  Subreapers = {2}
  MaxBirths = 3
  AccessModes = {"full"}
  SockModes = {FALSE}
  InitialTables <- Tables
  Roots = {1, 2}
INVARIANTS WalkInv QuietWalkExact SettledFamilyReported
PROPERTY WalkEnds
