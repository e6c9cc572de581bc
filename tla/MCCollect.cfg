SPECIFICATION FairSpec
CONSTANTS
  Pids = {1, 2, 3}
  InitPid = 1
  Subreapers = {}
  MaxBirths = 2
  AccessModes = {"full", "none"}
  SockModes = {TRUE, FALSE}
  InitialTables <- Tables
  Requests <- Calls
  Mounts = {"mounted", "missing", "denied"}
INVARIANTS RowsDistinct PartsInOrder SurvivorsReadWhole SurvivorsReported
PROPERTIES CallReturns ImplementsObservation
