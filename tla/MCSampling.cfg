SPECIFICATION Spec
CONSTANTS
  Pids = {1, 2, 3}
  InitPid = 1
  Subreapers = {}
  MaxBirths = 2
  AccessModes = {"full"}
  SockModes = {FALSE}
  InitialTables <- Tables
  Requests <- MCRequests
  Cpus = 1
  Age = 1
  MaxClock = 2
CHECK_DEADLOCK FALSE
INVARIANTS SamplingInv SurvivorsMeasured TopOfSurvivors
