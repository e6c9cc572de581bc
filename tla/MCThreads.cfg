SPECIFICATION ControlSpec
CONSTANTS
  Pids = {1, 2, 3}
  InitPid = 1
  Subreapers = {}
  MaxBirths = 2
  AccessModes = {"full"}
  SockModes = {FALSE}
  InitialTables <- Tables
  Orders <- BindTwo
  Cpus = {0, 1}
  MaxSignal = 64
  MaxCpu = 3
  MaskSize = 2
  MaxThreads = 2
INVARIANT WholeProcessBound
