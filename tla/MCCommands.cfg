SPECIFICATION FairSpec
CONSTANTS
  Pids = {1, 2, 3}
  InitPid = 1
  Subreapers = {}
  MaxBirths = 3
  AccessModes = {"full", "none"}
  SockModes = {FALSE}
  InitialTables <- Tables
  Orders <- MCOrders
  Cpus = {0, 1}
  MaxSignal = 64
  MaxCpu = 3
  MaskSize = 2
  MaxThreads = 2
  Tokens <- MCTokens
  Dashed <- MCDashed
  Numbers <- MCNumbers
  Number <- MCNumber
  Words <- MCWords
  IntMax = 100000
  SignalOf <- MCSignalOf
  CpusOf <- MCCpusOf
  CommandLines <- MCCommandLines
INVARIANTS NeverAGroup EffectIffSuccess OwnProcessReached MainCanRely ReadAsWritten DoneAsTyped
PROPERTY InvocationEnds
