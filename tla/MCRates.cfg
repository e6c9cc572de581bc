SPECIFICATION FairRates
CONSTANTS
  Kinds = {"interfaces", "disks", "cores", "cpu", "activity"}
  Devices <- MCDevices
  Modulus = 4
  InitialCounts <- MCInitialCounts
  MaxTicks = 3
  MaxPlugs = 1
INVARIANTS RatesInv SurvivorsExact
PROPERTY SampleEnds
CHECK_DEADLOCK FALSE
