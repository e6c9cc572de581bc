SPECIFICATION RatesSpec
CONSTANTS
  Kinds = {"cores"}
  Devices <- ThreeDevices
  Modulus = 8
  InitialCounts <- MCInitialCounts
  MaxTicks = 2
  MaxPlugs = 0
INVARIANT CoreUsageInRange
CHECK_DEADLOCK FALSE
