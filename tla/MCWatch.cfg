SPECIFICATION Spec
CONSTANTS
  Modes = {"watch"}
  MayThrow = {}
INVARIANT SameReportEveryFrame
CHECK_DEADLOCK FALSE
