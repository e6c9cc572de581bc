SPECIFICATION FairSpec
CONSTANTS
  Modes = {"json", "once", "watch"}
  MayThrow <- Anywhere
INVARIANTS NoThreadLeft EverySampleShown OneWindow
PROPERTY ReportGoesOn
CHECK_DEADLOCK FALSE
