\* perform_cmac_reset_fixed resets the port with the subsystem bit alone.
CONSTANTS
  StatusLags = FALSE
  AutoclearPolls = 2
  StatusPolls = 2
  AlignResetCnt = 2
  AlignTimeoutCnt = 3
  MaxRuns = 1
  Entries <- MCEntriesCmacFixed
SPECIFICATION Spec
PROPERTY CmacResetsComposite
CHECK_DEADLOCK FALSE
