\* perform_shell_reset accepts either CMAC status bit as completion of both.
CONSTANTS
  StatusLags = FALSE
  AutoclearPolls = 2
  StatusPolls = 2
  AlignResetCnt = 2
  AlignTimeoutCnt = 3
  MaxRuns = 1
  Entries <- MCEntriesShellBase
SPECIFICATION Spec
PROPERTY ResetDoneMeansCleared
CHECK_DEADLOCK FALSE
