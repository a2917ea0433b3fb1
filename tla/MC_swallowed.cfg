\* smart_reset_strategy for all ports returns 0 after a port failed.
CONSTANTS
  StatusLags = FALSE
  AutoclearPolls = 2
  StatusPolls = 2
  AlignResetCnt = 2
  AlignTimeoutCnt = 3
  MaxRuns = 1
  Entries <- MCEntriesSmartAll
SPECIFICATION Spec
PROPERTY OperationSuccessMeansLinkUp
CHECK_DEADLOCK FALSE
