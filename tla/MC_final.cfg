\* The reset functions of reset_utils_final.c against hardware whose status
\* lags the reset request, run twice in a row.
CONSTANTS
  StatusLags = TRUE
  AutoclearPolls = 2
  StatusPolls = 2
  AlignResetCnt = 2
  AlignTimeoutCnt = 3
  MaxRuns = 2
  Entries <- MCEntriesFinal
SPECIFICATION Spec
PROPERTY ContractSpec Terminates
CHECK_DEADLOCK FALSE
