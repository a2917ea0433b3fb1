\* The re-initialising operations of reset_utils_fixed.c and
\* reset_utils_final.c, and the plain resets of reset_utils.c, against
\* hardware whose status drops as soon as a reset bit is written.
CONSTANTS
  StatusLags = FALSE
  AutoclearPolls = 2
  StatusPolls = 2
  AlignResetCnt = 2
  AlignTimeoutCnt = 3
  MaxRuns = 1
  Entries <- MCEntriesReinit
SPECIFICATION Spec
INVARIANT TypeOK
PROPERTY BringUpReportsLinkUp Terminates
CHECK_DEADLOCK FALSE
