\* dma_test against a transport that may stop short, on a card whose
\* memory may hold an earlier run's pattern.
SPECIFICATION Spec
CONSTANTS
  Sizes = {1, 2}
  Counts = {1}
  MaxSize = 2
  InitDevs <- MCInitDevs
INVARIANT SuccessMeansDataMoved
CHECK_DEADLOCK FALSE
