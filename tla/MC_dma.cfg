\* dma_test with -s 1 or 2 and -c 0, 1 or 2 against a transport that may
\* fail or stop short, on a card whose memory holds anything beforehand.
SPECIFICATION Spec
CONSTANTS
  Sizes = {0, 1, 2}
  Counts = {0, 1, 2}
  MaxSize = 2
  InitDevs <- MCInitDevs
INVARIANT TypeOK
INVARIANT SuccessMeansEveryCycleChecked
PROPERTY Terminates
CHECK_DEADLOCK FALSE
