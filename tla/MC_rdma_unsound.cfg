\* The client's verdict, with both peers at the default payload size.
SPECIFICATION Spec
CONSTANTS
  Payloads <- MCPayloadsSame
  Argvs <- MCArgvsUsual
  MaxKeys = 1
INVARIANT SuccessMeansDataRead
CHECK_DEADLOCK FALSE
