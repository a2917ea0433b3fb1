\* The server waiting for Enter after its standard input has ended (run
\* with stdin from /dev/null, or the terminal closed).
SPECIFICATION Spec
CONSTANTS
  Payloads <- MCPayloadsSame
  Argvs <- MCArgvsUsual
  MaxKeys = 1
PROPERTY PromptEndsAtEof
CHECK_DEADLOCK FALSE
