\* A server and a client run of read.c, each started with one of several
\* command lines, over TCP, with any delivery
\* pattern, an operator who types anything or closes stdin, and payload
\* sizes that differ between the peers.
SPECIFICATION Spec
CONSTANTS
  Payloads <- MCPayloadsMixed
  Argvs <- MCArgvsMixed
  MaxKeys = 2
INVARIANT TypeOK
PROPERTY ClientTerminates
CHECK_DEADLOCK FALSE
