\* register_test started with each command line that is misread: an offset
\* past 2^32, the usage example's '-w <offset> <value>', a number that does
\* not parse, and the interactive mode given a decimal offset and a 0x value.
SPECIFICATION Spec
CONSTANTS
  OffsetWidth = 8
  RegMapSize = 64
  MaxLines = 1
  Argvs <- MCArgvsMisread
  Lines <- MCLinesDecHex
  Garbage <- MCGarbage
PROPERTY CommandHonoured
CHECK_DEADLOCK FALSE
