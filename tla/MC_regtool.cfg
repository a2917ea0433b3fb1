\* register_test with every kind of command line and interactive line.
SPECIFICATION Spec
CONSTANTS
  OffsetWidth = 8
  RegMapSize = 64
  MaxLines = 2
  Argvs <- MCArgvs
  Lines <- MCLines
  Garbage <- MCGarbage
PROPERTY Terminates
CHECK_DEADLOCK FALSE
