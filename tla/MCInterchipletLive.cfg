CONSTANTS
  N = 2
  MaxSend = 1
  b = b
  Bodies = {b}
SPECIFICATION FairSpec
PROPERTY ReaderServed
CHECK_DEADLOCK FALSE
