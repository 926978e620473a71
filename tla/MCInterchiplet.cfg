CONSTANTS
  N = 2
  MaxSend = 2
  b = b
  Bodies = {b}
SPECIFICATION Spec
INVARIANTS TypeOK RecvAnsweredOnce InOrder NothingLost StartTogether NeverBacklogged
PROPERTY ImplementsMailbox
CHECK_DEADLOCK FALSE
