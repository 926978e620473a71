CONSTANTS
  N = 2
  MaxSend = 20
  None = None
  a1 = a1
  a2 = a2
  b1 = b1
  Threads = {a1, a2, b1}
  Ports <- TwoPorts
  Bodies <- TwoPortBodies
  Home <- HomeTwoOne
  Programs <- PortPrograms
SPECIFICATION NetSpec
INVARIANTS NetTypeOK BridgeStays ReplyMatchesCall FiledWhenOpen ReadsInOrder NothingVanishes  NeverPopsEmpty
CHECK_DEADLOCK FALSE
