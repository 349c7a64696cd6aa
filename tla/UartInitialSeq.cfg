SPECIFICATION Spec
CONSTANTS
  A = A
  B = B
  a1 = a1
  a2 = a2
  NoThread = NoThread
  Node <- TwoEnds
  Peer <- Crossed
  Thread <- SingleThreads
  Home <- SingleHome
  Modes <- AnyMode
  SeqMod = 8
  TRY_RESEND_TIMES = 0
  WireCap = 1
  HeaderDamage = FALSE
  Restartable = {}
  MaxCalls <- FourCalls
  MaxFaults = 0
  MaxRestarts = 0
PROPERTIES AckHonoured
CHECK_DEADLOCK FALSE
