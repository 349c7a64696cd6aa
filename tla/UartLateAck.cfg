SPECIFICATION Spec
CONSTANTS
  A = A
  B = B
  a1 = a1
  a2 = a2
  NoThread = NoThread
  Node <- TwoEnds
  Peer <- Crossed
  Thread <- OneWayThreads
  Home <- OneWayHome
  Modes <- OnlyReliable
  SeqMod = 8
  TRY_RESEND_TIMES = 1
  WireCap = 2
  HeaderDamage = FALSE
  Restartable = {}
  MaxCalls <- TwoCalls
  MaxFaults = 1
  MaxRestarts = 0
INVARIANTS ReliableTransmission
CHECK_DEADLOCK FALSE
