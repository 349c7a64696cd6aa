SPECIFICATION FairSpec
CONSTANTS
  A = A
  B = B
  a1 = a1
  a2 = a2
  NoThread = NoThread
  Node <- TwoEnds
  Peer <- Crossed
  Thread <- OneWayThreads
  Home <- OneWayHome
  Modes <- AnyMode
  SeqMod = 8
  TRY_RESEND_TIMES = 1
  WireCap = 1
  HeaderDamage = FALSE
  Restartable = {A}
  MaxCalls <- TwoCalls
  MaxFaults = 1
  MaxRestarts = 1
PROPERTIES EveryCallReturns DeliveredOrReported
CHECK_DEADLOCK FALSE
