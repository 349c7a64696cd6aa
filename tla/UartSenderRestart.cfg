SPECIFICATION Spec
CONSTANTS
  A = A
  B = B
  a1 = a1
  a2 = a2
  NoThread = NoThread
  Node <- TwoEnds
  Peer <- Crossed
  Thread <- SingleThreads
  Home <- SingleHome
  Modes <- OnlyReliable
  SeqMod = 8
  TRY_RESEND_TIMES = 1
  WireCap = 2
  HeaderDamage = FALSE
  Restartable = {A}
  MaxCalls <- TwoCalls
  MaxFaults = 0
  MaxRestarts = 1
INVARIANTS AckedIsReceived
CHECK_DEADLOCK FALSE
