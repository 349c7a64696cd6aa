SPECIFICATION Spec
CONSTANTS
  A = A
  B = B
  a1 = a1
  a2 = a2
  NoThread = NoThread
  Node <- TwoEnds
  Peer <- Crossed
  Thread <- OneWayThreads
  Home <- OneWayHome
  Modes <- AnyMode
  SeqMod = 2
  TRY_RESEND_TIMES = 1
  WireCap = 2
  HeaderDamage = TRUE
  Restartable = {A}
  MaxCalls <- ThreeCalls
  MaxFaults = 1
  MaxRestarts = 1
SYMMETRY SenderSymmetry
INVARIANTS TypeOK InOrderOnce NoLostWakeup
CHECK_DEADLOCK FALSE
