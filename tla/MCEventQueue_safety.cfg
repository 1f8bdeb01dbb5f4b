SPECIFICATION Spec
CONSTANTS
  Sock = {s1, s2}
  MaxPackets = 2
  MaxCalls = 1
  NoThread = NoThread
  NoEvent = NoEvent
  Posix = TRUE
SYMMETRY Symmetry
INVARIANTS
  QueuedPacketsLive
  InOrder
  NoLostWakeup
  OrderlyShutdown
CHECK_DEADLOCK FALSE
