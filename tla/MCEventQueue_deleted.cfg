SPECIFICATION Spec
CONSTANTS
  Sock = {s1}
  MaxPackets = 1
  MaxCalls = 1
  NoThread = NoThread
  NoEvent = NoEvent
  Posix = FALSE
INVARIANT NoDeletedSocket
CHECK_DEADLOCK FALSE
