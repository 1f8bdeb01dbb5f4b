SPECIFICATION Spec
CONSTANTS
  Sock = {s1}
  MaxPackets = 2
  MaxCalls = 1
  NoThread = NoThread
  NoEvent = NoEvent
  Posix = FALSE
PROPERTIES
  PacketsAreHandled
  ShutdownCompletes
CHECK_DEADLOCK FALSE
