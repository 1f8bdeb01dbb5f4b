SPECIFICATION Spec
CONSTANTS
  s1 = s1
  s2 = s2
  Sock = {s1, s2}
  Listener = Listener
  Header = 1
  Body = 2
  Packets <- OnePacket
  Faulty = {}
  Expelled = {}
  MaxQueue = 1
  WholePackets = TRUE
PROPERTY DropsAreJustified
