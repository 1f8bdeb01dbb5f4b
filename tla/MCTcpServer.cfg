SPECIFICATION Spec
CONSTANTS
  s1 = s1
  s2 = s2
  Sock = {s1, s2}
  Listener = Listener
  Header = 1
  Body = 2
  Packets <- TwoPackets
  Faulty = {s1}
  Expelled = {s1, s2}
  MaxQueue = 1
  WholePackets = FALSE
INVARIANTS
  PollSetIsClients
PROPERTIES
  PacketsArrive
