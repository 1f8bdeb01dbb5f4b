SPECIFICATION Spec
CONSTANTS
  User = {u1, u2, u3}
  Room = {r1}
  Server = {s1}
  NoUser = NoUser
  NoRoom = NoRoom
  NoServer = NoServer
  OtherMap = OtherMap
  m1 = m1
  m2 = m2
  Map <- Maps
  Playlist <- NoPlaylists
  MaxPlayers = 3
  ChannelMax = 3
  Capacity = {2, 3}
  ConnectingMethod = 2
  ValidateSettings = FALSE
SYMMETRY Symmetry
INVARIANTS
  StatsAreMembers
PROPERTIES
  PeerMatchHasHost
