SPECIFICATION Spec
CONSTANTS
  User = {u1, u2, u3}
  Room = {r1, r2}
  Server = {s1}
  NoUser = NoUser
  NoRoom = NoRoom
  NoServer = NoServer
  OtherMap = OtherMap
  m1 = m1
  m2 = m2
  Map <- Maps
  Playlist <- TwoMaps
  MaxPlayers = 3
  ChannelMax = 3
  Capacity = {3}
  ConnectingMethod = 1
  ValidateSettings = TRUE
SYMMETRY Symmetry
INVARIANTS
  TypeOK
  MembershipAgrees
  HostIsMember
  StatsAreMembers
  MatchFlagsAgree
  IndexOnPlaylist
  ServersAgree
PROPERTIES
  ServerHeld
  ImplementsContract
