SPECIFICATION Spec
CONSTANTS
  s1 = s1 s2 = s2 s3 = s3 s4 = s4
  local = local other = other third = third ada = ada bob = bob
  Sock = {s1, s2, s3, s4}
  Player = {s1, s2, s3}
  Host = {s4}
  Name = {local, other, third}
  Nick = {ada, bob}
  LocalName = local
  LocalNick = ada
  Address <- OneAddress
  MaxPlayers = 2
  MaxPerAddress = 3
  LastVersion = 3
  FirstVersion = 1
  HostBootstrap = TRUE
  DbErrors = TRUE
  MaxId = 3
CONSTRAINT OneBan
SYMMETRY Sockets
INVARIANTS SessionsAgree LoginSucceeds SchemaComplete IdentitiesUnique BannedStayOut
