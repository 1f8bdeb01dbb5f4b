-------------------------------- MODULE Lobby --------------------------------
(***************************************************************************)
(* The master server's lobby: logged in users, the channel, game rooms,    *)
(* matches and the pool of dedicated servers.                              *)
(*                                                                         *)
(* Every action is one packet or console handler.  Handlers run one at a   *)
(* time, under the server's critical section, so an action is atomic; what *)
(* interleaves is the order in which the packets of different users and    *)
(* dedicated servers are handled.  The code keeps the same fact in several *)
(* objects (a user knows its room and the room knows its users, a server   *)
(* knows its room and the room knows its server, a match holds pointers to *)
(* users), and the properties are about those copies.                      *)
(*                                                                         *)
(* A room is a slot of Room: a heap object that exists while it has users. *)
(* Its functions on room states (EndGame, UpdateHost, ...) are methods of  *)
(* CRoom with their calls expanded.  Family battle rooms (clan slots) are  *)
(* not in this module.                                                     *)
(***************************************************************************)
EXTENDS Naturals, FiniteSets, Sequences, SequencesExt

CONSTANTS
  User,              \* accounts
  Room,              \* room objects
  Server,            \* dedicated server connections
  NoUser, NoRoom, NoServer,
  MaxPlayers,        \* ServerConfig "MaxPlayers": users that may be logged in
  ChannelMax,        \* CChannel::m_nMaxPlayers, the MaxPlayers of start-up
  Capacity,          \* values of the room setting maxPlayers
  Map, OtherMap,     \* maps; OtherMap stands for those on no playlist
  Playlist,          \* the map playlists hosts send
  ConnectingMethod,  \* 0: peer to peer, 1: dedicated server, 2: either
  ValidateSettings   \* ServerConfig "ValidateSettings"

ASSUME NullAssumption == NoUser \notin User /\ NoRoom \notin Room /\ NoServer \notin Server
ASSUME FiniteAssumption == IsFiniteSet(User)
ASSUME LimitAssumption == MaxPlayers \in Nat /\ ChannelMax \in Nat
ASSUME CapacityAssumption == Capacity \subseteq Nat \ {0}
ASSUME PlaylistAssumption == OtherMap \in Map /\ Playlist \subseteq Seq(Map) \ {<<>>}
ASSUME ConfigAssumption ==
  /\ ConnectingMethod \in 0..2
  /\ ValidateSettings \in BOOLEAN

VARIABLES
  loggedIn,   \* users with a CUser object
  inChannel,  \* users whose m_pCurrentChannel is set
  lobby,      \* CChannel::m_Users
  current,    \* CUser::m_pCurrentRoom
  rooms,      \* the state of each room object
  pool,       \* CDedicatedServerManager::m_vServerPools
  serving     \* CDedicatedServer::m_pRoom

vars == <<loggedIn, inChannel, lobby, current, rooms, pool, serving>>

-----------------------------------------------------------------------------
(* Room states *)

ReadyStatus == {"no", "yes", "ingame"}

(***************************************************************************)
(* users, kicked, server, match and stats are CRoom's and CGameMatch's     *)
(* members; ready and ingame are kept in the users' CRoomUser; playing is  *)
(* m_pSettings->status, capacity its maxPlayers, map its mapId, list its   *)
(* mapPlaylist and index its mapPlaylistIndex.                             *)
(***************************************************************************)
RoomState ==
  [users: Seq(User), host: User \cup {NoUser},
   ready: [User -> ReadyStatus], ingame: SUBSET User,
   match: BOOLEAN, stats: Seq(User), playing: BOOLEAN,
   kicked: SUBSET User, server: Server \cup {NoServer},
   capacity: Nat, map: Map, list: Seq(Map), index: Nat]

NullRoom ==
  [users |-> <<>>, host |-> NoUser, ready |-> [u \in User |-> "no"], ingame |-> {},
   match |-> FALSE, stats |-> <<>>, playing |-> FALSE, kicked |-> {},
   server |-> NoServer, capacity |-> 0, map |-> OtherMap, list |-> <<>>, index |-> 0]

IsOpen(r) == rooms[r].users # <<>>

\* vector::erase(remove(...)) on a vector without duplicates.
Erase(s, x) ==
  IF \E i \in 1..Len(s) : s[i] = x
    THEN LET i == CHOOSE j \in 1..Len(s) : s[j] = x IN RemoveAt(s, i)
    ELSE s

\* CRoom::SetUserIngame(u, true) for every user of a set.
SetIngame(R, us) ==
  [R EXCEPT !.ready = [u \in User |-> IF u \in us THEN "ingame" ELSE R.ready[u]],
            !.ingame = R.ingame \cup us]

\* Where the playlist stands after a match: a forced end rewinds it, a played match
\* moves to the map after the first place of the current one.
NextMap(R, forced) ==
  IF R.list = <<>> THEN [map |-> R.map, index |-> R.index]
  ELSE IF forced THEN [map |-> R.list[1], index |-> 1]
  ELSE IF R.map \notin ToSet(R.list) THEN [map |-> R.map, index |-> R.index]
  ELSE LET i == CHOOSE j \in 1..Len(R.list) :
                  R.list[j] = R.map /\ \A k \in 1..(j - 1) : R.list[k] # R.map
           n == IF i = Len(R.list) THEN 1 ELSE i + 1
       IN  [map |-> R.list[n], index |-> n]

\* Mutant of ClearIngame: only users who are ready "ingame" are reset.
ClearReadyOnly(R, us) ==
  LET playing == {u \in us : R.ready[u] = "ingame"}
  IN  [R EXCEPT !.ready = [u \in User |-> IF u \in playing THEN "no" ELSE R.ready[u]],
                !.ingame = @ \ playing]

\* ResetStatusIngameUsers, and SetUserIngame(u, false) for whoever has the in-game flag.
ClearIngame(R, us) ==
  [R EXCEPT !.ready = [u \in User |-> IF u \in us /\ (R.ready[u] = "ingame" \/ u \in R.ingame)
                                       THEN "no" ELSE R.ready[u]],
            !.ingame = @ \ us]

\* CRoom::EndGame.  A dedicated-only server keeps its room's server until the
\* playlist is back at its first map.
EndGame(R, forced) ==
  LET next == NextMap(R, forced)
      keep == ConnectingMethod = 1 /\ R.list # <<>> /\ next.index # 1
  IN  [ClearIngame(R, ToSet(R.users)) EXCEPT
        !.match = FALSE, !.stats = <<>>, !.playing = FALSE,
        !.map = next.map, !.index = next.index,
        !.server = IF keep THEN @ ELSE NoServer]

\* CRoom::UpdateHost
UpdateHost(R, u) ==
  LET R1 == [R EXCEPT !.host = u, !.ready[u] = "no", !.kicked = {}]
  IN  IF R.server = NoServer /\ R.match /\ R.stats = <<>> THEN EndGame(R1, TRUE) ELSE R1

\* Mutants of NewHost: the oldest member whether or not he plays; nobody new.
FirstMember(R) == R.users[1]
OldHost(R) == R.host

\* CRoom::FindAndUpdateNewHost
NewHost(R) ==
  IF R.server = NoServer /\ R.match /\ R.stats # <<>> THEN R.stats[1] ELSE R.users[1]

\* CGameMatch::Connect and Disconnect, on the match's statistics.
Connect(stats, u) == IF u \in ToSet(stats) THEN stats ELSE Append(stats, u)
Disconnect(stats, u) == Erase(stats, u)

\* Mutant of RemoveUser: the match is not told.
RemoveUserKeepStats(R, u) ==
  LET R1 == [R EXCEPT !.users = Erase(@, u), !.ready[u] = "no", !.ingame = @ \ {u}]
  IN  IF R1.users = <<>> THEN NullRoom
      ELSE IF R.host = u THEN UpdateHost(R1, NewHost(R1)) ELSE R1

\* CRoom::RemoveUser and OnUserRemoved: the last user's leaving destroys the room.
RemoveUser(R, u) ==
  LET R1 == [R EXCEPT !.users = Erase(@, u), !.stats = Disconnect(@, u),
                      !.ready[u] = "no", !.ingame = @ \ {u}]
  IN  IF R1.users = <<>> THEN NullRoom
      ELSE IF R.host = u THEN UpdateHost(R1, NewHost(R1)) ELSE R1

\* CRoom::AddUser
AddUser(R, u) ==
  [R EXCEPT !.users = Append(@, u), !.ready[u] = "no", !.ingame = @ \ {u}]

\* CRoom::HostStartGame and OnGameStart, for the server s picked by SendStartMatch.
StartMatch(R, s) ==
  [SetIngame(R, {R.host} \cup {u \in ToSet(R.users) : R.ready[u] # "no"})
     EXCEPT !.match = TRUE, !.playing = TRUE, !.server = s]

-----------------------------------------------------------------------------
(* The pool of dedicated servers *)

FreeServers == {i \in 1..Len(pool) : serving[pool[i]] = NoRoom}

\* CDedicatedServerManager::GetAvailableServerFromPools: the first free server.
AvailableServer ==
  IF FreeServers = {} THEN NoServer
  ELSE pool[CHOOSE i \in FreeServers : \A j \in FreeServers : i <= j]

\* Mutants of Release: the server keeps its room; the wrong null.
ReleaseNobody(r, R) == serving
ReleaseToNull(r, R) ==
  [s \in Server |-> IF s = rooms[r].server /\ R.server = NoServer THEN NoServer ELSE serving[s]]

\* m_pServer->SetRoom(NULL), for a room that gives up the server it had.
Release(r, R) ==
  [s \in Server |-> IF s = rooms[r].server /\ R.server = NoServer THEN NoRoom ELSE serving[s]]

\* Room r goes to state R; whoever it gives up is released.
SetRoom(r, R) ==
  /\ rooms' = [rooms EXCEPT ![r] = R]
  /\ serving' = Release(r, R)

\* Mutant of LeaveCurrentRoom: the user keeps the pointer to its room.
LeaveRoomKeepPointer(u) ==
  IF current[u] = NoRoom
    THEN UNCHANGED <<current, rooms, serving>>
    ELSE SetRoom(current[u], RemoveUser(rooms[current[u]], u)) /\ UNCHANGED current

\* user->GetCurrentRoom()->RemoveUser(user), nothing when the user is in no room.
LeaveCurrentRoom(u) ==
  IF current[u] = NoRoom
    THEN UNCHANGED <<current, rooms, serving>>
    ELSE /\ SetRoom(current[u], RemoveUser(rooms[current[u]], u))
         /\ current' = [current EXCEPT ![u] = NoRoom]

\* Mutant of LeaveChannel: the user stays on the channel's list.
LeaveChannelStayListed(u) == inChannel' = inChannel \ {u} /\ UNCHANGED lobby

\* CChannel::UserLeft and SetCurrentChannel(NULL), for a user who has left its room.
LeaveChannel(u) ==
  /\ inChannel' = inChannel \ {u}
  /\ lobby' = IF u \in inChannel THEN lobby \ {u} ELSE lobby

-----------------------------------------------------------------------------
Init ==
  /\ loggedIn = {} /\ inChannel = {} /\ lobby = {}
  /\ current = [u \in User |-> NoRoom]
  /\ rooms = [r \in Room |-> NullRoom]
  /\ pool = <<>>
  /\ serving = [s \in Server |-> NoRoom]

(* Users and the channel *)

\* CUserManager::LoginUser: refused when the server is full or the user is playing.
Login(u) ==
  /\ u \notin loggedIn
  /\ Cardinality(loggedIn) < MaxPlayers
  /\ loggedIn' = loggedIn \cup {u}
  /\ UNCHANGED <<inChannel, lobby, current, rooms, pool, serving>>

\* CUserManager::RemoveUser, when the user's connection closes.
Logout(u) ==
  /\ u \in loggedIn
  /\ loggedIn' = loggedIn \ {u}
  /\ LeaveCurrentRoom(u)
  /\ LeaveChannel(u)
  /\ UNCHANGED pool

\* CChannelManager::JoinChannel: the user's channel is set before CChannel::UserJoin
\* says whether there is a place.
JoinChannel(u) ==
  /\ u \in loggedIn \ inChannel
  /\ inChannel' = inChannel \cup {u}
  /\ lobby' = IF Cardinality(lobby) >= ChannelMax THEN lobby ELSE lobby \cup {u}
  /\ UNCHANGED <<loggedIn, current, rooms, pool, serving>>

\* CChannelManager::OnChannelListPacket: back to the channel list.
OnChannelListPacket(u) ==
  /\ u \in loggedIn
  /\ LeaveCurrentRoom(u)
  /\ LeaveChannel(u)
  /\ UNCHANGED <<loggedIn, pool>>

(* Rooms *)

\* IsMapPlaylistValid and the tests around it: 2 to 5 maps, none twice, the room's map
\* first.  That maps exist and suit the game mode is left to the choice of Playlist.
ValidPlaylist(l, m) == Len(l) \in 2..5 /\ IsInjective(l) /\ m = l[1]

OnNewRoomRequest(u, r) ==
  /\ u \in inChannel /\ current[u] = NoRoom
  /\ ~IsOpen(r)
  /\ \E c \in Capacity, m \in Map, l \in Playlist \cup {<<>>} :
       /\ ValidateSettings /\ l # <<>> => ValidPlaylist(l, m)
       /\ rooms' = [rooms EXCEPT ![r] =
            [NullRoom EXCEPT !.users = <<u>>, !.host = u, !.capacity = c,
                             !.map = m, !.list = l, !.index = IF l = <<>> THEN 0 ELSE 1]]
  /\ current' = [current EXCEPT ![u] = r]
  /\ UNCHANGED <<loggedIn, inChannel, lobby, pool, serving>>

\* The password and the host's block list can also refuse: then nothing happens.
OnJoinRoomRequest(u, r) ==
  /\ u \in inChannel /\ current[u] = NoRoom
  /\ IsOpen(r)
  /\ Len(rooms[r].users) < rooms[r].capacity
  /\ u \notin rooms[r].kicked
  /\ rooms' = [rooms EXCEPT ![r] = AddUser(@, u)]
  /\ current' = [current EXCEPT ![u] = r]
  /\ UNCHANGED <<loggedIn, inChannel, lobby, pool, serving>>

OnLeaveRoomRequest(u) ==
  /\ u \in inChannel /\ current[u] # NoRoom
  /\ LeaveCurrentRoom(u)
  /\ UNCHANGED <<loggedIn, inChannel, lobby, pool>>

OnRoomKickRequest(h, u) ==
  LET r == current[h]
  IN  /\ h \in inChannel /\ r # NoRoom
      /\ h = rooms[r].host /\ h \notin rooms[r].ingame
      /\ u # h /\ current[u] = r
      /\ SetRoom(r, RemoveUser([rooms[r] EXCEPT !.kicked = @ \cup {u}], u))
      /\ current' = [current EXCEPT ![u] = NoRoom]
      /\ UNCHANGED <<loggedIn, inChannel, lobby, pool>>

\* Mutant of NewSettings: the playlist index is not stripped.
NewSettingsAnyIndex(R) == {[R EXCEPT !.index = i] : i \in 0..2}

\* The settings a room can get from CheckNewSettings and UpdateSettings.  A packet flags
\* the fields it sends; a map sent without a playlist clears the playlist, and a playlist
\* with a map that is refused only resets the index.  Without ValidateSettings everything
\* goes through, the status and the playlist index (0, 1 or more) included.
NewSettings(R) ==
  IF ValidateSettings
    THEN {R, [R EXCEPT !.index = 1]}
         \cup {[R EXCEPT !.map = m, !.list = <<>>] : m \in Map}
         \cup {[R EXCEPT !.map = l[1], !.list = l, !.index = 1] :
                  l \in {p \in Playlist : ValidPlaylist(p, p[1])}}
    ELSE {[R EXCEPT !.playing = sent.playing, !.map = sent.map, !.list = sent.list,
                    !.index = sent.index] :
            sent \in [playing: BOOLEAN, map: Map, list: Playlist \cup {<<>>}, index: 0..2]}

OnRoomUpdateSettings(u) ==
  LET r == current[u]
  IN  /\ u \in inChannel /\ r # NoRoom
      /\ u = rooms[r].host /\ ~rooms[r].match /\ rooms[r].index <= 1
      /\ \E c \in Capacity, R \in NewSettings(rooms[r]) :
           rooms' = [rooms EXCEPT ![r] = [R EXCEPT !.capacity = c]]
      /\ UNCHANGED <<loggedIn, inChannel, lobby, current, pool, serving>>

(* Ready status and the start of a match *)

UserGameJoin(u, r) ==
  /\ rooms' = [rooms EXCEPT ![r] = SetIngame(@, {u})]
  /\ UNCHANGED serving

HostStartGame(r) ==
  LET s == IF rooms[r].server = NoServer /\ ConnectingMethod # 0
             THEN AvailableServer ELSE rooms[r].server
  IN  /\ ~rooms[r].match
      /\ rooms' = [rooms EXCEPT ![r] = StartMatch(@, s)]
      /\ serving' = [t \in Server |-> IF t = s THEN r ELSE serving[t]]

\* With dedicated servers only, a match needs a free one or the room's own.
CanStart(r) == ConnectingMethod = 1 => FreeServers # {} \/ rooms[r].server # NoServer

OnGameStartRequest(u) ==
  LET r == current[u]
  IN  /\ u \in inChannel /\ r # NoRoom
      /\ \/ /\ ~rooms[r].playing /\ rooms[r].host = u
            /\ CanStart(r)
            /\ HostStartGame(r)
         \/ /\ rooms[r].playing
            /\ UserGameJoin(u, r)
      /\ UNCHANGED <<loggedIn, inChannel, lobby, current, pool>>

\* CRoom::ToggleUserReadyStatus: also takes a user who is in the match to "no".
ToggleUserReadyStatus(u, r) ==
  IF u = rooms[r].host THEN UNCHANGED rooms
  ELSE rooms' = [rooms EXCEPT ![r].ready[u] = IF @ = "no" THEN "yes" ELSE "no"]

\* The host's ready button is the start button.
OnToggleReadyRequest(u) ==
  /\ u \in inChannel /\ current[u] # NoRoom
  /\ IF u = rooms[current[u]].host
       THEN OnGameStartRequest(u)
       ELSE /\ ToggleUserReadyStatus(u, current[u])
            /\ UNCHANGED <<loggedIn, inChannel, lobby, current, pool, serving>>

OnConnectionFailure(u) ==
  /\ u \in inChannel /\ current[u] # NoRoom
  /\ rooms[current[u]].match
  /\ ToggleUserReadyStatus(u, current[u])
  /\ UNCHANGED <<loggedIn, inChannel, lobby, current, pool, serving>>

(* Reports of the game host: the room's dedicated server or its host user *)

\* CHostManager::OnPacket: who may report about room r.
Reports(r) ==
  /\ rooms[r].match
  /\ \/ \E s \in ToSet(pool) : serving[s] = r
     \/ current[rooms[r].host] = r

\* The game host asks for the inventory of a user of its room: the match counts him in.
OnSetUserInventory(r, u) ==
  /\ Reports(r)
  /\ current[u] = r
  /\ rooms' = [rooms EXCEPT ![r].stats = Connect(@, u)]
  /\ UNCHANGED <<loggedIn, inChannel, lobby, current, pool, serving>>

OnGameEnd(r) ==
  /\ Reports(r)
  /\ SetRoom(r, EndGame(rooms[r], FALSE))
  /\ UNCHANGED <<loggedIn, inChannel, lobby, current, pool>>

OnChangeMap(r) ==
  /\ Reports(r)
  /\ \E m \in Map : rooms' = [rooms EXCEPT ![r].map = m]
  /\ UNCHANGED <<loggedIn, inChannel, lobby, current, pool, serving>>

(* The console and the dedicated servers *)

EndAllGames ==
  LET End(r) == IF rooms[r].match THEN EndGame(rooms[r], TRUE) ELSE rooms[r]
  IN  /\ \E r \in Room : rooms[r].match
      /\ rooms' = [r \in Room |-> End(r)]
      /\ serving' = [s \in Server |->
           IF \E r \in Room : s = rooms[r].server /\ End(r).server = NoServer
             THEN NoRoom ELSE serving[s]]
      /\ UNCHANGED <<loggedIn, inChannel, lobby, current, pool>>

AddServer(s) ==
  /\ s \notin ToSet(pool)
  /\ pool' = Append(pool, s)
  /\ UNCHANGED <<loggedIn, inChannel, lobby, current, rooms, serving>>

\* Mutant of RemoveServer: the match goes on.
RemoveServerQuietly(s) ==
  /\ s \in ToSet(pool)
  /\ pool' = Erase(pool, s)
  /\ serving' = [serving EXCEPT ![s] = NoRoom]
  /\ rooms' = [r \in Room |-> IF serving[s] = r THEN [rooms[r] EXCEPT !.server = NoServer]
                                                ELSE rooms[r]]
  /\ UNCHANGED <<loggedIn, inChannel, lobby, current>>

\* CDedicatedServerManager::RemoveServer, when the server's connection closes.
RemoveServer(s) ==
  LET r == serving[s]
      R == [rooms[r] EXCEPT !.server = NoServer]
  IN  /\ s \in ToSet(pool)
      /\ pool' = Erase(pool, s)
      /\ serving' = [serving EXCEPT ![s] = NoRoom]
      /\ rooms' = IF r = NoRoom THEN rooms
                  ELSE [rooms EXCEPT ![r] = IF R.match THEN EndGame(R, TRUE) ELSE R]
      /\ UNCHANGED <<loggedIn, inChannel, lobby, current>>

Next ==
  \/ \E u \in User :
       \/ Login(u) \/ Logout(u) \/ JoinChannel(u) \/ OnChannelListPacket(u)
       \/ OnLeaveRoomRequest(u) \/ OnRoomUpdateSettings(u)
       \/ OnToggleReadyRequest(u) \/ OnGameStartRequest(u) \/ OnConnectionFailure(u)
  \/ \E u \in User, r \in Room :
       OnNewRoomRequest(u, r) \/ OnJoinRoomRequest(u, r) \/ OnSetUserInventory(r, u)
  \/ \E h, u \in User : OnRoomKickRequest(h, u)
  \/ \E r \in Room : OnGameEnd(r) \/ OnChangeMap(r)
  \/ EndAllGames
  \/ \E s \in Server : AddServer(s) \/ RemoveServer(s)

Spec == Init /\ [][Next]_vars
-----------------------------------------------------------------------------
(* Properties *)

\* Types of all variables.
TypeOK ==
  /\ loggedIn \subseteq User /\ inChannel \subseteq User /\ lobby \subseteq User
  /\ current \in [User -> Room \cup {NoRoom}]
  /\ rooms \in [Room -> RoomState]
  /\ pool \in Seq(Server)
  /\ serving \in [Server -> Room \cup {NoRoom}]

Members(r) == ToSet(rooms[r].users)

\* A room's user list and its users' current rooms say the same, and nobody is listed
\* twice: every handler that edits one (CRoom::AddUser, RemoveUser, ~CRoom) also has its
\* caller edit the other, and a stale entry is a pointer to a deleted user or room.
MembershipAgrees ==
  /\ \A u \in User, r \in Room : u \in Members(r) <=> current[u] = r
  /\ \A r \in Room : IsInjective(rooms[r].users)
  /\ \A u \in User : current[u] # NoRoom => u \in inChannel
  /\ lobby \subseteq inChannel /\ inChannel \subseteq loggedIn

\* An existing room has a host, and the host is one of its users: the chain leave ->
\* Disconnect -> FindAndUpdateNewHost must never pick somebody who has left.
HostIsMember ==
  \A r \in Room : IF IsOpen(r) THEN rooms[r].host \in Members(r) ELSE rooms[r] = NullRoom

\* CGameMatch keeps plain pointers to users: they are always users of the room, and no
\* user has two statistics.
StatsAreMembers ==
  \A r \in Room :
    /\ ToSet(rooms[r].stats) \subseteq Members(r)
    /\ IsInjective(rooms[r].stats)
    /\ ~rooms[r].match => rooms[r].stats = <<>>

\* A room with a match is shown as playing, and whoever is ready "ingame" has the in-game
\* flag.  The two are separate fields that a host change and OnConnectionFailure move
\* apart, so the end of a match has to clear both: with ValidateSettings, which keeps
\* hosts from sending a status, nobody is left in a match that does not exist.
MatchFlagsAgree ==
  \A r \in Room :
    /\ rooms[r].match => rooms[r].playing
    /\ \A u \in User : rooms[r].ready[u] = "ingame" => u \in rooms[r].ingame
    /\ ValidateSettings /\ ~rooms[r].match => ~rooms[r].playing /\ rooms[r].ingame = {}

\* An index above 1 locks the room's settings and, with dedicated servers only, keeps its
\* server: it is always a place of the room's playlist, so that matches played through the
\* playlist bring it back to 1.
IndexOnPlaylist ==
  ValidateSettings => \A r \in Room :
    IF rooms[r].list = <<>> THEN rooms[r].index <= 1
    ELSE rooms[r].index \in 1..Len(rooms[r].list)

\* A room's server and a server's room point at each other, and only a server of the
\* pool is in use: a room that forgets its server leaks it, a server that outlives its
\* room points at freed memory.
ServersAgree ==
  /\ \A s \in Server, r \in Room : serving[s] = r <=> rooms[r].server = s
  /\ \A s \in Server : serving[s] # NoRoom => s \in ToSet(pool)
  /\ IsInjective(pool)

\* The channel's limit was copied from MaxPlayers: while MaxPlayers is not above it, no
\* logged in user is turned away by the channel and left with a channel that does not
\* list it.
NobodyTurnedAway == MaxPlayers <= ChannelMax => lobby = inChannel

\* A server is taken from a room in a match only by ending that match, and never passed
\* from one room to another in one step.
ServerHeld ==
  [][\A s \in Server : serving[s] # NoRoom /\ serving'[s] # serving[s]
       => serving'[s] = NoRoom /\ ~rooms'[serving[s]].match]_vars

\* When the host of a peer-to-peer match is replaced and the match goes on, the new host
\* is somebody playing it: a member who never joined the match cannot serve it.
PeerMatchHasHost ==
  [][\A r \in Room : rooms[r].match /\ rooms'[r].match /\ rooms'[r].server = NoServer
                     /\ rooms'[r].host # rooms[r].host
       => rooms'[r].host \in ToSet(rooms'[r].stats)]_vars

\* The lobby implements RoomContract: a user is where its room pointer says.
Contract == INSTANCE RoomContract WITH
  where <- current,
  owner <- [r \in Room |-> rooms[r].host],
  running <- [r \in Room |-> rooms[r].match]

\* Every handler, whatever it does to channels, servers and ready flags, is a step of the
\* contract or none of its business.
ImplementsContract == Contract!Spec
=============================================================================
