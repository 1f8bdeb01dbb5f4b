----------------------------- MODULE RoomSettings -----------------------------
(***************************************************************************)
(* The settings of one room: what a host may ask for, what the validation  *)
(* of roomsettings.cpp leaves of it, and the family battle, in which two   *)
(* clans play each other: who may join, on which side, and which two clans *)
(* the room remembers.  Settings are a function from fields to values, a   *)
(* block sent by a client is a function on the fields its flags name;      *)
(* clearing a flag takes the field out of its domain.                      *)
(* Settings are validated (the option room.validateSettings).  A battle is *)
(* asked for with 1, which stands for any number but 0.  Ready states,     *)
(* channels and servers are those of module Lobby.                         *)
(***************************************************************************)
EXTENDS Integers, Sequences, FiniteSets, SequencesExt, Subsequence

CONSTANTS
  User, NoUser,
  Clans,            \* what the clans of the users may be
  NoClan,
  Mode,             \* numbers of game modes, as in GameModeList.csv
  Offered,          \* modes of the room dialog
  Map,              \* numbers of maps, as in MapList.csv
  ModesOf,          \* map -> modes in which it is valid
  MapMax,           \* map -> players at most
  Restricted,       \* maps that fix the weapon restriction
  Drawn,            \* maps a competitive zombie match is drawn from
  SlotMode,         \* modes of the voxel slots
  ModeMin, ModeMax, \* mode -> players at least and at most
  Rule,             \* switches among the fields of the room: names of Free
  Limit,            \* limits among them: names of Limits
  Allowed, Usual,   \* limit -> mode -> values allowed and the default
  NewRoom, Update   \* the blocks a host sends

Limits == {"winLimit", "killLimit", "gameTime", "roundTime", "buyTime", "startingCash"}

ASSUME RoomAssumption ==
  /\ NoUser \notin User
  /\ Limit \subseteq Limits
  /\ \A c \in Clans : DOMAIN c = User
  /\ \A b \in NewRoom \cup Update : "family" \in DOMAIN b => b.family \in {0, 1}

VARIABLES
  clan,        \* clan of every user, which module Clans changes and this one does not
  settings,    \* m_pSettings, Closed when there is no room
  users,       \* m_Users in order of arrival
  host,        \* m_pHostUser
  team,        \* m_Team of the users
  kicked,      \* m_KickedUsers
  match,       \* is there a game match
  battleUsers, \* m_FamilyBattleUsers
  astray       \* history: what the room was brought to past every test, see Note

vars == <<clan, settings, users, host, team, kicked, match, battleUsers, astray>>

Studio == 254
Competitive == 282
Closed == [family |-> 0]
Members == Range(users)
IsRoom == host # NoUser
OtherTeam(t) == IF t = "T" THEN "CT" ELSE "T"
ClansOf(S) == {clan[u] : u \in S}

-----------------------------------------------------------------------------
(* Fields *)

Base == {"mode", "map", "players", "playlist", "index", "competitive", "family", "id1", "id2"}
Field == Base \cup Rule \cup Limit

\* Fields of v over those of u.
With(u, v) == [f \in DOMAIN u \cup DOMAIN v |-> IF f \in DOMAIN v THEN v[f] ELSE u[f]]
Without(u, F) == Restrict(u, DOMAIN u \ F)
OfRoom(u) == Restrict(u, DOMAIN u \cap Field)

\* IsFamilyBattleAllowed, IsMapPlaylistAllowed
BattleModes == {0, 2, 22, 32, 40, 56, 57}
NoPlaylist == {10, 12, 16, 18, 19, 21, 25, 27, 31, 34, 37, 41, 48, 55, 38, 39, 49, 52, 53, 26, 28, 33}
NotRandom == {41, 48, 55, 38, 39, 49, 52, 53, 15, 17, 30, 33, 50, 51}
RespawnModes == {8, 9, 14, 20, 24, 29, 32, 45, 51}

\* Modes in which a switch is on by default.
OnIn == [leagueRule |-> {}, teamSwitch |-> {}, zbRespawn |-> RespawnModes \cup {56},
         zbBalance |-> RespawnModes, gameRule |-> {40}, zbAutoHunting |-> {}, integratedTeam |-> {},
         enhanceRestrict |-> {22, 32}, fireBomb |-> Mode, floatingDamageSkin |-> Mode \ {0},
         playerOneTeam |-> {3, 5}, teamBalance |-> Mode \ {41, 48, 50, 55, 56},
         friendlyFire |-> {1, 4, 38, 39}, zbLimitFlag |-> {}, weaponBuyCoolTime |-> {},
         zbRebalance |-> {14}, randomMap |-> {}]

\* Modes in which the host may change it.
Free == [leagueRule |-> {0, 32}, teamSwitch |-> {0, 3}, zbRespawn |-> RespawnModes,
         zbBalance |-> RespawnModes \cup {56}, gameRule |-> {40}, zbAutoHunting |-> {14, 45},
         integratedTeam |-> {2, 5, 56, 57}, enhanceRestrict |-> {0}, fireBomb |-> {14, 45, 55},
         floatingDamageSkin |-> {0, 2, 3, 5}, playerOneTeam |-> {3, 5},
         teamBalance |-> {0, 3, 23, 32, 57},
         friendlyFire |-> {0, 3, 8, 9, 14, 19, 30, 32, 37, 40, 45, 49, 51, 53, 54, 57},
         zbLimitFlag |-> {9, 14, 20, 45, 54}, weaponBuyCoolTime |-> {8, 9, 14, 24, 29, 45, 54},
         zbRebalance |-> {14}, randomMap |-> Mode \ NotRandom]

\* Switches that a change of mode leaves as they are.
Lasting == {"weaponBuyCoolTime", "zbRebalance", "randomMap"}

Default(r, m) == IF m \in OnIn[r] THEN 1 ELSE 0
Defaults(m, rules) == [f \in rules \cup Limit |-> IF f \in Limit THEN Usual[f][m] ELSE Default(f, m)]

Legal(r, m, v) == m \in Free[r] \/ v = Default(r, m)
Clamp(r, v) == CASE r = "zbLimitFlag" -> IF v > 1 THEN 3 ELSE v
                 [] r = "randomMap" -> IF v > 2 THEN 2 ELSE v
                 [] OTHER -> IF v > 1 THEN 1 ELSE v

\* The switches of the room are among those of the code.
ASSUME RuleAssumption == Rule \subseteq DOMAIN Free

\* IsMapValid
IsMapValid(m, map) == IF m \in {38, 39} THEN map = Studio ELSE m \in ModesOf[map]

\* What is tested of a playlist before its maps, and the whole of it.
ListShaped(list, m, map) ==
  /\ Len(list) \in 2 .. 5
  /\ m \notin NoPlaylist
  /\ IsInjective(list)
  /\ map = list[1]
PlaylistAllowed(list, m, map) ==
  /\ ListShaped(list, m, map)
  /\ \A k \in DOMAIN list : list[k] \in Map \ Restricted /\ IsMapValid(m, list[k])

-----------------------------------------------------------------------------
(* Blocks *)

\* LoadFamilyBattleSettings
Battle(m) ==
  LET own == CASE m = 0 -> [winLimit |-> 8, roundTime |-> 2, startingCash |-> 800,
                            enhanceRestrict |-> 1, leagueRule |-> 0, teamSwitch |-> 1,
                            floatingDamageSkin |-> 0]
               [] m = 2 -> [killLimit |-> 80, integratedTeam |-> 1, floatingDamageSkin |-> 0]
               [] m = 32 -> [winLimit |-> 5, roundTime |-> 2, leagueRule |-> 0, zbRespawn |-> 0, zbBalance |-> 0]
               [] m = 40 -> [killLimit |-> 120, gameRule |-> 0]
               [] m = 56 -> [buyTime |-> 60, zbBalance |-> 0, integratedTeam |-> 1]
               [] m = 57 -> [killLimit |-> 120, buyTime |-> 60, integratedTeam |-> 1]
               [] OTHER -> [players |-> 10]
  IN OfRoom(With([players |-> 10, gameTime |-> 150, buyTime |-> 20, teamBalance |-> 0,
                     friendlyFire |-> 0], own))

\* LoadZbCompetitiveSettings
ZbCompetitive(m) ==
  OfRoom([winLimit |-> IF m = 14 THEN 7 ELSE 13, gameTime |-> 150, roundTime |-> 3, buyTime |-> 90,
          startingCash |-> Usual["startingCash"][m], teamBalance |-> 1, friendlyFire |-> 0,
          enhanceRestrict |-> 0, zbLimitFlag |-> 0, zbRespawn |-> 1, zbBalance |-> 1, fireBomb |-> 1])

NoBattle == [family |-> 0, id1 |-> NoClan, id2 |-> NoClan]

\* ParseSlotDetails: a voxel slot sets its mode and players; the service may not answer.
Slots(b) ==
  IF "map" \in DOMAIN b /\ b.map = Studio
  THEN {With(b, [mode |-> m, players |-> ModeMax[m]]) : m \in SlotMode} ELSE {b}

\* What the server does not take from a client.
Received(b) == Without(b, {"index", "competitive", "id1", "id2"})

\* Mutant: the switches stay when the mode changes.
OfModeM(b, m, map) == IF m \in BattleModes THEN b ELSE With(b, NoBattle)

\* LoadNewSettings with a mode: its defaults take the place of nearly all the block asks for.
OfMode(b, m, map) ==
  LET own == With(b, Defaults(m, Rule \ Lasting))
      sized == IF map = Studio THEN own ELSE With(own, [players |-> ModeMax[m]])
  IN IF m \in BattleModes THEN sized ELSE With(sized, NoBattle)

\* LoadNewSettings without one: a field that does not fit the mode is dropped.
Kept(b, m, f) ==
  CASE f = "players" -> b.players \in ModeMin[m] .. ModeMax[m]
    [] f = "family" -> m \in BattleModes \/ b.family = 0
    [] f \in Limit -> b[f] \in Allowed[f][m] \/ (f = "winLimit" /\ m \in {0, 3})
    [] f \in Rule -> Legal(f, m, b[f])
    [] OTHER -> TRUE

Validated(b, m) ==
  [f \in {g \in DOMAIN b : Kept(b, m, g)} |-> IF f \in Rule THEN Clamp(f, b[f]) ELSE b[f]]

\* The family battle turned on or off by the host.
Battling(b, m) ==
  CASE "family" \notin DOMAIN b -> b
    [] "family" \in DOMAIN b /\ b.family = 1 -> With(b, Battle(m))
    [] OTHER -> With(With(b, NoBattle), OfRoom(IF m = 0 THEN [enhanceRestrict |-> 0] ELSE <<>>))

\* The map brings its number of players, or bounds it.
OnMap(b, m, map) ==
  LET sized == IF map = Studio THEN b ELSE With(b, [players |-> MapMax[map]])
      set == With(sized, [competitive |-> map = Competitive])
  IN CASE "map" \in DOMAIN b -> IF map = Competitive THEN With(set, ZbCompetitive(m)) ELSE set
       [] {"map", "players"} \cap DOMAIN b = {"players"} /\ b.players > MapMax[map] ->
            [b EXCEPT !.players = MapMax[map]]
       [] OTHER -> b

\* Random map and playlist.  A playlist that is refused takes the map with it, but not the mode;
\* one that is refused for its maps leaves the index behind.
Selected(b, m, map) ==
  LET drawn == IF "randomMap" \in DOMAIN b /\ ~Legal("randomMap", m, b.randomMap)
               THEN Without(b, {"randomMap"}) ELSE b
      shaped == "playlist" \in DOMAIN b /\ ListShaped(b.playlist, m, map)
      kept == "playlist" \in DOMAIN b => PlaylistAllowed(b.playlist, m, map)
      listed == With(IF kept THEN drawn ELSE Without(drawn, {"map", "playlist"}),
                     IF shaped THEN [index |-> 1] ELSE <<>>)
  IN IF "map" \in DOMAIN listed /\ "playlist" \notin DOMAIN b
     THEN With(listed, [playlist |-> <<>>]) ELSE listed

LoadNewSettings(b, m, map) ==
  Selected(OnMap(IF "mode" \in DOMAIN b THEN OfMode(b, m, map) ELSE Battling(Validated(b, m), m),
                 m, map), m, map)

-----------------------------------------------------------------------------
(* The checks of a new room and of a change *)

ModeOf(b) == IF "mode" \in DOMAIN b THEN b.mode ELSE settings.mode
MapOf(b) == IF "map" \in DOMAIN b THEN b.map ELSE settings.map
ChangesMode(b) == ModeOf(b) # settings.mode
ChangesMap(b) == MapOf(b) # settings.map

\* In the modes 0 and 3 the win limit goes by the league rule and the change of teams.
SwitchedOff(b, r) == r \in DOMAIN b \cap DOMAIN settings /\ b[r] = 0 /\ settings[r] # 0
LeagueRules == {"leagueRule", "teamSwitch"} \cap Rule
WinLimit(b) ==
  LET off == \E r \in LeagueRules : SwitchedOff(b, r)
  IN IF settings.mode \notin {0, 3} \/ "winLimit" \notin Limit THEN b
     ELSE CASE off -> With(b, [winLimit |-> Usual["winLimit"][settings.mode]])
         [] /\ ~off /\ {"winLimit", "family"} \cap DOMAIN b = {"winLimit"}
            /\ b.winLimit \notin (IF \E r \in LeagueRules : settings[r] # 0 THEN {6, 8, 10, 12, 14, 16}
                                  ELSE Allowed["winLimit"][settings.mode]) ->
              Without(b, {"winLimit"})
         [] OTHER -> b

\* Fire bombs and a limit of zombie items do not go together.
Bombs(b) ==
  Without(b, {f \in DOMAIN b :
    \/ f = "zbLimitFlag" /\ settings.mode # 9 /\ b[f] = 1 /\ "fireBomb" \in Rule /\ settings.fireBomb = 0
    \/ f = "fireBomb" /\ b[f] = 0 /\ "zbLimitFlag" \in Rule /\ settings.zbLimitFlag = 1})

\* CheckNewSettings: is the block taken, and what is left of it.
Taken(b) ==
  /\ ChangesMode(b) => ModeOf(b) \in Offered
  /\ ChangesMode(b) \/ ChangesMap(b) => MapOf(b) \in Map /\ IsMapValid(ModeOf(b), MapOf(b))
CheckNewSettings(b) ==
  LET loaded == LoadNewSettings(Received(b), ModeOf(b), MapOf(b))
  IN CASE ~ChangesMode(b) -> Bombs(WinLimit(loaded))
       [] ChangesMode(b) /\ ModeOf(b) \in BattleModes /\ settings.family = 1 -> With(loaded, Battle(ModeOf(b)))
       [] OTHER -> loaded

\* CheckSettings
Known(b) == With(b, [mode |-> IF b.mode \in Mode THEN b.mode ELSE 15,
                     map |-> IF b.map \in Map THEN b.map ELSE 98])
PlayersFit(b) == b.players <= MapMax[b.map] /\ b.players \in ModeMin[b.mode] .. ModeMax[b.mode]
\* The limits that come with a new room.
Chosen == {"winLimit", "killLimit"} \cap Limit
Creatable(b) ==
  /\ {"mode", "map", "players"} \cup Chosen \subseteq DOMAIN b
  /\ b.mode \in Offered /\ b.map \in Map /\ IsMapValid(b.mode, b.map)
  /\ PlayersFit(b)
  /\ \A l \in Chosen : b[l] # 0 => b[l] \in Allowed[l][b.mode]
  /\ "randomMap" \in DOMAIN b => Legal("randomMap", b.mode, b.randomMap)
  /\ "playlist" \in DOMAIN b => PlaylistAllowed(b.playlist, b.mode, b.map)
  /\ "family" \in DOMAIN b => b.mode \in BattleModes \/ b.family = 0

\* LoadDefaultSettings
LoadDefaultSettings(b) ==
  LET list == IF "playlist" \in DOMAIN b THEN b.playlist ELSE <<>>
      chosen == [f \in {l \in Chosen : b[l] # 0} \cup ({"randomMap"} \cap DOMAIN b) |-> b[f]]
      own == With(With(Defaults(b.mode, Rule), chosen),
                  [mode |-> b.mode, map |-> b.map, players |-> b.players, playlist |-> list,
                   index |-> IF list = <<>> THEN 0 ELSE 1, competitive |-> b.map = Competitive])
      set == IF own.competitive
             THEN With(own, OfRoom([players |-> 32, roundTime |-> 3,
                                    winLimit |-> IF b.mode = 14 THEN 7 ELSE 13])) ELSE own
  IN IF "family" \in DOMAIN b /\ b.family = 1
     THEN With(With(set, [NoBattle EXCEPT !.family = 1]), Battle(b.mode)) ELSE With(set, NoBattle)

-----------------------------------------------------------------------------
(* History *)

\* A block without a mode that turns the battle off, or says again that it is, brings any win
\* limit with it.
Untested(b) ==
  IF /\ settings.mode \in {0, 3} /\ "winLimit" \in Limit /\ "mode" \notin DOMAIN b
     /\ {"family", "winLimit"} \subseteq DOMAIN b /\ b.family = 0
  THEN {"winLimit"} ELSE {}

\* The competitive map in a mode it is not made for: a playlist or a refused one brings it there.
MapAstray(s) == s.map = Competitive /\ ~IsMapValid(s.mode, Competitive)

\* The map counts for as long as the room is there, the win limit until it is changed again.
Note(untested) ==
  LET stays(x) == x = "map" \/ (settings'.mode = settings.mode /\ settings'.winLimit = settings.winLimit)
  IN astray' = IF ~IsRoom' THEN {}
               ELSE untested \cup {x \in astray : stays(x)} \cup (IF MapAstray(settings') THEN {"map"} ELSE {})

-----------------------------------------------------------------------------
(* The playlist of matches *)

\* EndGame: back to the first map, or on to the next one of the list.
Advanced(s, forced) ==
  LET at == {k \in DOMAIN s.playlist : s.playlist[k] = s.map}
      next == IF forced THEN 1 ELSE LET k == CHOOSE j \in at : \A i \in at : j <= i
                                    IN IF k = Len(s.playlist) THEN 1 ELSE k + 1
  IN IF s.playlist = <<>> \/ (~forced /\ at = {}) THEN s
     ELSE [s EXCEPT !.map = s.playlist[next], !.index = next]

-----------------------------------------------------------------------------
(* Users of the room *)

\* Mutant: the clans of a battle do not follow the host.
SucceedM(s, u) == s

\* UpdateHost: the clan of the new host comes first.
Succeed(s, u) ==
  IF s.family = 1 /\ clan[u] # NoClan THEN [s EXCEPT !.id2 = s.id1, !.id1 = clan[u]] ELSE s

\* OnUserRemoved, with the settings s and the kicked users k: the next host is the oldest user of
\* the room or, in a match hosted by a peer, the oldest of the match, which ends when it has none.
RemoveUsers(gone, s, k) ==
  \E left \in Rests(users, {i \in DOMAIN users : users[i] \notin gone}) :
     /\ users' = left
     /\ UNCHANGED clan
     /\ team' = [u \in User |-> IF u \in gone THEN "CT" ELSE team[u]]
     /\ \/ /\ left = <<>>
           /\ host' = NoUser /\ settings' = Closed /\ kicked' = {}
           /\ match' = FALSE /\ battleUsers' = {}
        \/ /\ left # <<>> /\ host \notin gone
           /\ settings' = s /\ kicked' = k
           /\ UNCHANGED <<host, match, battleUsers>>
        \/ /\ left # <<>> /\ host \in gone
           /\ \E next \in Range(left), ends \in BOOLEAN :
                /\ next = left[1] \/ (match /\ ~ends)
                /\ ends => match
                /\ host' = next
                /\ match' = (match /\ ~ends)
                /\ settings' = Succeed(IF ends THEN Advanced(s, TRUE) ELSE s, next)
           /\ kicked' = {}
           /\ UNCHANGED battleUsers
     /\ Note({})

\* OnLeaveRoomRequest: the last of a clan to leave frees its place in the battle.
Forget(u) ==
  LET last == settings.family # 0 /\ clan[u] \notin {NoClan} \cup ClansOf(Members \ {u})
  IN CASE last /\ settings.id1 = clan[u] -> [settings EXCEPT !.id1 = NoClan]
       [] last /\ settings.id1 # clan[u] /\ settings.id2 = clan[u] -> [settings EXCEPT !.id2 = NoClan]
       [] OTHER -> settings

OnLeaveRoomRequest(u) ==
  /\ u \in Members
  /\ RemoveUsers({u}, Forget(u), kicked)

\* A connection that ends: the clans of the battle stay.
Disconnect(u) ==
  /\ u \in Members
  /\ RemoveUsers({u}, settings, kicked)

\* The host, who must not be playing (see Lobby), kicks a user or the other clan.
OnRoomKickRequest(u) ==
  /\ u \in Members \ {host}
  /\ RemoveUsers({u}, settings, kicked \cup {u})

OnRoomKickClanRequest ==
  /\ IsRoom
  /\ settings.family = 1 /\ settings.id2 # NoClan /\ clan[host] # NoClan
  /\ LET gone == {u \in Members \ {host} : clan[u] \notin {NoClan, clan[host]}}
     IN gone # {} /\ RemoveUsers(gone, settings, kicked \cup gone)

\* Mutant: the second clan is not looked at.
BattleEntryM(c) == {[settings EXCEPT !.id2 = IF @ = NoClan /\ c # settings.id1 THEN c ELSE @]}

\* The settings with which a user of clan c is let into a battle; none when he is not.
BattleEntry(c) ==
  CASE c # NoClan /\ c \in {settings.id1, settings.id2} -> {settings}
    [] c \notin {NoClan, settings.id1} /\ settings.id2 = NoClan -> {[settings EXCEPT !.id2 = c]}
    [] OTHER -> {}

\* IsUserInFamilyBattleUsers
PartOf(u) == ~match \/ u \in battleUsers

\* Mutant: everybody joins the same side.
SideM(u) == "CT"

\* The side of a newcomer: that of his clan, judged by the first user who has one.
Side(u) ==
  LET first == SelectInSeq(users, LAMBDA v : clan[v] # NoClan)
  IN CASE first = 0 -> "CT"
       [] first # 0 /\ clan[users[first]] = clan[u] -> team[users[first]]
       [] OTHER -> OtherTeam(team[users[first]])

\* OnJoinRoomRequest.  A user who is no part of a running battle is refused after his clan
\* has become its second one.
OnJoinRoomRequest(u) ==
  /\ IsRoom
  /\ u \notin Members \cup kicked
  /\ settings.players > Len(users)
  /\ \E s \in IF settings.family = 1 THEN BattleEntry(clan[u]) ELSE {settings} :
       /\ settings' = s
       /\ IF s.family = 1 /\ ~PartOf(u) THEN UNCHANGED <<users, team>>
          ELSE /\ users' = Append(users, u)
               /\ team' = [team EXCEPT ![u] = IF s.family = 1 THEN Side(u) ELSE "CT"]
  /\ UNCHANGED <<clan, host, kicked, match, battleUsers>>
  /\ Note({})

\* OnNewRoomRequest
OnNewRoomRequest(u, b) ==
  /\ ~IsRoom
  /\ \E known \in Slots(Known(b)) :
       /\ Creatable(known)
       /\ LET s == LoadDefaultSettings(known)
          IN /\ s.family = 1 => clan[u] # NoClan
             /\ settings' = Succeed(s, u)
  /\ users' = <<u>>
  /\ host' = u
  /\ UNCHANGED <<clan, team, kicked, match, battleUsers>>
  /\ Note({})

OnSetTeamRequest(u, t) ==
  /\ u \in Members
  /\ settings.family = 0
  /\ team' = [team EXCEPT ![u] = t]
  /\ UNCHANGED <<clan, settings, users, host, kicked, match, battleUsers, astray>>

\* A battle can begin with the users in the room.
TwoClansIn ==
  /\ \A u \in Members : clan[u] # NoClan
  /\ Cardinality(ClansOf(Members)) <= 2

\* The sides the users are put on: the host's for the first clan of the settings so far.
Sides(first) ==
  [u \in User |-> IF u \notin Members \ {host} THEN team[u]
                  ELSE IF clan[u] = first THEN team[host] ELSE OtherTeam(team[host])]

\* UpdateSettings: what the flags name replaces the room's; with the battle come its clans.
UpdateSettings(b, second) ==
  With(With(settings, b),
       IF "family" \in DOMAIN b
       THEN [id1 |-> IF b.family = 1 THEN clan[host] ELSE NoClan, id2 |-> second] ELSE <<>>)

\* OnRoomUpdateSettings.  The value of a dropped field is still there: it is what a refused
\* battle is judged by.
OnRoomUpdateSettings(b) ==
  /\ IsRoom /\ ~match /\ settings.index <= 1
  /\ UNCHANGED <<clan, users, host, kicked, match, battleUsers>>
  /\ \E sent \in Slots(b) :
       /\ Taken(sent)
       /\ LET left == CheckNewSettings(sent)
              raw == With(Received(sent), left)
              asked == "family" \in DOMAIN raw /\ raw.family = 1
              others == ClansOf(Members) \ {clan[host]}
              second == IF asked /\ others # {} THEN CHOOSE c \in others : TRUE ELSE NoClan
          IN /\ asked => TwoClansIn /\ "players" \in DOMAIN raw /\ Len(users) <= raw.players
             /\ settings' = UpdateSettings(left, second)
             /\ team' = IF asked THEN Sides(settings.id1) ELSE team
       /\ Note(Untested(sent))

\* OnGameStartRequest and HostStartGame; those who are ready are among the other users.
OnGameStartRequest ==
  /\ IsRoom /\ ~match
  /\ settings.family = 1 => /\ settings.id2 # NoClan
                            /\ Len(users) >= IF settings.mode = 32 THEN settings.players ELSE 2
  /\ match' = TRUE
  /\ \E map \in IF settings.competitive THEN Drawn ELSE {settings.map} :
       settings' = [settings EXCEPT !.map = map]
  /\ battleUsers' = IF settings.family = 1 THEN Members ELSE battleUsers
  /\ UNCHANGED <<clan, users, host, team, kicked>>
  /\ Note({})

EndGame(forced) ==
  /\ match
  /\ match' = FALSE
  /\ settings' = Advanced(settings, forced)
  /\ UNCHANGED <<clan, users, host, team, kicked, battleUsers>>
  /\ Note({})

Init ==
  /\ clan \in Clans
  /\ settings = Closed
  /\ users = <<>>
  /\ host = NoUser
  /\ team = [u \in User |-> "CT"]
  /\ kicked = {}
  /\ match = FALSE
  /\ battleUsers = {}
  /\ astray = {}

Next ==
  \/ \E u \in User :
       \/ \E b \in NewRoom : OnNewRoomRequest(u, b)
       \/ OnJoinRoomRequest(u)
       \/ OnLeaveRoomRequest(u)
       \/ Disconnect(u)
       \/ OnRoomKickRequest(u)
       \/ \E t \in {"T", "CT"} : OnSetTeamRequest(u, t)
  \/ OnRoomKickClanRequest
  \/ \E b \in Update : OnRoomUpdateSettings(b)
  \/ OnGameStartRequest
  \/ \E forced \in BOOLEAN : EndGame(forced)

Spec == Init /\ [][Next]_vars

-----------------------------------------------------------------------------
(* Properties *)

\* The switches that go by the mode: a battle may also leave the balance of the teams off.
Fixed == Rule \ (Lasting \cup {"teamBalance"})

\* The zombie modes competitive matches are of.
CompetitiveModes == RespawnModes \ {32}

\* The win limits of a mode: its own, the league rule's, and those of a competitive match.
WinLimits(m) == Allowed["winLimit"][m] \cup (IF m \in {0, 3} THEN {6, 8, 10, 12, 14, 16} ELSE {})
                                      \cup (IF m \in CompetitiveModes THEN {7, 13} ELSE {})

\* Every switch and the win limit fit the mode of the room, whatever changes of mode, map and
\* battle, playlists and matches it has been through (roomsettings.cpp, LoadNewSettings), but
\* for the two ways past every test that the code leaves: the competitive map in a mode it is
\* not valid in, with which a block that names it brings its rules, and a win limit in the same
\* block as the end of a battle (roomsettings.cpp:2737).
RulesFitMode ==
  IsRoom /\ "map" \notin astray =>
    /\ \A r \in Fixed : Legal(r, settings.mode, settings[r])
    /\ "winLimit" \in Limit \ astray => settings.winLimit \in WinLimits(settings.mode)

\* The tables RulesFitMode rests on: what a mode starts with is allowed in it, what a battle of
\* mode 32 starts with as well, and the competitive map is one of zombie modes.
TablesFit ==
  /\ Offered \subseteq Mode /\ Competitive \in Map
  /\ \A m \in Offered : /\ "winLimit" \in Limit => Usual["winLimit"][m] \in Allowed["winLimit"][m]
                        /\ "winLimit" \in Limit /\ m = 32 => 5 \in Allowed["winLimit"][m]
                        /\ IsMapValid(m, Competitive) => m \in CompetitiveModes

\* Users of at most two clans, and none without a clan, are in the room of a family battle,
\* whoever joins, leaves, is kicked or becomes host (channelmanager.cpp, OnJoinRoomRequest).
TwoClans == IsRoom /\ settings.family = 1 => TwoClansIn

\* The first clan of a battle is the clan of the host.
HostsClanFirst == IsRoom /\ settings.family = 1 => settings.id1 = clan[host]

\* Users of one clan are on one side, those of two clans on two.
SidesAreClans == \A u, v \in Members : team[u] = team[v] <=> clan[u] = clan[v]

\* Once the sides of a battle are its clans they stay so: nobody who joins, leaves, hosts or
\* changes the settings ends up with the other clan.
SidesStay == [][IsRoom /\ settings.family = 1 /\ SidesAreClans /\ settings'.family = 1 => SidesAreClans']_vars

\* Turning a battle on puts the users of each clan on a side of their own.
SidesSet == [][IsRoom /\ settings.family = 0 /\ settings'.family = 1 => SidesAreClans']_vars

\* The two clans of a battle are the clans of its users.
OpponentsKnown ==
  IsRoom /\ settings.family = 1 => ClansOf(Members) \subseteq {settings.id1, settings.id2}

\* The map of the room is valid in its mode.
MapFitsMode == IsRoom => IsMapValid(settings.mode, settings.map)

\* Every switch of the room is one its mode allows.
EveryRuleFits == IsRoom => \A r \in Rule : Legal(r, settings.mode, settings[r])

\* Fire bombs are not banned together with the zombie items that go with them.
BombsFit ==
  IsRoom /\ settings.mode # 9 => ~(settings.zbLimitFlag = 1 /\ settings.fireBomb = 0)
=============================================================================
