---------------------------- MODULE MCRoomSettings ----------------------------
(* Rooms with modes and maps of GameModeList.csv and MapList.csv, with fewer values for each. *)
EXTENDS RoomSettings, TLC

CONSTANTS u1, u2, u3

ClanChoices == {(u1 :> "A" @@ u2 :> "A" @@ u3 :> "B"), (u1 :> "A" @@ u2 :> "B" @@ u3 :> "C"),
                (u1 :> "A" @@ u2 :> "B" @@ u3 :> NoClan)}

Modes == {0, 14, 56}
ModesOfDef == (4 :> {0, 14, 56} @@ 5 :> {0, 14} @@ 282 :> {14})
MapMaxDef == [m \in Map |-> 10]
ModeMinDef == (0 :> 2 @@ 14 :> 2 @@ 56 :> 4)
ModeMaxDef == [m \in Mode |-> 10]
AllowedDef == [winLimit |-> (0 :> {5, 9} @@ 14 :> {7, 13} @@ 56 :> {4, 6, 8})]
UsualDef == [winLimit |-> (0 :> 9 @@ 14 :> 13 @@ 56 :> 4), startingCash |-> (0 :> 800 @@ 14 :> 800 @@ 56 :> 800)]

NewRooms ==
  {[mode |-> 0, map |-> 4, players |-> 10, winLimit |-> 0, family |-> 1],
   [mode |-> 14, map |-> 282, players |-> 10, winLimit |-> 0]}

Updates ==
  {[mode |-> m] : m \in Modes} \cup {[map |-> m] : m \in Map}
    \cup {[family |-> f] : f \in {0, 1}}
    \cup {(r :> v) : r \in Rule, v \in {0, 1}}
    \cup {[winLimit |-> 16], [family |-> 0, winLimit |-> 99]}
    \cup {[mode |-> 56, map |-> 4, family |-> 1]}
    \cup {[map |-> 282, playlist |-> <<282, 4>>], [mode |-> 56, map |-> 4, playlist |-> <<4, 4>>]}

\* The hypothesis of the theorem about RulesFitMode holds of these tables.
ASSUME RulesAssumption == TablesFit

\* Bound: a room with a playlist, past the tests, or with rules that are neither its mode's own
\* nor those of a battle, is that of a host who is and was alone in it.  What a block makes of the
\* settings does not depend on the other users.
OwnRules == settings.teamSwitch = 0 /\ settings.winLimit = UsualDef.winLimit[settings.mode]
BattleRules == settings.mode = 0 /\ settings.teamSwitch = 1 /\ settings.winLimit = 8
Alone == IsRoom => \/ settings.playlist = <<>> /\ astray = {} /\ (OwnRules \/ BattleRules)
                   \/ Len(users) = 1 /\ kicked = {} /\ battleUsers \subseteq Members

\* Both at once.
BombUpdates == {[mode |-> m] : m \in Modes} \cup {[zbLimitFlag |-> 1, fireBomb |-> 0]}

\* With a map comes a playlist.
Playlists == {<<4, 5>>, <<5, 5>>}
ListUpdates ==
  {[mode |-> m] : m \in Modes} \cup {[mode |-> m, map |-> l[1], playlist |-> l] : m \in Modes, l \in Playlists}
=============================================================================
