------------------------------- MODULE MCLobby -------------------------------
(* Instances of Lobby for TLC. *)
EXTENDS Lobby, TLC

CONSTANTS m1, m2

\* No playlist, or one of two maps that hosts may also send the wrong way round.
Maps == {m1, m2, OtherMap}
TwoMaps == {<<m1, m2>>}
NoPlaylists == {}

\* Users, rooms and servers are told apart only by their place in a list, which a
\* permutation carries along.
Symmetry == Permutations(User) \cup Permutations(Room) \cup Permutations(Server)
=============================================================================
