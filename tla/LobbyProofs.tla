----------------------------- MODULE LobbyProofs -----------------------------
(***************************************************************************)
(* Theorems about Lobby, for all numbers of users, rooms and servers, all  *)
(* maps and playlists, and every value of the two configuration switches.  *)
(***************************************************************************)
EXTENDS Lobby, SequenceTheorems, FiniteSetTheorems, WellFoundedInduction, TLAPS

(***************************************************************************)
(* Sequences                                                               *)
(***************************************************************************)

\* A nonempty set of natural numbers has a least element.
LEMMA LeastElement ==
  ASSUME NEW T \in SUBSET Nat, T # {}
  PROVE  \E i \in T : \A j \in T : i <= j
<1>1. \E i \in T : \A j \in T : ~(<<j, i>> \in OpToRel(<, Nat))
  BY WFMin, NatLessThanWellFounded, Zenon
<1>2. PICK i \in T : \A j \in T : ~(<<j, i>> \in OpToRel(<, Nat))
  BY <1>1
<1>3. \A j \in T : ~(j < i)
  BY <1>2 DEF OpToRel
<1> QED BY <1>3

\* The members of a sequence are elements of its set.
LEMMA MembersType ==
  ASSUME NEW S, NEW s \in Seq(S)
  PROVE  ToSet(s) \subseteq S
BY DEF ToSet

\* A sequence is empty exactly when it has no members.
LEMMA EmptyMembers ==
  ASSUME NEW S, NEW s \in Seq(S)
  PROVE  s = <<>> <=> ToSet(s) = {}
BY DEF ToSet

\* Append adds one member, and keeps a sequence free of duplicates if it is new.
LEMMA AppendMembers ==
  ASSUME NEW S, NEW s \in Seq(S), NEW x \in S
  PROVE  /\ Append(s, x) \in Seq(S)
         /\ ToSet(Append(s, x)) = ToSet(s) \cup {x}
         /\ IsInjective(s) /\ x \notin ToSet(s) => IsInjective(Append(s, x))
<1> DEFINE t == Append(s, x)
<1>1. /\ t \in Seq(S) /\ Len(t) = Len(s) + 1
      /\ \A i \in 1..Len(s) : t[i] = s[i]
      /\ t[Len(s) + 1] = x
  BY AppendProperties
<1>2. DOMAIN t = 1..(Len(s) + 1) /\ DOMAIN s = 1..Len(s) /\ Len(s) \in Nat
  BY <1>1, LenProperties
<1> HIDE DEF t
<1>3. ToSet(t) = ToSet(s) \cup {x}
  BY <1>1, <1>2 DEF ToSet
<1>4. IsInjective(s) /\ x \notin ToSet(s) => IsInjective(t)
  BY <1>1, <1>2 DEF ToSet, IsInjective
<1> QED BY <1>1, <1>3, <1>4 DEF t

\* Where the elements of RemoveAt(s, i) come from.
LEMMA RemoveAtElements ==
  ASSUME NEW S, NEW s \in Seq(S), NEW i \in 1..Len(s)
  PROVE  /\ RemoveAt(s, i) \in Seq(S)
         /\ Len(RemoveAt(s, i)) = Len(s) - 1
         /\ \A k \in 1..(Len(s) - 1) : RemoveAt(s, i)[k] = IF k < i THEN s[k] ELSE s[k + 1]
<1> DEFINE a == SubSeq(s, 1, i - 1)
           b == SubSeq(s, i + 1, Len(s))
<1>1. Len(s) \in Nat /\ \A k \in 1..Len(s) : s[k] \in S
  BY LenProperties
<1>2. /\ a \in Seq(S) /\ Len(a) = i - 1
      /\ \A k \in 1..(i - 1) : a[k] = s[k]
  <2>1. \A k \in 1..(i - 1) : s[k] \in S
    BY <1>1
  <2>2. /\ a \in Seq(S)
        /\ Len(a) = IF 1 <= i - 1 THEN (i - 1) - 1 + 1 ELSE 0
        /\ \A k \in 1..((i - 1) - 1 + 1) : a[k] = s[1 + k - 1]
    BY <2>1, SubSeqProperties
  <2> QED BY <2>2
<1>3. /\ b \in Seq(S) /\ Len(b) = Len(s) - i
      /\ \A k \in 1..(Len(s) - i) : b[k] = s[i + k]
  <2>1. \A k \in (i + 1)..Len(s) : s[k] \in S
    BY <1>1
  <2>2. /\ b \in Seq(S)
        /\ Len(b) = IF i + 1 <= Len(s) THEN Len(s) - (i + 1) + 1 ELSE 0
        /\ \A k \in 1..(Len(s) - (i + 1) + 1) : b[k] = s[i + 1 + k - 1]
    BY <1>1, <2>1, SubSeqProperties
  <2> QED BY <1>1, <2>2
<1> DEFINE c == a \o b
<1>4. /\ c \in Seq(S) /\ Len(c) = Len(a) + Len(b)
      /\ \A k \in 1..(Len(a) + Len(b)) : c[k] = IF k <= Len(a) THEN a[k] ELSE b[k - Len(a)]
  BY <1>2, <1>3, ConcatProperties
<1>5. RemoveAt(s, i) = c
  BY DEF RemoveAt
<1> HIDE DEF a, b, c
<1>6. Len(a) + Len(b) = Len(s) - 1
  BY <1>1, <1>2, <1>3
<1>7. \A k \in 1..(Len(s) - 1) : c[k] = IF k <= i - 1 THEN a[k] ELSE b[k - (i - 1)]
  BY <1>2, <1>4, <1>6
<1>8. ASSUME NEW k \in 1..(Len(s) - 1)
      PROVE  c[k] = IF k < i THEN s[k] ELSE s[k + 1]
  <2>1. CASE k < i
    <3>1. k \in 1..(i - 1)
      BY <1>1, <2>1
    <3> QED BY <1>2, <1>7, <2>1, <3>1
  <2>2. CASE ~(k < i)
    <3> DEFINE n == k - (i - 1)
    <3>1. n \in 1..(Len(s) - i) /\ i + n = k + 1 /\ ~(k <= i - 1)
      BY <1>1, <2>2
    <3>2. c[k] = b[n]
      BY <1>7, <3>1
    <3> HIDE DEF n
    <3>3. b[n] = s[i + n]
      BY <1>3, <3>1
    <3> QED BY <2>2, <3>1, <3>2, <3>3
  <2> QED BY <2>1, <2>2
<1> QED BY <1>1, <1>2, <1>3, <1>4, <1>5, <1>6, <1>8

\* Erase keeps the type of a sequence.
LEMMA EraseType ==
  ASSUME NEW S, NEW s \in Seq(S), NEW x
  PROVE  Erase(s, x) \in Seq(S)
<1>1. CASE \E i \in 1..Len(s) : s[i] = x
  <2> DEFINE i == CHOOSE j \in 1..Len(s) : s[j] = x
  <2>1. i \in 1..Len(s)
    BY <1>1
  <2> QED BY <1>1, <2>1, RemoveAtElements DEF Erase
<1>2. CASE ~ \E i \in 1..Len(s) : s[i] = x
  BY <1>2 DEF Erase
<1> QED BY <1>1, <1>2

\* From a sequence without duplicates Erase removes its argument and nothing else.
LEMMA EraseMembers ==
  ASSUME NEW S, NEW s \in Seq(S), NEW x, IsInjective(s)
  PROVE  /\ ToSet(Erase(s, x)) = ToSet(s) \ {x}
         /\ IsInjective(Erase(s, x))
<1> USE LenProperties
<1>1. CASE \E i \in 1..Len(s) : s[i] = x
  <2> DEFINE i == CHOOSE j \in 1..Len(s) : s[j] = x
             e == RemoveAt(s, i)
  <2>1. i \in 1..Len(s) /\ s[i] = x
    BY <1>1
  <2>2. Erase(s, x) = e
    BY <1>1 DEF Erase
  <2>3. /\ e \in Seq(S) /\ Len(e) = Len(s) - 1
        /\ \A k \in 1..(Len(s) - 1) : e[k] = IF k < i THEN s[k] ELSE s[k + 1]
    BY <2>1, RemoveAtElements
  <2> HIDE DEF i, e
  <2>4. /\ DOMAIN e = 1..(Len(s) - 1) /\ DOMAIN s = 1..Len(s) /\ Len(s) \in Nat
        /\ \A j, k \in 1..Len(s) : s[j] = s[k] => j = k
    BY <2>3 DEF IsInjective
  <2>5. IsInjective(e)
    BY <2>1, <2>3, <2>4 DEF IsInjective
  <2>6. ToSet(e) \subseteq ToSet(s) \ {x}
    <3> SUFFICES ASSUME NEW k \in 1..(Len(s) - 1)
                 PROVE  e[k] \in ToSet(s) \ {x}
      BY <2>4 DEF ToSet
    <3>1. CASE k < i
      <4>1. k \in 1..Len(s) /\ k # i /\ e[k] = s[k]
        BY <2>1, <2>3, <2>4, <3>1
      <4> QED BY <2>1, <2>4, <4>1 DEF ToSet
    <3>2. CASE ~(k < i)
      <4>1. k + 1 \in 1..Len(s) /\ k + 1 # i /\ e[k] = s[k + 1]
        BY <2>1, <2>3, <2>4, <3>2
      <4> QED BY <2>1, <2>4, <4>1 DEF ToSet
    <3> QED BY <3>1, <3>2
  <2>7. ToSet(s) \ {x} \subseteq ToSet(e)
    <3> SUFFICES ASSUME NEW j \in 1..Len(s), s[j] # x
                 PROVE  s[j] \in ToSet(e)
      BY <2>4 DEF ToSet
    <3>1. CASE j < i
      <4>1. j \in 1..(Len(s) - 1) /\ e[j] = s[j]
        BY <2>1, <2>3, <2>4, <3>1
      <4> QED BY <2>4, <4>1 DEF ToSet
    <3>2. CASE j > i
      <4>1. j - 1 \in 1..(Len(s) - 1) /\ e[j - 1] = s[j]
        BY <2>1, <2>3, <2>4, <3>2
      <4> QED BY <2>4, <4>1 DEF ToSet
    <3> QED BY <2>1, <3>1, <3>2
  <2> QED BY <2>2, <2>5, <2>6, <2>7
<1>2. CASE ~ \E i \in 1..Len(s) : s[i] = x
  BY <1>2 DEF Erase, ToSet
<1> QED BY <1>1, <1>2

(***************************************************************************)
(* Room states.  Each lemma says what a method of CRoom leaves of the      *)
(* fields the invariants are about, so that later proofs do not expand it. *)
(***************************************************************************)

\* A room nobody is in is a room state.
LEMMA NullRoomType == NullRoom \in RoomState
BY PlaylistAssumption DEF NullRoom, RoomState, ReadyStatus

\* The map and the index that follow a match.
LEMMA NextMapType ==
  ASSUME NEW R \in RoomState, NEW forced \in BOOLEAN
  PROVE  /\ NextMap(R, forced).map \in Map /\ NextMap(R, forced).index \in Nat
         /\ NextMap(R, forced).index \in {R.index} \cup 1..Len(R.list)
<1>1. R.list \in Seq(Map) /\ R.map \in Map /\ R.index \in Nat
  BY DEF RoomState
<1>2. Len(R.list) \in Nat /\ \A k \in 1..Len(R.list) : R.list[k] \in Map
  BY <1>1, LenProperties
<1>3. CASE R.list = <<>>
  BY <1>1, <1>3 DEF NextMap
<1>4. CASE R.list # <<>> /\ forced
  <2>1. 1 \in 1..Len(R.list)
    BY <1>1, <1>2, <1>4, EmptySeq
  <2> QED BY <1>2, <1>4, <2>1 DEF NextMap
<1>5. CASE R.list # <<>> /\ ~forced /\ R.map \notin ToSet(R.list)
  BY <1>1, <1>5 DEF NextMap
<1>6. CASE R.list # <<>> /\ ~forced /\ R.map \in ToSet(R.list)
  <2> DEFINE First(j) == R.list[j] = R.map /\ \A k \in 1..(j - 1) : R.list[k] # R.map
             i == CHOOSE j \in 1..Len(R.list) : First(j)
             n == IF i = Len(R.list) THEN 1 ELSE i + 1
             T == {j \in 1..Len(R.list) : R.list[j] = R.map}
  <2>1. T # {} /\ T \in SUBSET Nat
    BY <1>1, <1>2, <1>6, LenProperties DEF ToSet
  <2>2. PICK j \in T : \A k \in T : j <= k
    BY <2>1, LeastElement
  <2>3. j \in 1..Len(R.list) /\ First(j)
    BY <1>2, <2>2
  <2>4. i \in 1..Len(R.list)
    BY <2>3
  <2> HIDE DEF i
  <2>5. n \in 1..Len(R.list)
    BY <1>2, <2>4
  <2>6. NextMap(R, forced) = [map |-> R.list[n], index |-> n]
    BY <1>6 DEF NextMap, i
  <2> QED BY <1>2, <2>5, <2>6
<1> QED BY <1>3, <1>4, <1>5, <1>6

\* Starting the game for some users of a room.
LEMMA SetIngameFacts ==
  ASSUME NEW R \in RoomState, NEW us \in SUBSET User
  PROVE  /\ SetIngame(R, us) \in RoomState
         /\ SetIngame(R, us).users = R.users /\ SetIngame(R, us).host = R.host
         /\ SetIngame(R, us).match = R.match /\ SetIngame(R, us).stats = R.stats
BY DEF SetIngame, RoomState, ReadyStatus

\* EndGame leaves the users and the host alone and ends the match.
LEMMA EndGameFacts ==
  ASSUME NEW R \in RoomState, NEW forced \in BOOLEAN
  PROVE  /\ EndGame(R, forced) \in RoomState
         /\ EndGame(R, forced).users = R.users /\ EndGame(R, forced).host = R.host
         /\ EndGame(R, forced).match = FALSE /\ EndGame(R, forced).stats = <<>>
<1> DEFINE C == ClearIngame(R, ToSet(R.users))
<1>1. C \in RoomState /\ C.users = R.users /\ C.host = R.host
  BY DEF ClearIngame, RoomState, ReadyStatus
<1>2. NextMap(R, forced).map \in Map /\ NextMap(R, forced).index \in Nat
  BY NextMapType
<1> HIDE DEF C
<1> DEFINE Ended(m, i, s) ==
             [C EXCEPT !.match = FALSE, !.stats = <<>>, !.playing = FALSE,
                       !.map = m, !.index = i, !.server = s]
           next == NextMap(R, forced)
           keep == ConnectingMethod = 1 /\ R.list # <<>> /\ next.index # 1
           server == IF keep THEN C.server ELSE NoServer
<1>3. ASSUME NEW m \in Map, NEW i \in Nat, NEW s \in Server \cup {NoServer}
      PROVE  /\ Ended(m, i, s) \in RoomState
             /\ Ended(m, i, s).users = R.users /\ Ended(m, i, s).host = R.host
             /\ Ended(m, i, s).match = FALSE /\ Ended(m, i, s).stats = <<>>
  <2>1. <<>> \in Seq(User)
    BY EmptySeq
  <2> QED BY <1>1, <2>1 DEF RoomState
<1>4. server \in Server \cup {NoServer}
  BY <1>1 DEF RoomState
<1>5. EndGame(R, forced) = Ended(next.map, next.index, server)
  BY DEF EndGame, C
<1>6. next.map \in Map /\ next.index \in Nat
  BY <1>2
<1> HIDE DEF next, server, Ended
<1> DEFINE E == Ended(next.map, next.index, server)
<1>7. /\ E \in RoomState /\ E.users = R.users /\ E.host = R.host
      /\ E.match = FALSE /\ E.stats = <<>>
  BY <1>3, <1>4, <1>6
<1> HIDE DEF E
<1>8. EndGame(R, forced) = E
  BY <1>5 DEF E
<1> QED BY <1>7, <1>8

\* UpdateHost makes u the host; the match goes on as it was or is over.
LEMMA UpdateHostFacts ==
  ASSUME NEW R \in RoomState, NEW u \in User
  PROVE  /\ UpdateHost(R, u) \in RoomState
         /\ UpdateHost(R, u).users = R.users /\ UpdateHost(R, u).host = u
         /\ \/ UpdateHost(R, u).match = R.match /\ UpdateHost(R, u).stats = R.stats
            \/ UpdateHost(R, u).match = FALSE /\ UpdateHost(R, u).stats = <<>>
<1> DEFINE R1 == [R EXCEPT !.host = u, !.ready[u] = "no", !.kicked = {}]
<1>1. /\ R1 \in RoomState /\ R1.users = R.users /\ R1.host = u
      /\ R1.match = R.match /\ R1.stats = R.stats
  BY DEF RoomState, ReadyStatus
<1> HIDE DEF R1
<1> QED BY <1>1, EndGameFacts DEF UpdateHost, R1

\* The new host of a room with users is one of them if the statistics are of users.
LEMMA NewHostFacts ==
  ASSUME NEW R \in RoomState, R.users # <<>>
  PROVE  /\ NewHost(R) \in User
         /\ ToSet(R.stats) \subseteq ToSet(R.users) => NewHost(R) \in ToSet(R.users)
<1>1. R.users \in Seq(User) /\ R.stats \in Seq(User)
  BY DEF RoomState
<1>2. R.users[1] \in ToSet(R.users)
  BY <1>1, EmptySeq, LenProperties DEF ToSet
<1>3. R.stats # <<>> => R.stats[1] \in ToSet(R.stats)
  BY <1>1, EmptySeq, LenProperties DEF ToSet
<1>4. ToSet(R.users) \subseteq User /\ ToSet(R.stats) \subseteq User
  BY <1>1, MembersType
<1> QED BY <1>2, <1>3, <1>4 DEF NewHost

\* RemoveUser: an empty room is gone, otherwise the user and its statistics are.
LEMMA RemoveUserFacts ==
  ASSUME NEW R \in RoomState, NEW u \in User
  PROVE  LET Q == RemoveUser(R, u) IN
         /\ Q \in RoomState
         /\ Erase(R.users, u) = <<>> => Q = NullRoom
         /\ Erase(R.users, u) # <<>> =>
              /\ Q.users = Erase(R.users, u)
              /\ \/ Q.match = R.match /\ Q.stats = Erase(R.stats, u)
                 \/ Q.match = FALSE /\ Q.stats = <<>>
              /\ R.host # u => Q.host = R.host /\ Q.match = R.match
              /\ R.host = u /\ ToSet(Erase(R.stats, u)) \subseteq ToSet(Erase(R.users, u))
                   => Q.host \in ToSet(Erase(R.users, u))
<1> DEFINE R1 == [R EXCEPT !.users = Erase(R.users, u), !.stats = Erase(R.stats, u),
                           !.ready[u] = "no", !.ingame = R.ingame \ {u}]
<1>1. Erase(R.users, u) \in Seq(User) /\ Erase(R.stats, u) \in Seq(User)
  BY EraseType DEF RoomState
<1>2. /\ R1 \in RoomState
      /\ R1.users = Erase(R.users, u) /\ R1.stats = Erase(R.stats, u)
      /\ R1.host = R.host /\ R1.match = R.match
  BY <1>1 DEF RoomState, ReadyStatus
<1>3. RemoveUser(R, u) = IF R1.users = <<>> THEN NullRoom
                         ELSE IF R.host = u THEN UpdateHost(R1, NewHost(R1)) ELSE R1
  BY DEF RemoveUser, Disconnect
<1> HIDE DEF R1
<1>4. CASE R1.users = <<>>
  BY <1>2, <1>3, <1>4, NullRoomType
<1>5. CASE R1.users # <<>> /\ R.host # u
  BY <1>2, <1>3, <1>5
<1>6. CASE R1.users # <<>> /\ R.host = u
  <2>1. /\ NewHost(R1) \in User
        /\ ToSet(R1.stats) \subseteq ToSet(R1.users) => NewHost(R1) \in ToSet(R1.users)
    BY <1>2, <1>6, NewHostFacts
  <2>2. RemoveUser(R, u) = UpdateHost(R1, NewHost(R1))
    BY <1>3, <1>6
  <2> DEFINE Q == UpdateHost(R1, NewHost(R1))
  <2>3. /\ Q \in RoomState
        /\ Q.users = R1.users /\ Q.host = NewHost(R1)
        /\ \/ Q.match = R1.match /\ Q.stats = R1.stats
           \/ Q.match = FALSE /\ Q.stats = <<>>
    BY <1>2, <2>1, UpdateHostFacts
  <2> HIDE DEF Q
  <2>4. /\ Q.users = Erase(R.users, u) /\ Erase(R.users, u) # <<>>
        /\ \/ Q.match = R.match /\ Q.stats = Erase(R.stats, u)
           \/ Q.match = FALSE /\ Q.stats = <<>>
    BY <1>2, <1>6, <2>3
  <2>5. ToSet(Erase(R.stats, u)) \subseteq ToSet(Erase(R.users, u))
          => Q.host \in ToSet(Erase(R.users, u))
    BY <1>2, <2>1, <2>3
  <2>6. RemoveUser(R, u) = Q
    BY <2>2 DEF Q
  <2> QED BY <1>6, <2>3, <2>4, <2>5, <2>6
<1> QED BY <1>4, <1>5, <1>6

\* AddUser appends the user and changes nothing the invariants look at.
LEMMA AddUserFacts ==
  ASSUME NEW R \in RoomState, NEW u \in User
  PROVE  LET Q == AddUser(R, u) IN
         /\ Q \in RoomState
         /\ Q.users = Append(R.users, u) /\ Q.host = R.host
         /\ Q.match = R.match /\ Q.stats = R.stats
<1>1. Append(R.users, u) \in Seq(User)
  BY AppendMembers DEF RoomState
<1> QED BY <1>1 DEF AddUser, RoomState, ReadyStatus

\* A match starts with the users and the host unchanged.
LEMMA StartMatchFacts ==
  ASSUME NEW R \in RoomState, NEW s \in Server \cup {NoServer},
         R.host \in User
  PROVE  LET Q == StartMatch(R, s) IN
         /\ Q \in RoomState
         /\ Q.users = R.users /\ Q.host = R.host
         /\ Q.match = TRUE /\ Q.stats = R.stats
<1> DEFINE us == {R.host} \cup {u \in ToSet(R.users) : R.ready[u] # "no"}
<1>1. us \in SUBSET User
  BY MembersType DEF RoomState
<1>2. /\ SetIngame(R, us) \in RoomState
      /\ SetIngame(R, us).users = R.users /\ SetIngame(R, us).host = R.host
      /\ SetIngame(R, us).stats = R.stats
  BY <1>1, SetIngameFacts
<1>3. StartMatch(R, s) = [SetIngame(R, us) EXCEPT !.match = TRUE, !.playing = TRUE, !.server = s]
  BY DEF StartMatch
<1> HIDE DEF us
<1> QED BY <1>2, <1>3 DEF RoomState

\* The settings a host sends, or the server strips, leave users, host and match alone.
LEMMA WithKicked ==
  ASSUME NEW R \in RoomState, NEW u \in User
  PROVE  [R EXCEPT !.kicked = @ \cup {u}] \in RoomState
BY DEF RoomState

LEMMA WithServer ==
  ASSUME NEW R \in RoomState, NEW s \in Server \cup {NoServer}
  PROVE  [R EXCEPT !.server = s] \in RoomState
BY DEF RoomState

LEMMA NewSettingsFacts ==
  ASSUME NEW R \in RoomState, NEW Q \in NewSettings(R), NEW c \in Capacity
  PROVE  LET W == [Q EXCEPT !.capacity = c] IN
         /\ W \in RoomState
         /\ W.users = R.users /\ W.host = R.host
         /\ W.match = R.match /\ W.stats = R.stats
<1>1. /\ Q \in RoomState
      /\ Q.users = R.users /\ Q.host = R.host
      /\ Q.match = R.match /\ Q.stats = R.stats
  <2>1. \A l \in Playlist : l \in Seq(Map) /\ l[1] \in Map
    <3>1. ASSUME NEW l \in Playlist
          PROVE  l \in Seq(Map) /\ l[1] \in Map
      <4>1. l \in Seq(Map) /\ l # <<>>
        BY PlaylistAssumption
      <4>2. Len(l) \in Nat \ {0} /\ \A k \in 1..Len(l) : l[k] \in Map
        BY <4>1, EmptySeq, LenProperties
      <4> QED BY <4>1, <4>2
    <3> QED BY <3>1
  <2>2. <<>> \in Seq(Map)
    BY EmptySeq
  <2>3. CASE ValidateSettings
    <3>1. Q \in {R, [R EXCEPT !.index = 1]}
               \cup {[R EXCEPT !.map = m, !.list = <<>>] : m \in Map}
               \cup {[R EXCEPT !.map = l[1], !.list = l, !.index = 1] :
                        l \in {p \in Playlist : ValidPlaylist(p, p[1])}}
      BY <2>3 DEF NewSettings
    <3>2. CASE Q = R
      BY <3>2
    <3>3. CASE Q = [R EXCEPT !.index = 1]
      BY <3>3 DEF RoomState
    <3>4. CASE \E m \in Map : Q = [R EXCEPT !.map = m, !.list = <<>>]
      BY <2>2, <3>4 DEF RoomState
    <3>5. CASE \E l \in Playlist : Q = [R EXCEPT !.map = l[1], !.list = l, !.index = 1]
      <4>1. PICK l \in Playlist : Q = [R EXCEPT !.map = l[1], !.list = l, !.index = 1]
        BY <3>5
      <4>2. l \in Seq(Map) /\ l[1] \in Map
        BY <2>1
      <4> QED BY <4>1, <4>2 DEF RoomState
    <3> QED BY <3>1, <3>2, <3>3, <3>4, <3>5
  <2>4. CASE ~ValidateSettings
    <3>1. PICK f \in [playing: BOOLEAN, map: Map, list: Playlist \cup {<<>>}, index: 0..2] :
            Q = [R EXCEPT !.playing = f.playing, !.map = f.map, !.list = f.list,
                          !.index = f.index]
      BY <2>4 DEF NewSettings
    <3>2. /\ f.playing \in BOOLEAN /\ f.map \in Map /\ f.list \in Playlist \cup {<<>>}
          /\ f.index \in Nat
      OBVIOUS
    <3>3. f.list \in Seq(Map)
      BY <2>1, <2>2, <3>2
    <3> QED BY <3>1, <3>2, <3>3 DEF RoomState
  <2> QED BY <2>3, <2>4
<1> QED BY <1>1, CapacityAssumption DEF RoomState

LEMMA NewSettingsKeep ==
  ASSUME NEW R \in RoomState, NEW W,
         \E Q \in NewSettings(R), c \in Capacity : W = [Q EXCEPT !.capacity = c]
  PROVE  W \in RoomState /\ W.host = R.host /\ W.match = R.match
<1>1. PICK Q \in NewSettings(R), c \in Capacity : W = [Q EXCEPT !.capacity = c]
  OBVIOUS
<1> DEFINE U == [Q EXCEPT !.capacity = c]
<1>2. U \in RoomState /\ U.host = R.host /\ U.match = R.match
  BY NewSettingsFacts
<1> HIDE DEF U
<1>3. W = U
  BY <1>1 DEF U
<1> QED BY <1>2, <1>3

(***************************************************************************)
(* Type correctness                                                        *)
(***************************************************************************)

\* The server picked for a match.
LEMMA AvailableServerType ==
  ASSUME pool \in Seq(Server)
  PROVE  AvailableServer \in Server \cup {NoServer}
<1>1. CASE FreeServers = {}
  BY <1>1 DEF AvailableServer
<1>2. CASE FreeServers # {}
  <2> DEFINE Least(i) == \A j \in FreeServers : i <= j
             k == CHOOSE i \in FreeServers : Least(i)
  <2>1. FreeServers \in SUBSET Nat
    BY LenProperties DEF FreeServers
  <2>2. \E i \in FreeServers : Least(i)
    BY <1>2, <2>1, LeastElement
  <2>3. k \in FreeServers
    BY <2>2
  <2> HIDE DEF k
  <2>4. pool[k] \in Server
    BY <2>3, ElementOfSeq DEF FreeServers
  <2>5. AvailableServer = pool[k]
    BY <1>2 DEF AvailableServer, k
  <2> QED BY <2>4, <2>5
<1> QED BY <1>1, <1>2

\* SetRoom keeps the types of rooms and servers.
LEMMA SetRoomType ==
  ASSUME TypeOK, NEW r \in Room, NEW R \in RoomState, SetRoom(r, R)
  PROVE  rooms' \in [Room -> RoomState] /\ serving' \in [Server -> Room \cup {NoRoom}]
BY DEF TypeOK, SetRoom, Release

\* Leaving a room, if there is one, keeps the types.
LEMMA LeaveCurrentRoomType ==
  ASSUME TypeOK, NEW u \in User, LeaveCurrentRoom(u)
  PROVE  /\ current' \in [User -> Room \cup {NoRoom}]
         /\ rooms' \in [Room -> RoomState]
         /\ serving' \in [Server -> Room \cup {NoRoom}]
<1>1. CASE current[u] = NoRoom
  BY <1>1 DEF LeaveCurrentRoom, TypeOK
<1>2. CASE current[u] # NoRoom
  <2>1. current[u] \in Room /\ rooms[current[u]] \in RoomState
    BY <1>2 DEF TypeOK
  <2>2. RemoveUser(rooms[current[u]], u) \in RoomState
    BY <2>1, RemoveUserFacts
  <2>3. SetRoom(current[u], RemoveUser(rooms[current[u]], u))
    BY <1>2 DEF LeaveCurrentRoom
  <2>4. rooms' \in [Room -> RoomState] /\ serving' \in [Server -> Room \cup {NoRoom}]
    BY <2>1, <2>2, <2>3, SetRoomType
  <2>5. current' \in [User -> Room \cup {NoRoom}]
    BY <1>2 DEF LeaveCurrentRoom, TypeOK
  <2> QED BY <2>4, <2>5
<1> QED BY <1>1, <1>2

\* Every step keeps the types.
LEMMA TypeStep == TypeOK /\ [Next]_vars => TypeOK'
<1> SUFFICES ASSUME TypeOK, [Next]_vars
             PROVE  TypeOK'
  OBVIOUS
<1>1. \A r \in Room : rooms[r] \in RoomState
  BY DEF TypeOK
<1>2. \A u \in User : current[u] # NoRoom => current[u] \in Room
  BY DEF TypeOK
<1>3. ASSUME NEW u \in User, OnGameStartRequest(u)
      PROVE  TypeOK'
  <2> DEFINE r == current[u]
  <2>1. r \in Room /\ rooms[r] \in RoomState
    BY <1>1, <1>2, <1>3 DEF OnGameStartRequest
  <2>2. CASE rooms[r].host = u /\ HostStartGame(r)
    <3> DEFINE s == IF rooms[r].server = NoServer /\ ConnectingMethod # 0
                      THEN AvailableServer ELSE rooms[r].server
    <3>1. s \in Server \cup {NoServer}
      BY <2>1, AvailableServerType DEF TypeOK, RoomState
    <3>2. StartMatch(rooms[r], s) \in RoomState
      BY <2>1, <2>2, <3>1, StartMatchFacts
    <3>3. /\ rooms' = [rooms EXCEPT ![r] = StartMatch(rooms[r], s)]
          /\ serving' = [t \in Server |-> IF t = s THEN r ELSE serving[t]]
      BY <2>2 DEF HostStartGame
    <3> HIDE DEF s
    <3> QED BY <1>3, <2>1, <3>2, <3>3 DEF OnGameStartRequest, TypeOK
  <2>3. CASE UserGameJoin(u, r)
    <3>1. SetIngame(rooms[r], {u}) \in RoomState
      BY <2>1, SetIngameFacts
    <3> QED BY <1>3, <2>1, <2>3, <3>1 DEF OnGameStartRequest, UserGameJoin, TypeOK
  <2> QED BY <1>3, <2>2, <2>3 DEF OnGameStartRequest
<1>4. ASSUME NEW u \in User, NEW r \in Room, ToggleUserReadyStatus(u, r)
      PROVE  rooms' \in [Room -> RoomState]
  <2>1. [rooms[r] EXCEPT !.ready[u] = IF rooms[r].ready[u] = "no" THEN "yes" ELSE "no"]
          \in RoomState
    BY <1>1 DEF RoomState, ReadyStatus
  <2> QED BY <1>1, <1>4, <2>1 DEF ToggleUserReadyStatus, TypeOK
<1>5. ASSUME NEW u \in User, OnRoomUpdateSettings(u)
      PROVE  TypeOK'
  <2>1. current[u] \in Room
    BY <1>2, <1>5 DEF OnRoomUpdateSettings
  <2>2. PICK c \in Capacity, R \in NewSettings(rooms[current[u]]) :
          rooms' = [rooms EXCEPT ![current[u]] = [R EXCEPT !.capacity = c]]
    BY <1>5 DEF OnRoomUpdateSettings
  <2>3. [R EXCEPT !.capacity = c] \in RoomState
    BY <1>1, <2>1, NewSettingsFacts
  <2> QED BY <1>5, <2>2, <2>3 DEF OnRoomUpdateSettings, TypeOK
<1>6. ASSUME NEW u \in User, NEW r \in Room, OnNewRoomRequest(u, r)
      PROVE  TypeOK'
  <2>1. PICK c \in Capacity, m \in Map, l \in Playlist \cup {<<>>} :
          rooms' = [rooms EXCEPT ![r] =
            [NullRoom EXCEPT !.users = <<u>>, !.host = u, !.capacity = c,
                             !.map = m, !.list = l, !.index = IF l = <<>> THEN 0 ELSE 1]]
    BY <1>6 DEF OnNewRoomRequest
  <2>2. c \in Nat /\ l \in Seq(Map) /\ <<u>> \in Seq(User)
    <3>1. <<>> \in Seq(Map)
      BY EmptySeq
    <3>2. \A p \in Playlist : p \in Seq(Map)
      BY PlaylistAssumption
    <3>3. <<u>> \in Seq(User)
      OBVIOUS
    <3>4. c \in Nat
      BY CapacityAssumption
    <3> QED BY <3>1, <3>2, <3>3, <3>4
  <2>3. [NullRoom EXCEPT !.users = <<u>>, !.host = u, !.capacity = c,
                         !.map = m, !.list = l, !.index = IF l = <<>> THEN 0 ELSE 1]
          \in RoomState
    BY <2>2, NullRoomType DEF RoomState
  <2> QED BY <1>6, <2>1, <2>3 DEF OnNewRoomRequest, TypeOK
<1>7. ASSUME NEW u \in User, NEW r \in Room, OnJoinRoomRequest(u, r)
      PROVE  TypeOK'
  <2>1. AddUser(rooms[r], u) \in RoomState
    BY <1>1, AddUserFacts
  <2> QED BY <1>7, <2>1 DEF OnJoinRoomRequest, TypeOK
<1>8. ASSUME NEW u \in User, NEW r \in Room, OnSetUserInventory(r, u)
      PROVE  TypeOK'
  <2>1. rooms[r].stats \in Seq(User)
    BY <1>1 DEF RoomState
  <2>2. Append(rooms[r].stats, u) \in Seq(User)
    BY <2>1, AppendMembers
  <2>3. ASSUME NEW s \in Seq(User)
        PROVE  [rooms[r] EXCEPT !.stats = s] \in RoomState
    BY <1>1 DEF RoomState
  <2>4. rooms' = [rooms EXCEPT ![r] = [rooms[r] EXCEPT !.stats =
                    IF u \in ToSet(rooms[r].stats) THEN rooms[r].stats
                    ELSE Append(rooms[r].stats, u)]]
    BY <1>8 DEF OnSetUserInventory, Connect, TypeOK
  <2>5. rooms' \in [Room -> RoomState]
    BY <2>1, <2>2, <2>3, <2>4 DEF TypeOK
  <2> QED BY <1>8, <2>5 DEF OnSetUserInventory, Connect, TypeOK
<1>9. ASSUME NEW h \in User, NEW u \in User, OnRoomKickRequest(h, u)
      PROVE  TypeOK'
  <2> DEFINE r == current[h]
             R == [rooms[r] EXCEPT !.kicked = @ \cup {u}]
  <2>1. r \in Room
    BY <1>2, <1>9 DEF OnRoomKickRequest
  <2>2. R \in RoomState
    BY <1>1, <2>1, WithKicked
  <2>3. RemoveUser(R, u) \in RoomState
    BY <2>2, RemoveUserFacts
  <2>4. SetRoom(r, RemoveUser(R, u))
    BY <1>9 DEF OnRoomKickRequest
  <2>5. rooms' \in [Room -> RoomState] /\ serving' \in [Server -> Room \cup {NoRoom}]
    BY <2>1, <2>3, <2>4, SetRoomType
  <2> QED BY <1>9, <2>5 DEF OnRoomKickRequest, TypeOK
<1>10. ASSUME NEW r \in Room, OnGameEnd(r)
       PROVE  TypeOK'
  <2>1. EndGame(rooms[r], FALSE) \in RoomState
    BY <1>1, EndGameFacts
  <2>2. rooms' \in [Room -> RoomState] /\ serving' \in [Server -> Room \cup {NoRoom}]
    BY <1>10, <2>1, SetRoomType DEF OnGameEnd
  <2> QED BY <1>10, <2>2 DEF OnGameEnd, TypeOK
<1>11. ASSUME NEW r \in Room, OnChangeMap(r)
       PROVE  TypeOK'
  <2>1. \A m \in Map : [rooms[r] EXCEPT !.map = m] \in RoomState
    BY <1>1 DEF RoomState
  <2> QED BY <1>11, <2>1 DEF OnChangeMap, TypeOK
<1>12. ASSUME EndAllGames
       PROVE  TypeOK'
  <2> DEFINE End(r) == IF rooms[r].match THEN EndGame(rooms[r], TRUE) ELSE rooms[r]
  <2>1. \A r \in Room : End(r) \in RoomState
    BY <1>1, EndGameFacts
  <2>2. rooms' = [r \in Room |-> End(r)]
    BY <1>12 DEF EndAllGames
  <2> HIDE DEF End
  <2>3. rooms' \in [Room -> RoomState]
    BY <2>1, <2>2
  <2>4. serving' \in [Server -> Room \cup {NoRoom}]
    BY <1>12 DEF EndAllGames, TypeOK
  <2> QED BY <1>12, <2>3, <2>4 DEF EndAllGames, TypeOK
<1>13. ASSUME NEW s \in Server, AddServer(s)
       PROVE  TypeOK'
  BY <1>13, AppendMembers DEF AddServer, TypeOK
<1>14. ASSUME NEW s \in Server, RemoveServer(s)
       PROVE  TypeOK'
  <2> DEFINE r == serving[s]
             R == [rooms[r] EXCEPT !.server = NoServer]
  <2>1. Erase(pool, s) \in Seq(Server)
    BY EraseType DEF TypeOK
  <2>2. CASE r = NoRoom
    BY <1>14, <2>1, <2>2 DEF RemoveServer, TypeOK
  <2>3. CASE r # NoRoom
    <3>1. r \in Room
      BY <2>3 DEF TypeOK
    <3>2. R \in RoomState
      BY <1>1, <3>1, WithServer
    <3>3. (IF R.match THEN EndGame(R, TRUE) ELSE R) \in RoomState
      BY <3>2, EndGameFacts
    <3>4. rooms' = [rooms EXCEPT ![r] = IF R.match THEN EndGame(R, TRUE) ELSE R]
      BY <1>14, <2>3 DEF RemoveServer
    <3> HIDE DEF R
    <3>5. rooms' \in [Room -> RoomState]
      BY <3>3, <3>4 DEF TypeOK
    <3> QED BY <1>14, <2>1, <3>5 DEF RemoveServer, TypeOK
  <2> QED BY <2>2, <2>3
<1>15. ASSUME NEW u \in User, OnToggleReadyRequest(u)
       PROVE  TypeOK'
  <2>1. current[u] \in Room
    BY <1>2, <1>15 DEF OnToggleReadyRequest
  <2>2. CASE OnGameStartRequest(u)
    BY <1>3, <2>2
  <2>3. CASE /\ ToggleUserReadyStatus(u, current[u])
             /\ UNCHANGED <<loggedIn, inChannel, lobby, current, pool, serving>>
    BY <1>4, <2>1, <2>3 DEF TypeOK
  <2> QED BY <1>15, <2>2, <2>3 DEF OnToggleReadyRequest
<1>16. ASSUME NEW u \in User, OnConnectionFailure(u)
       PROVE  TypeOK'
  <2>1. current[u] \in Room
    BY <1>2, <1>16 DEF OnConnectionFailure
  <2> QED BY <1>4, <1>16, <2>1 DEF OnConnectionFailure, TypeOK
<1>17. ASSUME NEW u \in User, LeaveCurrentRoom(u), LeaveChannel(u), loggedIn' \subseteq loggedIn,
              UNCHANGED pool
       PROVE  TypeOK'
  BY <1>17, LeaveCurrentRoomType DEF LeaveChannel, TypeOK
<1>18. ASSUME NEW u \in User, OnLeaveRoomRequest(u)
       PROVE  TypeOK'
  BY <1>18, LeaveCurrentRoomType DEF OnLeaveRoomRequest, TypeOK
<1>19. ASSUME NEW u \in User, Login(u) \/ JoinChannel(u)
       PROVE  TypeOK'
  BY <1>19 DEF Login, JoinChannel, TypeOK
<1>20. ASSUME NEW u \in User, Logout(u) \/ OnChannelListPacket(u)
       PROVE  TypeOK'
  BY <1>17, <1>20 DEF Logout, OnChannelListPacket
<1>21. CASE UNCHANGED vars
  BY <1>21 DEF vars, TypeOK
<1> QED
  BY <1>3, <1>5, <1>6, <1>7, <1>8, <1>9, <1>10, <1>11, <1>12, <1>13, <1>14, <1>15, <1>16,
     <1>18, <1>19, <1>20, <1>21 DEF Next

\* Every variable keeps its type, whatever packets arrive in whatever order.
THEOREM TypeCorrect == Spec => []TypeOK
<1>1. Init => TypeOK
  BY NullRoomType, EmptySeq DEF Init, TypeOK
<1>2. TypeOK /\ [Next]_vars => TypeOK'
  BY TypeStep
<1> QED BY <1>1, <1>2, PTL DEF Spec

-----------------------------------------------------------------------------
(***************************************************************************)
(* The pointers of Lobby: rooms list their users and users point at their  *)
(* rooms, hosts and match statistics are of members.                       *)
(*                                                                         *)
(* None of the three properties is inductive alone: that the next host is  *)
(* a member rests on the statistics being of members (FindAndUpdateNewHost *)
(* takes the first of them), that a user is erased from one room only on   *)
(* the pointers, and that Erase takes all of him on the absence of         *)
(* duplicates.  Inv puts them together, room by room.                      *)
(***************************************************************************)

\* What holds of each room object by itself.
RoomOK(R) ==
  /\ IsInjective(R.users) /\ IsInjective(R.stats)
  /\ ToSet(R.stats) \subseteq ToSet(R.users)
  /\ ~R.match => R.stats = <<>>
  /\ IF R.users = <<>> THEN R = NullRoom ELSE R.host \in ToSet(R.users)

Pointers == \A u \in User, r \in Room : u \in Members(r) <=> current[u] = r

Nesting ==
  /\ \A u \in User : current[u] # NoRoom => u \in inChannel
  /\ lobby \subseteq inChannel /\ inChannel \subseteq loggedIn

Inv ==
  /\ TypeOK
  /\ \A r \in Room : RoomOK(rooms[r])
  /\ Pointers
  /\ Nesting

(***************************************************************************)
(* Rooms                                                                   *)
(***************************************************************************)

\* A room nobody is in.
LEMMA NullRoomOK == RoomOK(NullRoom) /\ ToSet(NullRoom.users) = {}
BY DEF RoomOK, NullRoom, IsInjective, ToSet

\* A method that leaves users and host alone, and keeps the statistics or ends the
\* match, keeps a room with users in order.
LEMMA SameUsersOK ==
  ASSUME NEW R \in RoomState, NEW Q \in RoomState, RoomOK(R), R.users # <<>>,
         Q.users = R.users, Q.host = R.host,
         \/ Q.match = R.match /\ Q.stats = R.stats
         \/ Q.match = TRUE /\ Q.stats = R.stats
         \/ Q.stats = <<>>
  PROVE  RoomOK(Q)
BY DEF RoomOK, IsInjective, ToSet

\* When a member leaves, the room is in order and lists everybody else.
LEMMA RemoveUserOK ==
  ASSUME NEW R \in RoomState, NEW u \in User, RoomOK(R), u \in ToSet(R.users)
  PROVE  /\ RemoveUser(R, u) \in RoomState
         /\ RoomOK(RemoveUser(R, u))
         /\ ToSet(RemoveUser(R, u).users) = ToSet(R.users) \ {u}
<1> DEFINE Q == RemoveUser(R, u)
           left == Erase(R.users, u)
           stats == Erase(R.stats, u)
<1>1. R.users \in Seq(User) /\ R.stats \in Seq(User)
  BY DEF RoomState
<1>2. left \in Seq(User) /\ ToSet(left) = ToSet(R.users) \ {u} /\ IsInjective(left)
  BY <1>1, EraseType, EraseMembers DEF RoomOK
<1>3. stats \in Seq(User) /\ ToSet(stats) = ToSet(R.stats) \ {u} /\ IsInjective(stats)
  BY <1>1, EraseType, EraseMembers DEF RoomOK
<1>4. ToSet(stats) \subseteq ToSet(left)
  BY <1>2, <1>3 DEF RoomOK
<1>5. R.stats = <<>> => stats = <<>>
  BY <1>1, <1>3, EmptyMembers
<1>6. /\ Q \in RoomState
      /\ left = <<>> => Q = NullRoom
      /\ left # <<>> =>
           /\ Q.users = left
           /\ \/ Q.match = R.match /\ Q.stats = stats
              \/ Q.match = FALSE /\ Q.stats = <<>>
           /\ R.host # u => Q.host = R.host
           /\ R.host = u => Q.host \in ToSet(left)
  BY <1>4, RemoveUserFacts
<1> HIDE DEF Q, left, stats
<1>7. CASE left = <<>>
  BY <1>2, <1>6, <1>7, NullRoomOK, EmptyMembers DEF Q
<1>8. CASE left # <<>>
  <2>1. Q.host \in ToSet(left)
    <3>1. R.users # <<>>
      BY <1>1, EmptyMembers
    <3>2. R.host \in ToSet(R.users)
      BY <3>1 DEF RoomOK
    <3> QED BY <1>2, <1>6, <1>8, <3>2
  <2>2. /\ IsInjective(Q.stats) /\ ToSet(Q.stats) \subseteq ToSet(left)
        /\ ~Q.match => Q.stats = <<>>
    <3>1. IsInjective(<<>>) /\ ToSet(<<>>) = {}
      BY DEF IsInjective, ToSet
    <3>2. ~R.match => stats = <<>>
      BY <1>5 DEF RoomOK
    <3> QED BY <1>3, <1>4, <1>6, <1>8, <3>1, <3>2
  <2>3. RoomOK(Q)
    BY <1>2, <1>6, <1>8, <2>1, <2>2 DEF RoomOK
  <2> QED BY <1>2, <1>6, <1>8, <2>3 DEF Q
<1> QED BY <1>7, <1>8

\* When a user enters a room with users, the room is in order and lists him too.
LEMMA AddUserOK ==
  ASSUME NEW R \in RoomState, NEW u \in User, RoomOK(R), R.users # <<>>,
         u \notin ToSet(R.users)
  PROVE  /\ RoomOK(AddUser(R, u))
         /\ ToSet(AddUser(R, u).users) = ToSet(R.users) \cup {u}
<1> DEFINE Q == AddUser(R, u)
<1>1. R.users \in Seq(User)
  BY DEF RoomState
<1>2. /\ Q.users = Append(R.users, u) /\ Q.host = R.host
      /\ Q.match = R.match /\ Q.stats = R.stats
  BY AddUserFacts
<1>3. /\ Append(R.users, u) # <<>>
      /\ ToSet(Append(R.users, u)) = ToSet(R.users) \cup {u}
      /\ IsInjective(Append(R.users, u))
  BY <1>1, AppendMembers, AppendProperties DEF RoomOK
<1> HIDE DEF Q
<1>4. RoomOK(Q)
  BY <1>2, <1>3 DEF RoomOK
<1> QED BY <1>2, <1>3, <1>4 DEF Q

(***************************************************************************)
(* Steps                                                                   *)
(***************************************************************************)

\* A step that only rewrites rooms, each keeping its users and staying in order.
LEMMA SameMembersStep ==
  ASSUME Inv, TypeOK', UNCHANGED <<loggedIn, inChannel, lobby, current>>,
         \A r \in Room : RoomOK(rooms'[r]) /\ rooms'[r].users = rooms[r].users
  PROVE  Inv'
<1>1. Pointers'
  BY DEF Inv, Pointers, Members
<1>2. Nesting'
  BY DEF Inv, Nesting
<1> QED BY <1>1, <1>2 DEF Inv

\* The same for a step that rewrites one room.
LEMMA OneRoomStep ==
  ASSUME Inv, TypeOK', UNCHANGED <<loggedIn, inChannel, lobby, current>>,
         NEW r \in Room, NEW Q, rooms' = [rooms EXCEPT ![r] = Q],
         RoomOK(Q), Q.users = rooms[r].users
  PROVE  Inv'
<1>1. \A x \in Room : RoomOK(rooms'[x]) /\ rooms'[x].users = rooms[x].users
  BY DEF Inv, TypeOK
<1> QED BY <1>1, SameMembersStep

\* After LeaveCurrentRoom(u) nobody lists u, and everybody else is where he was.
LEMMA LeaveCurrentRoomStep ==
  ASSUME Inv, NEW u \in User, LeaveCurrentRoom(u)
  PROVE  /\ \A r \in Room : RoomOK(rooms'[r])
         /\ Pointers'
         /\ current'[u] = NoRoom
         /\ \A v \in User \ {u} : current'[v] = current[v]
<1>1. CASE current[u] = NoRoom
  BY <1>1 DEF LeaveCurrentRoom, Inv, Pointers, Members
<1>2. CASE current[u] # NoRoom
  <2> DEFINE r == current[u]
             Q == RemoveUser(rooms[r], u)
  <2>1. /\ r \in Room /\ rooms[r] \in RoomState /\ RoomOK(rooms[r])
        /\ u \in ToSet(rooms[r].users)
    BY <1>2 DEF Inv, TypeOK, Pointers, Members
  <2>2. RoomOK(Q) /\ ToSet(Q.users) = ToSet(rooms[r].users) \ {u}
    BY <2>1, RemoveUserOK
  <2>3. /\ rooms' = [rooms EXCEPT ![r] = Q]
        /\ current' = [current EXCEPT ![u] = NoRoom]
    BY <1>2 DEF LeaveCurrentRoom, SetRoom
  <2> HIDE DEF Q
  <2>4. \A x \in Room : RoomOK(rooms'[x])
    BY <2>2, <2>3 DEF Inv, TypeOK
  <2>5. /\ current'[u] = NoRoom
        /\ \A v \in User \ {u} : current'[v] = current[v]
    BY <2>3 DEF Inv, TypeOK
  <2>6. ASSUME NEW v \in User, NEW x \in Room
        PROVE  v \in ToSet(rooms'[x].users) <=> current'[v] = x
    <3>1. v \in ToSet(rooms[x].users) <=> current[v] = x
      BY DEF Inv, Pointers, Members
    <3>2. rooms'[x] = IF x = r THEN Q ELSE rooms[x]
      BY <2>1, <2>3 DEF Inv, TypeOK
    <3>3. NoRoom # x
      BY NullAssumption
    <3> QED BY <2>2, <2>5, <3>1, <3>2, <3>3
  <2>7. Pointers'
    BY <2>6 DEF Pointers, Members
  <2> QED BY <2>4, <2>5, <2>7
<1> QED BY <1>1, <1>2

\* A user enters room r, which becomes Q.
LEMMA EnterStep ==
  ASSUME Inv, TypeOK', UNCHANGED <<loggedIn, inChannel, lobby>>,
         NEW u \in inChannel, NEW r \in Room, NEW Q, current[u] = NoRoom,
         rooms' = [rooms EXCEPT ![r] = Q], current' = [current EXCEPT ![u] = r],
         RoomOK(Q), ToSet(Q.users) = ToSet(rooms[r].users) \cup {u}
  PROVE  Inv'
<1>1. u \in User
  BY DEF Inv, TypeOK
<1>2. \A x \in Room : RoomOK(rooms'[x])
  BY DEF Inv, TypeOK
<1>3. ASSUME NEW v \in User, NEW x \in Room
      PROVE  v \in ToSet(rooms'[x].users) <=> current'[v] = x
  <2>1. v \in ToSet(rooms[x].users) <=> current[v] = x
    BY DEF Inv, Pointers, Members
  <2>2. /\ rooms'[x] = IF x = r THEN Q ELSE rooms[x]
        /\ current'[v] = IF v = u THEN r ELSE current[v]
    BY DEF Inv, TypeOK
  <2>3. NoRoom # x
    BY NullAssumption
  <2> QED BY <2>1, <2>2, <2>3
<1>4. Pointers'
  BY <1>3 DEF Pointers, Members
<1>5. Nesting'
  BY <1>1 DEF Inv, TypeOK, Nesting
<1> QED BY <1>2, <1>4, <1>5 DEF Inv

\* A member of a room: what the handlers find behind user->GetCurrentRoom().
LEMMA CurrentRoom ==
  ASSUME Inv, NEW u \in User, current[u] # NoRoom
  PROVE  LET r == current[u] IN
         /\ r \in Room /\ rooms[r] \in RoomState /\ RoomOK(rooms[r])
         /\ u \in ToSet(rooms[r].users) /\ rooms[r].users # <<>>
<1>1. /\ current[u] \in Room /\ rooms[current[u]] \in RoomState
      /\ u \in ToSet(rooms[current[u]].users)
  BY DEF Inv, TypeOK, Pointers, Members
<1>2. rooms[current[u]].users # <<>>
  BY <1>1 DEF ToSet
<1> QED BY <1>1, <1>2 DEF Inv

\* A room in a match has users.
LEMMA MatchRoom ==
  ASSUME Inv, NEW r \in Room, rooms[r].match
  PROVE  rooms[r] \in RoomState /\ RoomOK(rooms[r]) /\ rooms[r].users # <<>>
<1>1. rooms[r] \in RoomState /\ RoomOK(rooms[r])
  BY DEF Inv, TypeOK
<1>2. NullRoom.match = FALSE
  BY DEF NullRoom
<1> QED BY <1>1, <1>2 DEF RoomOK

\* Inv is inductive.
LEMMA InvStep == Inv /\ [Next]_vars => Inv'
<1> SUFFICES ASSUME Inv, [Next]_vars
             PROVE  Inv'
  OBVIOUS
<1>1. TypeOK'
  BY TypeStep DEF Inv
<1>2. ASSUME NEW u \in User, Login(u) \/ JoinChannel(u)
      PROVE  Inv'
  BY <1>1, <1>2 DEF Login, JoinChannel, Inv, Pointers, Members, Nesting
<1>3. ASSUME NEW u \in User, LeaveCurrentRoom(u), LeaveChannel(u),
             loggedIn' = loggedIn \ {u} \/ loggedIn' = loggedIn
      PROVE  Inv'
  <2>1. /\ \A r \in Room : RoomOK(rooms'[r])
        /\ Pointers'
        /\ current'[u] = NoRoom
        /\ \A v \in User \ {u} : current'[v] = current[v]
    BY <1>3, LeaveCurrentRoomStep
  <2>2. Nesting'
    BY <1>3, <2>1 DEF LeaveChannel, Inv, Nesting
  <2> QED BY <1>1, <2>1, <2>2 DEF Inv
<1>4. ASSUME NEW u \in User, OnLeaveRoomRequest(u)
      PROVE  Inv'
  <2>1. /\ \A r \in Room : RoomOK(rooms'[r])
        /\ Pointers'
        /\ current'[u] = NoRoom
        /\ \A v \in User \ {u} : current'[v] = current[v]
    BY <1>4, LeaveCurrentRoomStep DEF OnLeaveRoomRequest
  <2>2. Nesting'
    BY <1>4, <2>1 DEF OnLeaveRoomRequest, Inv, Nesting
  <2> QED BY <1>1, <2>1, <2>2 DEF Inv
<1>5. ASSUME NEW u \in User, NEW r \in Room, OnNewRoomRequest(u, r)
      PROVE  Inv'
  <2>1. PICK c \in Capacity, m \in Map, l \in Playlist \cup {<<>>} :
          rooms' = [rooms EXCEPT ![r] =
            [NullRoom EXCEPT !.users = <<u>>, !.host = u, !.capacity = c,
                             !.map = m, !.list = l, !.index = IF l = <<>> THEN 0 ELSE 1]]
    BY <1>5 DEF OnNewRoomRequest
  <2> DEFINE Q == [NullRoom EXCEPT !.users = <<u>>, !.host = u, !.capacity = c,
                                   !.map = m, !.list = l, !.index = IF l = <<>> THEN 0 ELSE 1]
  <2>2. Q.users = <<u>> /\ Q.host = u /\ Q.match = FALSE /\ Q.stats = <<>>
    BY DEF NullRoom
  <2>3. rooms' = [rooms EXCEPT ![r] = Q]
    BY <2>1
  <2> HIDE DEF Q
  <2>4. ToSet(<<u>>) = {u} /\ IsInjective(<<u>>) /\ ToSet(<<>>) = {} /\ IsInjective(<<>>)
    BY DEF ToSet, IsInjective
  <2>5. RoomOK(Q) /\ ToSet(Q.users) = ToSet(rooms[r].users) \cup {u}
    BY <1>5, <2>2, <2>4 DEF OnNewRoomRequest, IsOpen, RoomOK
  <2> QED BY <1>1, <1>5, <2>3, <2>5, EnterStep DEF OnNewRoomRequest
<1>6. ASSUME NEW u \in User, NEW r \in Room, OnJoinRoomRequest(u, r)
      PROVE  Inv'
  <2> DEFINE Q == AddUser(rooms[r], u)
  <2>1. /\ rooms[r] \in RoomState /\ RoomOK(rooms[r]) /\ rooms[r].users # <<>>
        /\ u \notin ToSet(rooms[r].users)
    BY <1>6, NullAssumption DEF OnJoinRoomRequest, IsOpen, Inv, TypeOK, Pointers, Members
  <2>2. RoomOK(Q) /\ ToSet(Q.users) = ToSet(rooms[r].users) \cup {u}
    BY <2>1, AddUserOK
  <2>3. rooms' = [rooms EXCEPT ![r] = Q]
    BY <1>6 DEF OnJoinRoomRequest
  <2> HIDE DEF Q
  <2> QED BY <1>1, <1>6, <2>2, <2>3, EnterStep DEF OnJoinRoomRequest
<1>7. ASSUME NEW h \in User, NEW u \in User, OnRoomKickRequest(h, u)
      PROVE  Inv'
  <2> DEFINE r == current[u]
             R == [rooms[r] EXCEPT !.kicked = @ \cup {u}]
             Q == RemoveUser(R, u)
  <2>1. current[h] = r /\ r # NoRoom
    BY <1>7 DEF OnRoomKickRequest
  <2>2. /\ r \in Room /\ rooms[r] \in RoomState /\ RoomOK(rooms[r])
        /\ u \in ToSet(rooms[r].users) /\ rooms[r].users # <<>>
    BY <2>1, CurrentRoom
  <2>3. /\ R \in RoomState /\ R.users = rooms[r].users /\ R.host = rooms[r].host
        /\ R.match = rooms[r].match /\ R.stats = rooms[r].stats
    BY <2>2 DEF RoomState
  <2> HIDE DEF R
  <2>4. RoomOK(R)
    BY <2>2, <2>3, SameUsersOK
  <2>5. RoomOK(Q) /\ ToSet(Q.users) = ToSet(rooms[r].users) \ {u}
    BY <2>2, <2>3, <2>4, RemoveUserOK
  <2>6. /\ rooms' = [rooms EXCEPT ![r] = Q] /\ current' = [current EXCEPT ![u] = NoRoom]
        /\ UNCHANGED <<loggedIn, inChannel, lobby>>
    BY <1>7, <2>1 DEF OnRoomKickRequest, SetRoom, R
  <2> HIDE DEF Q
  <2>7. \A x \in Room : RoomOK(rooms'[x])
    BY <2>5, <2>6 DEF Inv, TypeOK
  <2>8. ASSUME NEW v \in User, NEW x \in Room
        PROVE  v \in ToSet(rooms'[x].users) <=> current'[v] = x
    <3>1. v \in ToSet(rooms[x].users) <=> current[v] = x
      BY DEF Inv, Pointers, Members
    <3>2. /\ rooms'[x] = IF x = r THEN Q ELSE rooms[x]
          /\ current'[v] = IF v = u THEN NoRoom ELSE current[v]
      BY <2>2, <2>6 DEF Inv, TypeOK
    <3>3. NoRoom # x
      BY NullAssumption
    <3> QED BY <2>5, <3>1, <3>2, <3>3
  <2>9. Pointers'
    BY <2>8 DEF Pointers, Members
  <2>10. Nesting'
    BY <2>6 DEF Inv, TypeOK, Nesting
  <2> QED BY <1>1, <2>7, <2>9, <2>10 DEF Inv
<1>8. ASSUME NEW u \in User, OnRoomUpdateSettings(u)
      PROVE  Inv'
  <2> DEFINE r == current[u]
  <2>1. /\ r \in Room /\ rooms[r] \in RoomState /\ RoomOK(rooms[r])
        /\ rooms[r].users # <<>>
    BY <1>8, CurrentRoom DEF OnRoomUpdateSettings
  <2>2. PICK c \in Capacity, R \in NewSettings(rooms[r]) :
          rooms' = [rooms EXCEPT ![r] = [R EXCEPT !.capacity = c]]
    BY <1>8 DEF OnRoomUpdateSettings
  <2> DEFINE Q == [R EXCEPT !.capacity = c]
  <2>3. /\ Q \in RoomState /\ Q.users = rooms[r].users /\ Q.host = rooms[r].host
        /\ Q.match = rooms[r].match /\ Q.stats = rooms[r].stats
    BY <2>1, NewSettingsFacts
  <2>4. rooms' = [rooms EXCEPT ![r] = Q]
    BY <2>2
  <2> HIDE DEF Q
  <2>5. RoomOK(Q)
    BY <2>1, <2>3, SameUsersOK
  <2> QED BY <1>1, <1>8, <2>1, <2>3, <2>4, <2>5, OneRoomStep DEF OnRoomUpdateSettings
<1>9. ASSUME NEW u \in User, OnGameStartRequest(u)
      PROVE  Inv'
  <2> DEFINE r == current[u]
  <2>1. /\ r \in Room /\ rooms[r] \in RoomState /\ RoomOK(rooms[r])
        /\ rooms[r].users # <<>>
    BY <1>9, CurrentRoom DEF OnGameStartRequest
  <2>2. CASE rooms[r].host = u /\ HostStartGame(r)
    <3> DEFINE s == IF rooms[r].server = NoServer /\ ConnectingMethod # 0
                      THEN AvailableServer ELSE rooms[r].server
               Q == StartMatch(rooms[r], s)
    <3>1. s \in Server \cup {NoServer}
      BY <2>1, AvailableServerType DEF Inv, TypeOK, RoomState
    <3>2. /\ Q \in RoomState /\ Q.users = rooms[r].users /\ Q.host = rooms[r].host
          /\ Q.match = TRUE /\ Q.stats = rooms[r].stats
      <4>1. rooms[r].host \in User
        BY <2>2
      <4> HIDE DEF s
      <4> QED BY <2>1, <3>1, <4>1, StartMatchFacts
    <3>3. rooms' = [rooms EXCEPT ![r] = Q]
      BY <2>2 DEF HostStartGame
    <3> HIDE DEF Q
    <3>4. RoomOK(Q)
      BY <2>1, <3>2, SameUsersOK
    <3> QED BY <1>1, <1>9, <2>1, <3>2, <3>3, <3>4, OneRoomStep DEF OnGameStartRequest
  <2>3. CASE UserGameJoin(u, r)
    <3> DEFINE Q == SetIngame(rooms[r], {u})
    <3>1. /\ Q \in RoomState /\ Q.users = rooms[r].users /\ Q.host = rooms[r].host
          /\ Q.match = rooms[r].match /\ Q.stats = rooms[r].stats
      BY <2>1, SetIngameFacts
    <3>2. rooms' = [rooms EXCEPT ![r] = Q]
      BY <2>3 DEF UserGameJoin
    <3> HIDE DEF Q
    <3>3. RoomOK(Q)
      BY <2>1, <3>1, SameUsersOK
    <3> QED BY <1>1, <1>9, <2>1, <3>1, <3>2, <3>3, OneRoomStep DEF OnGameStartRequest
  <2> QED BY <1>9, <2>2, <2>3 DEF OnGameStartRequest
<1>10. ASSUME NEW u \in User, current[u] # NoRoom, ToggleUserReadyStatus(u, current[u]),
              UNCHANGED <<loggedIn, inChannel, lobby, current>>
       PROVE  Inv'
  <2> DEFINE r == current[u]
             Q == [rooms[r] EXCEPT !.ready[u] = IF @ = "no" THEN "yes" ELSE "no"]
  <2>1. /\ r \in Room /\ rooms[r] \in RoomState /\ RoomOK(rooms[r])
        /\ rooms[r].users # <<>>
    BY <1>10, CurrentRoom
  <2>2. CASE UNCHANGED rooms
    BY <1>1, <1>10, <2>2, SameMembersStep DEF Inv
  <2>3. CASE rooms' = [rooms EXCEPT ![r].ready[u] = IF @ = "no" THEN "yes" ELSE "no"]
    <3>1. /\ Q \in RoomState /\ Q.users = rooms[r].users /\ Q.host = rooms[r].host
          /\ Q.match = rooms[r].match /\ Q.stats = rooms[r].stats
      BY <2>1 DEF RoomState, ReadyStatus
    <3>2. rooms' = [rooms EXCEPT ![r] = Q]
      BY <2>1, <2>3 DEF Inv, TypeOK
    <3> HIDE DEF Q
    <3>3. RoomOK(Q)
      BY <2>1, <3>1, SameUsersOK
    <3> QED BY <1>1, <1>10, <2>1, <3>1, <3>2, <3>3, OneRoomStep
  <2> QED BY <1>10, <2>2, <2>3 DEF ToggleUserReadyStatus
<1>11. ASSUME NEW u \in User, OnToggleReadyRequest(u) \/ OnConnectionFailure(u)
       PROVE  Inv'
  BY <1>9, <1>10, <1>11 DEF OnToggleReadyRequest, OnConnectionFailure
<1>12. ASSUME NEW u \in User, NEW r \in Room, OnSetUserInventory(r, u)
       PROVE  Inv'
  <2> DEFINE R == rooms[r]
             stats == IF u \in ToSet(R.stats) THEN R.stats ELSE Append(R.stats, u)
             Q == [R EXCEPT !.stats = stats]
  <2>1. R \in RoomState /\ RoomOK(R) /\ u \in ToSet(R.users) /\ R.users # <<>> /\ R.match
    BY <1>12, NullAssumption, CurrentRoom DEF OnSetUserInventory, Connect, Reports
  <2>2. R.stats \in Seq(User)
    BY <2>1 DEF RoomState
  <2>3. IsInjective(stats) /\ ToSet(stats) \subseteq ToSet(R.users)
    BY <2>1, <2>2, AppendMembers DEF RoomOK
  <2>4. Q.users = R.users /\ Q.host = R.host /\ Q.match = R.match /\ Q.stats = stats
    BY <2>1 DEF RoomState
  <2>5. rooms' = [rooms EXCEPT ![r] = Q]
    BY <1>12 DEF OnSetUserInventory, Connect, Inv, TypeOK
  <2> HIDE DEF Q, stats
  <2>6. RoomOK(Q)
    BY <2>1, <2>3, <2>4 DEF RoomOK
  <2> QED BY <1>1, <1>12, <2>4, <2>5, <2>6, OneRoomStep DEF OnSetUserInventory, Connect
<1>13. ASSUME NEW r \in Room, OnGameEnd(r)
       PROVE  Inv'
  <2> DEFINE Q == EndGame(rooms[r], FALSE)
  <2>1. rooms[r] \in RoomState /\ RoomOK(rooms[r]) /\ rooms[r].users # <<>>
    BY <1>13, MatchRoom DEF OnGameEnd, Reports
  <2>2. Q \in RoomState /\ Q.users = rooms[r].users /\ Q.host = rooms[r].host /\ Q.stats = <<>>
    BY <2>1, EndGameFacts
  <2>3. rooms' = [rooms EXCEPT ![r] = Q]
    BY <1>13 DEF OnGameEnd, SetRoom
  <2> HIDE DEF Q
  <2>4. RoomOK(Q)
    BY <2>1, <2>2, SameUsersOK
  <2> QED BY <1>1, <1>13, <2>2, <2>3, <2>4, OneRoomStep DEF OnGameEnd
<1>14. ASSUME NEW r \in Room, OnChangeMap(r)
       PROVE  Inv'
  <2>1. rooms[r] \in RoomState /\ RoomOK(rooms[r]) /\ rooms[r].users # <<>>
    BY <1>14, MatchRoom DEF OnChangeMap, Reports
  <2>2. PICK m \in Map : rooms' = [rooms EXCEPT ![r].map = m]
    BY <1>14 DEF OnChangeMap
  <2> DEFINE Q == [rooms[r] EXCEPT !.map = m]
  <2>3. /\ Q \in RoomState /\ Q.users = rooms[r].users /\ Q.host = rooms[r].host
        /\ Q.match = rooms[r].match /\ Q.stats = rooms[r].stats
    BY <2>1 DEF RoomState
  <2>4. rooms' = [rooms EXCEPT ![r] = Q]
    BY <2>2
  <2> HIDE DEF Q
  <2>5. RoomOK(Q)
    BY <2>1, <2>3, SameUsersOK
  <2> QED BY <1>1, <1>14, <2>3, <2>4, <2>5, OneRoomStep DEF OnChangeMap
<1>15. ASSUME EndAllGames
       PROVE  Inv'
  <2> DEFINE End(r) == IF rooms[r].match THEN EndGame(rooms[r], TRUE) ELSE rooms[r]
  <2>1. ASSUME NEW r \in Room
        PROVE  RoomOK(End(r)) /\ End(r).users = rooms[r].users
    <3>1. CASE rooms[r].match
      <4> DEFINE Q == EndGame(rooms[r], TRUE)
      <4>1. rooms[r] \in RoomState /\ RoomOK(rooms[r]) /\ rooms[r].users # <<>>
        BY <3>1, MatchRoom
      <4>2. /\ Q \in RoomState /\ Q.users = rooms[r].users /\ Q.host = rooms[r].host
            /\ Q.stats = <<>>
        BY <4>1, EndGameFacts
      <4>3. RoomOK(Q)
        BY <4>1, <4>2, SameUsersOK
      <4> QED BY <3>1, <4>2, <4>3
    <3>2. CASE ~rooms[r].match
      BY <3>2 DEF Inv
    <3> QED BY <3>1, <3>2
  <2>2. rooms' = [r \in Room |-> End(r)]
    BY <1>15 DEF EndAllGames
  <2> HIDE DEF End
  <2>3. \A r \in Room : RoomOK(rooms'[r]) /\ rooms'[r].users = rooms[r].users
    BY <2>1, <2>2
  <2> QED BY <1>1, <1>15, <2>3, SameMembersStep DEF EndAllGames
<1>16. ASSUME NEW s \in Server, AddServer(s)
       PROVE  Inv'
  BY <1>1, <1>16, SameMembersStep DEF AddServer, Inv
<1>17. ASSUME NEW s \in Server, RemoveServer(s)
       PROVE  Inv'
  <2> DEFINE r == serving[s]
             R == [rooms[r] EXCEPT !.server = NoServer]
             Q == IF R.match THEN EndGame(R, TRUE) ELSE R
  <2>1. CASE r = NoRoom
    BY <1>1, <1>17, <2>1, SameMembersStep DEF RemoveServer, Inv
  <2>2. CASE r # NoRoom
    <3>1. r \in Room /\ rooms[r] \in RoomState /\ RoomOK(rooms[r])
      BY <2>2 DEF Inv, TypeOK
    <3>2. /\ R \in RoomState /\ R.users = rooms[r].users /\ R.host = rooms[r].host
          /\ R.match = rooms[r].match /\ R.stats = rooms[r].stats
      BY <3>1 DEF RoomState
    <3>3. rooms[r].users = <<>> => R = NullRoom /\ ~R.match
      BY <3>1 DEF RoomOK, NullRoom
    <3>4. rooms' = [rooms EXCEPT ![r] = Q]
      BY <1>17, <2>2 DEF RemoveServer
    <3> HIDE DEF R
    <3>5. R.match => /\ EndGame(R, TRUE) \in RoomState
                     /\ EndGame(R, TRUE).users = R.users /\ EndGame(R, TRUE).host = R.host
                     /\ EndGame(R, TRUE).stats = <<>>
      BY <3>2, EndGameFacts
    <3>6. RoomOK(Q) /\ Q.users = rooms[r].users
      <4>1. CASE rooms[r].users = <<>>
        BY <3>1, <3>2, <3>3, <4>1, NullRoomOK
      <4>2. CASE rooms[r].users # <<>> /\ R.match
        BY <3>1, <3>2, <3>5, <4>2, SameUsersOK
      <4>3. CASE rooms[r].users # <<>> /\ ~R.match
        BY <3>1, <3>2, <4>3, SameUsersOK
      <4> QED BY <4>1, <4>2, <4>3
    <3> HIDE DEF Q
    <3> QED BY <1>1, <1>17, <3>1, <3>4, <3>6, OneRoomStep DEF RemoveServer
  <2> QED BY <2>1, <2>2
<1>18. CASE UNCHANGED vars
  BY <1>1, <1>18, SameMembersStep DEF vars, Inv
<1>19. ASSUME NEW u \in User, Logout(u) \/ OnChannelListPacket(u)
       PROVE  Inv'
  BY <1>3, <1>19 DEF Logout, OnChannelListPacket
<1> QED
  BY <1>2, <1>4, <1>5, <1>6, <1>7, <1>8, <1>9, <1>11, <1>12, <1>13, <1>14, <1>15, <1>16, <1>17,
     <1>18, <1>19 DEF Next

\* Inv holds in every reachable state.
THEOREM Invariance == Spec => []Inv
<1>1. Init => Inv
  <2> SUFFICES ASSUME Init PROVE Inv
    OBVIOUS
  <2>1. TypeOK
    BY NullRoomType, EmptySeq DEF Init, TypeOK
  <2>2. \A r \in Room : rooms[r] = NullRoom
    BY DEF Init
  <2>3. Pointers
    BY <2>2, NullRoomOK, NullAssumption DEF Init, Pointers, Members
  <2>4. Nesting
    BY DEF Init, Nesting
  <2> QED BY <2>1, <2>2, <2>3, <2>4, NullRoomOK DEF Inv
<1>2. Inv /\ [Next]_vars => Inv'
  BY InvStep
<1> QED BY <1>1, <1>2, PTL DEF Spec

\* Rooms and users point at each other, in every order of packets, disconnections and
\* kicks: no handler follows a pointer to a room or a user that is gone.
THEOREM MembershipCorrect == Spec => []MembershipAgrees
<1>1. Inv => MembershipAgrees
  BY DEF Inv, RoomOK, Pointers, Nesting, MembershipAgrees
<1> QED BY <1>1, Invariance, PTL

\* A room's host is one of its users, however many hosts leave, and a room without
\* users is gone.
THEOREM HostCorrect == Spec => []HostIsMember
<1>1. Inv => HostIsMember
  BY DEF Inv, RoomOK, HostIsMember, IsOpen, Members
<1> QED BY <1>1, Invariance, PTL

\* The match statistics are of users of the room, one each, and end with the match.
THEOREM StatsCorrect == Spec => []StatsAreMembers
<1>1. Inv => StatsAreMembers
  BY DEF Inv, RoomOK, StatsAreMembers, Members
<1> QED BY <1>1, Invariance, PTL

(***************************************************************************)
(* Matches: the flags that say who is playing, the place in the map        *)
(* playlist and the dedicated server a room holds.                         *)
(*                                                                         *)
(* Every handler takes each room through one method of CRoom or leaves it  *)
(* alone (RoomStep); what the methods do to one room is proved apart from  *)
(* the handlers that call them.  Servers point back at rooms, so they need *)
(* an invariant over all rooms.                                            *)
(***************************************************************************)


(***************************************************************************)
(* One room                                                                *)
(***************************************************************************)

\* EndGame clears the flags of members only: the in-game flags must be theirs.
FlagsOK(R) ==
  /\ R.match => R.playing
  /\ \A u \in User : R.ready[u] = "ingame" => u \in R.ingame
  /\ R.ingame \subseteq ToSet(R.users)
  /\ ValidateSettings /\ ~R.match => ~R.playing /\ R.ingame = {}

IndexOK(R) ==
  ValidateSettings => IF R.list = <<>> THEN R.index <= 1 ELSE R.index \in 1..Len(R.list)

MatchOK(R) == FlagsOK(R) /\ IndexOK(R)

LEMMA NullRoomMatchOK == MatchOK(NullRoom)
BY DEF MatchOK, FlagsOK, IndexOK, NullRoom

\* What EndGame does to the fields that a match changes.
LEMMA EndGameFields ==
  ASSUME NEW R \in RoomState, NEW forced \in BOOLEAN
  PROVE  LET Q == EndGame(R, forced) IN
         /\ Q.users = R.users /\ Q.host = R.host
         /\ Q.match = FALSE /\ Q.playing = FALSE /\ Q.stats = <<>>
         /\ Q.ready = [u \in User |-> IF u \in ToSet(R.users) /\ (R.ready[u] = "ingame" \/ u \in R.ingame)
                                       THEN "no" ELSE R.ready[u]]
         /\ Q.ingame = R.ingame \ ToSet(R.users)
         /\ Q.list = R.list
         /\ Q.index \in {R.index} \cup 1..Len(R.list)
         /\ Q.server \in {R.server, NoServer}
<1> DEFINE us == ToSet(R.users)
           ready == [u \in User |-> IF u \in us /\ (R.ready[u] = "ingame" \/ u \in R.ingame)
                                     THEN "no" ELSE R.ready[u]]
           C == ClearIngame(R, us)
           next == NextMap(R, forced)
           keep == ConnectingMethod = 1 /\ R.list # <<>> /\ next.index # 1
           server == IF keep THEN R.server ELSE NoServer
           Q == EndGame(R, forced)
<1>1. C = [R EXCEPT !.ready = ready, !.ingame = R.ingame \ us]
  BY DEF ClearIngame
<1>2. next.index \in {R.index} \cup 1..Len(R.list)
  BY NextMapType
<1>3. server \in {R.server, NoServer}
  OBVIOUS
<1> HIDE DEF ready, us
<1>4. /\ C.users = R.users /\ C.host = R.host /\ C.list = R.list /\ C.server = R.server
      /\ C.ready = ready /\ C.ingame = R.ingame \ us
      /\ DOMAIN C = DOMAIN R
  BY <1>1 DEF RoomState
<1>5. Q = [C EXCEPT !.match = FALSE, !.stats = <<>>, !.playing = FALSE,
                    !.map = next.map, !.index = next.index,
                    !.server = IF keep THEN C.server ELSE NoServer]
  BY DEF EndGame, us
<1> HIDE DEF C, next, keep, Q
<1>6. /\ Q.users = C.users /\ Q.host = C.host
      /\ Q.match = FALSE /\ Q.playing = FALSE /\ Q.stats = <<>>
      /\ Q.ready = C.ready /\ Q.ingame = C.ingame /\ Q.list = C.list
      /\ Q.index = next.index
      /\ Q.server = IF keep THEN C.server ELSE NoServer
  BY <1>4, <1>5 DEF RoomState
<1> QED BY <1>2, <1>3, <1>4, <1>6 DEF Q, ready, us

\* After EndGame nobody is in a match, and the playlist is at one of its maps.
LEMMA EndGameMatchOK ==
  ASSUME NEW R \in RoomState, NEW forced \in BOOLEAN, MatchOK(R)
  PROVE  MatchOK(EndGame(R, forced))
<1> DEFINE Q == EndGame(R, forced)
<1>1. /\ Q.users = R.users
      /\ Q.match = FALSE /\ Q.playing = FALSE
      /\ Q.ready = [u \in User |-> IF u \in ToSet(R.users) /\ (R.ready[u] = "ingame" \/ u \in R.ingame)
                                    THEN "no" ELSE R.ready[u]]
      /\ Q.ingame = R.ingame \ ToSet(R.users)
      /\ Q.list = R.list
      /\ Q.index \in {R.index} \cup 1..Len(R.list)
  BY EndGameFields
<1> HIDE DEF Q
<1>2. FlagsOK(Q)
  BY <1>1 DEF MatchOK, FlagsOK
<1>3. IndexOK(Q)
  <2>1. R.list \in Seq(Map) /\ R.index \in Nat
    BY DEF RoomState
  <2>2. Len(R.list) \in Nat /\ (R.list = <<>> => Len(R.list) = 0)
    BY <2>1, LenProperties
  <2> QED BY <1>1, <2>1, <2>2 DEF MatchOK, IndexOK
<1> QED BY <1>2, <1>3 DEF MatchOK, Q

LEMMA UpdateHostMatchOK ==
  ASSUME NEW R \in RoomState, NEW u \in User, MatchOK(R)
  PROVE  MatchOK(UpdateHost(R, u))
<1> DEFINE R1 == [R EXCEPT !.host = u, !.ready[u] = "no", !.kicked = {}]
<1>1. /\ R1 \in RoomState /\ R1.users = R.users
      /\ R1.match = R.match /\ R1.playing = R.playing /\ R1.ingame = R.ingame
      /\ R1.ready = [R.ready EXCEPT ![u] = "no"]
      /\ R1.list = R.list /\ R1.index = R.index
  BY DEF RoomState, ReadyStatus
<1>2. R.ready \in [User -> ReadyStatus]
  BY DEF RoomState
<1> HIDE DEF R1
<1>3. MatchOK(R1)
  BY <1>1, <1>2 DEF MatchOK, FlagsOK, IndexOK
<1> QED BY <1>1, <1>3, EndGameMatchOK DEF UpdateHost, R1

\* Whoever leaves takes his flags with him, and ends a match nobody plays any more.
LEMMA RemoveUserMatchOK ==
  ASSUME NEW R \in RoomState, NEW u \in User, RoomOK(R), MatchOK(R)
  PROVE  MatchOK(RemoveUser(R, u))
<1> DEFINE R1 == [R EXCEPT !.users = Erase(R.users, u), !.stats = Erase(R.stats, u),
                           !.ready[u] = "no", !.ingame = R.ingame \ {u}]
<1>1. /\ Erase(R.users, u) \in Seq(User) /\ Erase(R.stats, u) \in Seq(User)
      /\ ToSet(Erase(R.users, u)) = ToSet(R.users) \ {u}
  BY EraseType, EraseMembers DEF RoomState, RoomOK
<1>2. /\ R1 \in RoomState
      /\ R1.users = Erase(R.users, u) /\ R1.match = R.match /\ R1.playing = R.playing
      /\ R1.ready = [R.ready EXCEPT ![u] = "no"] /\ R1.ingame = R.ingame \ {u}
      /\ R1.list = R.list /\ R1.index = R.index
  BY <1>1 DEF RoomState, ReadyStatus
<1>3. R.ready \in [User -> ReadyStatus]
  BY DEF RoomState
<1>4. RemoveUser(R, u) = IF R1.users = <<>> THEN NullRoom
                         ELSE IF R.host = u THEN UpdateHost(R1, NewHost(R1)) ELSE R1
  BY DEF RemoveUser, Disconnect
<1> HIDE DEF R1
<1>5. MatchOK(R1)
  BY <1>1, <1>2, <1>3 DEF MatchOK, FlagsOK, IndexOK
<1>6. R1.users # <<>> => NewHost(R1) \in User
  BY <1>2, NewHostFacts
<1>7. CASE R1.users = <<>>
  BY <1>4, <1>7, NullRoomMatchOK
<1>8. CASE R1.users # <<>> /\ R.host = u
  BY <1>2, <1>4, <1>5, <1>6, <1>8, UpdateHostMatchOK
<1>9. CASE R1.users # <<>> /\ R.host # u
  BY <1>4, <1>5, <1>9
<1> QED BY <1>7, <1>8, <1>9

\* A member who joins brings no flags.
LEMMA AddUserMatchOK ==
  ASSUME NEW R \in RoomState, NEW u \in User, MatchOK(R)
  PROVE  MatchOK(AddUser(R, u))
<1> DEFINE Q == AddUser(R, u)
<1>1. /\ Q.users = Append(R.users, u) /\ Q.match = R.match /\ Q.playing = R.playing
      /\ Q.ready = [R.ready EXCEPT ![u] = "no"] /\ Q.ingame = R.ingame \ {u}
      /\ Q.list = R.list /\ Q.index = R.index
  BY DEF AddUser, RoomState
<1>2. ToSet(Append(R.users, u)) = ToSet(R.users) \cup {u}
  BY AppendMembers DEF RoomState
<1>3. R.ready \in [User -> ReadyStatus]
  BY DEF RoomState
<1> HIDE DEF Q
<1> QED BY <1>1, <1>2, <1>3 DEF MatchOK, FlagsOK, IndexOK, Q

\* Members are put into a match, or into the room's playing state that a status sent
\* without ValidateSettings left behind.
LEMMA SetIngameMatchOK ==
  ASSUME NEW R \in RoomState, NEW us \in SUBSET ToSet(R.users), MatchOK(R),
         ValidateSettings => R.match
  PROVE  MatchOK(SetIngame(R, us))
<1> DEFINE Q == SetIngame(R, us)
<1>1. /\ Q.users = R.users /\ Q.match = R.match /\ Q.playing = R.playing
      /\ Q.ready = [u \in User |-> IF u \in us THEN "ingame" ELSE R.ready[u]]
      /\ Q.ingame = R.ingame \cup us
      /\ Q.list = R.list /\ Q.index = R.index
  BY DEF SetIngame, RoomState
<1> HIDE DEF Q
<1> QED BY <1>1 DEF MatchOK, FlagsOK, IndexOK, Q

LEMMA StartMatchOK ==
  ASSUME NEW R \in RoomState, NEW s \in Server \cup {NoServer}, MatchOK(R),
         R.host \in ToSet(R.users)
  PROVE  MatchOK(StartMatch(R, s))
<1> DEFINE us == {R.host} \cup {u \in ToSet(R.users) : R.ready[u] # "no"}
           S == SetIngame(R, us)
           Q == StartMatch(R, s)
<1>1. us \subseteq ToSet(R.users)
  OBVIOUS
<1>2. Q = [S EXCEPT !.match = TRUE, !.playing = TRUE, !.server = s]
  BY DEF StartMatch
<1> HIDE DEF us, Q
<1>3. /\ S.users = R.users
      /\ S.ready = [u \in User |-> IF u \in us THEN "ingame" ELSE R.ready[u]]
      /\ S.ingame = R.ingame \cup us
      /\ S.list = R.list /\ S.index = R.index /\ DOMAIN S = DOMAIN R
  BY DEF SetIngame, RoomState
<1> HIDE DEF S
<1>4. /\ Q.users = S.users /\ Q.match = TRUE /\ Q.playing = TRUE
      /\ Q.ready = S.ready /\ Q.ingame = S.ingame
      /\ Q.list = S.list /\ Q.index = S.index
  BY <1>2, <1>3 DEF RoomState
<1> QED BY <1>1, <1>3, <1>4 DEF MatchOK, FlagsOK, IndexOK, Q

\* The settings of a room without a match, at the start of its playlist: a map that clears
\* the playlist leaves the index where it is.
LEMMA NewSettingsMatchOK ==
  ASSUME NEW R \in RoomState, NEW S \in NewSettings(R), NEW c \in Capacity, MatchOK(R),
         ~R.match, R.index <= 1
  PROVE  MatchOK([S EXCEPT !.capacity = c])
<1> DEFINE Q == [S EXCEPT !.capacity = c]
           Kept == /\ S.users = R.users /\ S.match = R.match
                   /\ S.ready = R.ready /\ S.ingame = R.ingame
                   /\ DOMAIN S = DOMAIN R
<1>0. R.index \in Nat /\ R.list \in Seq(Map)
  BY DEF RoomState
<1>1. CASE ValidateSettings
  <2>1. \A l \in Playlist : l # <<>> /\ l \in Seq(Map) /\ 1 \in 1..Len(l)
    BY PlaylistAssumption, EmptySeq
  <2>2. R.list # <<>> => 1 \in 1..Len(R.list)
    BY <1>0, EmptySeq
  <2>3. \/ S = R
        \/ S = [R EXCEPT !.index = 1]
        \/ \E m \in Map : S = [R EXCEPT !.map = m, !.list = <<>>]
        \/ \E l \in Playlist : S = [R EXCEPT !.map = l[1], !.list = l, !.index = 1]
    BY <1>1 DEF NewSettings
  <2>4. Kept /\ S.playing = R.playing
    BY <2>3 DEF RoomState
  <2>5. IF S.list = <<>> THEN S.index <= 1 ELSE S.index \in 1..Len(S.list)
    <3>1. IF R.list = <<>> THEN R.index <= 1 ELSE R.index \in 1..Len(R.list)
      BY <1>1 DEF MatchOK, IndexOK
    <3>2. CASE S = R
      BY <3>1, <3>2
    <3>3. CASE S = [R EXCEPT !.index = 1]
      <4>1. S.list = R.list /\ S.index = 1
        BY <3>3 DEF RoomState
      <4> QED BY <2>2, <4>1
    <3>4. ASSUME NEW m \in Map, S = [R EXCEPT !.map = m, !.list = <<>>]
          PROVE  IF S.list = <<>> THEN S.index <= 1 ELSE S.index \in 1..Len(S.list)
      <4>1. S.list = <<>> /\ S.index = R.index
        BY <3>4 DEF RoomState
      <4> QED BY <4>1
    <3>5. ASSUME NEW l \in Playlist, S = [R EXCEPT !.map = l[1], !.list = l, !.index = 1]
          PROVE  IF S.list = <<>> THEN S.index <= 1 ELSE S.index \in 1..Len(S.list)
      <4>1. S.list = l /\ S.index = 1
        BY <3>5 DEF RoomState
      <4> QED BY <2>1, <4>1
    <3> QED BY <2>3, <3>2, <3>3, <3>4, <3>5
  <2>6. /\ Q.users = S.users /\ Q.match = S.match /\ Q.playing = S.playing
        /\ Q.ready = S.ready /\ Q.ingame = S.ingame /\ Q.list = S.list /\ Q.index = S.index
    BY <2>4 DEF RoomState
  <2> QED BY <2>4, <2>5, <2>6 DEF MatchOK, FlagsOK, IndexOK
<1>2. CASE ~ValidateSettings
  <2>1. Kept
    BY <1>2 DEF NewSettings, RoomState
  <2>2. /\ Q.users = S.users /\ Q.match = S.match
        /\ Q.ready = S.ready /\ Q.ingame = S.ingame
    BY <2>1 DEF RoomState
  <2> QED BY <1>2, <2>1, <2>2 DEF MatchOK, FlagsOK, IndexOK
<1> QED BY <1>1, <1>2

(***************************************************************************)
(* What a handler does to a room                                           *)
(***************************************************************************)

\* CRoom's methods, with what the handlers have tested when they call them.
RoomStep(R, Q) ==
  \/ Q = R
  \/ \E u \in ToSet(R.users) :
       Q = RemoveUser(R, u) \/ Q = RemoveUser([R EXCEPT !.kicked = @ \cup {u}], u)
  \/ \E u \in User : R.users # <<>> /\ Q = AddUser(R, u)
  \/ /\ R = NullRoom
     /\ \E u \in User, c \in Capacity, m \in Map, l \in Playlist \cup {<<>>} :
          Q = [NullRoom EXCEPT !.users = <<u>>, !.host = u, !.capacity = c,
                               !.map = m, !.list = l, !.index = IF l = <<>> THEN 0 ELSE 1]
  \/ /\ R.users # <<>> /\ ~R.match /\ R.index <= 1
     /\ \E S \in NewSettings(R), c \in Capacity : Q = [S EXCEPT !.capacity = c]
  \/ /\ R.users # <<>> /\ ~R.match
     /\ \E s \in Server \cup {NoServer} : Q = StartMatch(R, s)
  \/ \E u \in ToSet(R.users) : R.playing /\ Q = SetIngame(R, {u})
  \/ \E u \in ToSet(R.users) : Q = [R EXCEPT !.ready[u] = IF @ = "no" THEN "yes" ELSE "no"]
  \/ \E u \in ToSet(R.users) : R.match /\ Q = [R EXCEPT !.stats = Connect(@, u)]
  \/ \E forced \in BOOLEAN : R.match /\ Q = EndGame(R, forced)
  \/ \E m \in Map : Q = [R EXCEPT !.map = m]
  \/ R.match /\ Q = EndGame([R EXCEPT !.server = NoServer], TRUE)
  \/ ~R.match /\ Q = [R EXCEPT !.server = NoServer]

\* Only room r moves.
LEMMA OneRoomMoves ==
  ASSUME Inv, NEW r \in Room, NEW Q, rooms' = [rooms EXCEPT ![r] = Q], RoomStep(rooms[r], Q)
  PROVE  \A x \in Room : RoomStep(rooms[x], rooms'[x])
<1>1. \A x \in Room : rooms'[x] = IF x = r THEN Q ELSE rooms[x]
  BY DEF Inv, TypeOK
<1>2. \A x \in Room : RoomStep(rooms[x], rooms[x])
  BY DEF RoomStep
<1> QED BY <1>1, <1>2

LEMMA NoRoomMoves ==
  ASSUME rooms' = rooms
  PROVE  \A x \in Room : RoomStep(rooms[x], rooms'[x])
BY DEF RoomStep

LEMMA LeavingMoves ==
  ASSUME Inv, NEW u \in User, LeaveCurrentRoom(u)
  PROVE  \A x \in Room : RoomStep(rooms[x], rooms'[x])
<1>1. CASE current[u] = NoRoom
  BY <1>1, NoRoomMoves DEF LeaveCurrentRoom
<1>2. CASE current[u] # NoRoom
  <2> DEFINE r == current[u]
             Q == RemoveUser(rooms[r], u)
  <2>1. r \in Room /\ u \in ToSet(rooms[r].users)
    BY <1>2, CurrentRoom
  <2>2. rooms' = [rooms EXCEPT ![r] = Q]
    BY <1>2 DEF LeaveCurrentRoom, SetRoom
  <2>3. RoomStep(rooms[r], Q)
    BY <2>1 DEF RoomStep
  <2> HIDE DEF Q
  <2> QED BY <2>1, <2>2, <2>3, OneRoomMoves
<1> QED BY <1>1, <1>2

LEMMA ToggleMoves ==
  ASSUME Inv, NEW u \in User, current[u] # NoRoom, ToggleUserReadyStatus(u, current[u])
  PROVE  \A x \in Room : RoomStep(rooms[x], rooms'[x])
<1> DEFINE r == current[u]
           Q == [rooms[r] EXCEPT !.ready[u] = IF @ = "no" THEN "yes" ELSE "no"]
<1>1. r \in Room /\ u \in ToSet(rooms[r].users)
  BY CurrentRoom
<1>2. CASE rooms' = rooms
  BY <1>2, NoRoomMoves
<1>3. CASE rooms' = [rooms EXCEPT ![r].ready[u] = IF @ = "no" THEN "yes" ELSE "no"]
  <2>1. rooms' = [rooms EXCEPT ![r] = Q]
    BY <1>1, <1>3 DEF Inv, TypeOK
  <2>2. RoomStep(rooms[r], Q)
    BY <1>1 DEF RoomStep
  <2> HIDE DEF Q
  <2> QED BY <1>1, <2>1, <2>2, OneRoomMoves
<1> QED BY <1>2, <1>3 DEF ToggleUserReadyStatus

LEMMA StartMoves ==
  ASSUME Inv, NEW u \in User, OnGameStartRequest(u)
  PROVE  \A x \in Room : RoomStep(rooms[x], rooms'[x])
<1> DEFINE r == current[u]
<1>1. /\ r \in Room /\ u \in ToSet(rooms[r].users) /\ rooms[r].users # <<>>
      /\ rooms[r] \in RoomState
  BY CurrentRoom DEF OnGameStartRequest
<1>2. CASE HostStartGame(r)
  <2> DEFINE s == IF rooms[r].server = NoServer /\ ConnectingMethod # 0
                    THEN AvailableServer ELSE rooms[r].server
             Q == StartMatch(rooms[r], s)
  <2>1. s \in Server \cup {NoServer}
    BY <1>1, AvailableServerType DEF Inv, TypeOK, RoomState
  <2>2. rooms' = [rooms EXCEPT ![r] = Q] /\ ~rooms[r].match
    BY <1>2 DEF HostStartGame
  <2> HIDE DEF s
  <2>3. RoomStep(rooms[r], Q)
    BY <1>1, <2>1, <2>2 DEF RoomStep
  <2> HIDE DEF Q
  <2> QED BY <1>1, <2>2, <2>3, OneRoomMoves
<1>3. CASE rooms[r].playing /\ UserGameJoin(u, r)
  <2> DEFINE Q == SetIngame(rooms[r], {u})
  <2>1. rooms' = [rooms EXCEPT ![r] = Q]
    BY <1>3 DEF UserGameJoin
  <2>2. RoomStep(rooms[r], Q)
    BY <1>1, <1>3 DEF RoomStep
  <2> HIDE DEF Q
  <2> QED BY <1>1, <2>1, <2>2, OneRoomMoves
<1> QED BY <1>2, <1>3 DEF OnGameStartRequest

\* Every handler takes every room through one of the methods.
LEMMA RoomsMove == Inv /\ [Next]_vars => \A x \in Room : RoomStep(rooms[x], rooms'[x])
<1> DEFINE Moves == \A x \in Room : RoomStep(rooms[x], rooms'[x])
<1> SUFFICES ASSUME Inv, [Next]_vars
             PROVE  Moves
  OBVIOUS
<1>1. ASSUME NEW u \in User, Login(u) \/ JoinChannel(u)
      PROVE  Moves
  BY <1>1, NoRoomMoves DEF Login, JoinChannel
<1>2. ASSUME NEW u \in User, Logout(u) \/ OnChannelListPacket(u) \/ OnLeaveRoomRequest(u)
      PROVE  Moves
  BY <1>2, LeavingMoves DEF Logout, OnChannelListPacket, OnLeaveRoomRequest
<1>3. ASSUME NEW u \in User, NEW r \in Room, OnNewRoomRequest(u, r)
      PROVE  Moves
  <2>1. PICK c \in Capacity, m \in Map, l \in Playlist \cup {<<>>} :
          rooms' = [rooms EXCEPT ![r] =
            [NullRoom EXCEPT !.users = <<u>>, !.host = u, !.capacity = c,
                             !.map = m, !.list = l, !.index = IF l = <<>> THEN 0 ELSE 1]]
    BY <1>3 DEF OnNewRoomRequest
  <2> DEFINE Q == [NullRoom EXCEPT !.users = <<u>>, !.host = u, !.capacity = c,
                                   !.map = m, !.list = l, !.index = IF l = <<>> THEN 0 ELSE 1]
  <2>2. rooms[r] = NullRoom
    BY <1>3 DEF OnNewRoomRequest, IsOpen, Inv, RoomOK
  <2>3. RoomStep(rooms[r], Q)
    BY <2>2 DEF RoomStep
  <2>4. rooms' = [rooms EXCEPT ![r] = Q]
    BY <2>1
  <2> HIDE DEF Q
  <2> QED BY <2>3, <2>4, OneRoomMoves
<1>4. ASSUME NEW u \in User, NEW r \in Room, OnJoinRoomRequest(u, r)
      PROVE  Moves
  <2> DEFINE Q == AddUser(rooms[r], u)
  <2>1. rooms[r].users # <<>>
    BY <1>4 DEF OnJoinRoomRequest, IsOpen
  <2>2. rooms' = [rooms EXCEPT ![r] = Q]
    BY <1>4 DEF OnJoinRoomRequest
  <2>3. RoomStep(rooms[r], Q)
    BY <2>1 DEF RoomStep
  <2> HIDE DEF Q
  <2> QED BY <2>2, <2>3, OneRoomMoves
<1>5. ASSUME NEW h \in User, NEW u \in User, OnRoomKickRequest(h, u)
      PROVE  Moves
  <2> DEFINE r == current[h]
             Q == RemoveUser([rooms[r] EXCEPT !.kicked = @ \cup {u}], u)
  <2>1. current[u] = r /\ r # NoRoom /\ rooms' = [rooms EXCEPT ![r] = Q]
    BY <1>5 DEF OnRoomKickRequest, SetRoom
  <2>2. r \in Room /\ u \in ToSet(rooms[r].users)
    BY <2>1, CurrentRoom
  <2>3. RoomStep(rooms[r], Q)
    BY <2>2 DEF RoomStep
  <2> HIDE DEF Q
  <2> QED BY <2>1, <2>2, <2>3, OneRoomMoves
<1>6. ASSUME NEW u \in User, OnRoomUpdateSettings(u)
      PROVE  Moves
  <2> DEFINE r == current[u]
  <2>1. r \in Room /\ rooms[r].users # <<>>
    BY <1>6, CurrentRoom DEF OnRoomUpdateSettings
  <2>2. PICK c \in Capacity, S \in NewSettings(rooms[r]) :
          rooms' = [rooms EXCEPT ![r] = [S EXCEPT !.capacity = c]]
    BY <1>6 DEF OnRoomUpdateSettings
  <2> DEFINE Q == [S EXCEPT !.capacity = c]
  <2>3. RoomStep(rooms[r], Q)
    BY <1>6, <2>1 DEF OnRoomUpdateSettings, RoomStep
  <2>4. rooms' = [rooms EXCEPT ![r] = Q]
    BY <2>2
  <2> HIDE DEF Q
  <2> QED BY <2>1, <2>3, <2>4, OneRoomMoves
<1>7. ASSUME NEW u \in User,
             OnGameStartRequest(u) \/ OnToggleReadyRequest(u) \/ OnConnectionFailure(u)
      PROVE  Moves
  BY <1>7, StartMoves, ToggleMoves DEF OnToggleReadyRequest, OnConnectionFailure
<1>8. ASSUME NEW u \in User, NEW r \in Room, OnSetUserInventory(r, u)
      PROVE  Moves
  <2> DEFINE Q == [rooms[r] EXCEPT !.stats = Connect(@, u)]
  <2>1. rooms[r].match /\ u \in ToSet(rooms[r].users)
    BY <1>8, NullAssumption, CurrentRoom DEF OnSetUserInventory, Reports
  <2>2. rooms' = [rooms EXCEPT ![r] = Q]
    BY <1>8 DEF OnSetUserInventory, Inv, TypeOK
  <2>3. RoomStep(rooms[r], Q)
    BY <2>1 DEF RoomStep
  <2> HIDE DEF Q
  <2> QED BY <2>2, <2>3, OneRoomMoves
<1>9. ASSUME NEW r \in Room, OnGameEnd(r)
      PROVE  Moves
  <2> DEFINE Q == EndGame(rooms[r], FALSE)
  <2>1. rooms' = [rooms EXCEPT ![r] = Q]
    BY <1>9 DEF OnGameEnd, SetRoom
  <2>2. RoomStep(rooms[r], Q)
    BY <1>9 DEF OnGameEnd, Reports, RoomStep
  <2> HIDE DEF Q
  <2> QED BY <2>1, <2>2, OneRoomMoves
<1>10. ASSUME NEW r \in Room, OnChangeMap(r)
       PROVE  Moves
  <2>1. PICK m \in Map : rooms' = [rooms EXCEPT ![r].map = m]
    BY <1>10 DEF OnChangeMap
  <2> DEFINE Q == [rooms[r] EXCEPT !.map = m]
  <2>2. RoomStep(rooms[r], Q)
    BY DEF RoomStep
  <2>3. rooms' = [rooms EXCEPT ![r] = Q]
    BY <2>1
  <2> HIDE DEF Q
  <2> QED BY <2>2, <2>3, OneRoomMoves
<1>11. CASE EndAllGames
  <2>1. rooms' = [r \in Room |-> IF rooms[r].match THEN EndGame(rooms[r], TRUE) ELSE rooms[r]]
    BY <1>11 DEF EndAllGames
  <2>2. ASSUME NEW x \in Room
        PROVE  RoomStep(rooms[x], rooms'[x])
    BY <2>1 DEF RoomStep
  <2> QED BY <2>2
<1>12. ASSUME NEW s \in Server, AddServer(s)
       PROVE  Moves
  BY <1>12, NoRoomMoves DEF AddServer
<1>13. ASSUME NEW s \in Server, RemoveServer(s)
       PROVE  Moves
  <2> DEFINE r == serving[s]
             R == [rooms[r] EXCEPT !.server = NoServer]
             Q == IF R.match THEN EndGame(R, TRUE) ELSE R
  <2>1. CASE r = NoRoom
    BY <1>13, <2>1, NoRoomMoves DEF RemoveServer
  <2>2. CASE r # NoRoom
    <3>1. r \in Room /\ rooms[r] \in RoomState
      BY <2>2 DEF Inv, TypeOK
    <3>2. R.match = rooms[r].match
      BY <3>1 DEF RoomState
    <3>3. rooms' = [rooms EXCEPT ![r] = Q]
      BY <1>13, <2>2 DEF RemoveServer
    <3>4. RoomStep(rooms[r], Q)
      BY <3>2 DEF RoomStep
    <3> HIDE DEF Q
    <3> QED BY <3>1, <3>3, <3>4, OneRoomMoves
  <2> QED BY <2>1, <2>2
<1>14. CASE UNCHANGED vars
  BY <1>14, NoRoomMoves DEF vars
<1> QED
  BY <1>1, <1>2, <1>3, <1>4, <1>5, <1>6, <1>7, <1>8, <1>9, <1>10, <1>11, <1>12, <1>13,
     <1>14 DEF Next

LEMMA RoomStepMatchOK ==
  ASSUME NEW R \in RoomState, NEW Q, RoomOK(R), MatchOK(R), RoomStep(R, Q)
  PROVE  MatchOK(Q)
<1>0. R.users \in Seq(User) /\ ToSet(R.users) \subseteq User
  BY MembersType DEF RoomState
<1>1. CASE Q = R
  BY <1>1
<1>2. ASSUME NEW u \in ToSet(R.users),
             Q = RemoveUser(R, u) \/ Q = RemoveUser([R EXCEPT !.kicked = @ \cup {u}], u)
      PROVE  MatchOK(Q)
  <2> DEFINE K == [R EXCEPT !.kicked = @ \cup {u}]
  <2>1. u \in User
    BY <1>0
  <2>2. /\ K \in RoomState /\ K.users = R.users /\ K.host = R.host
        /\ K.match = R.match /\ K.stats = R.stats /\ K.playing = R.playing
        /\ K.ready = R.ready /\ K.ingame = R.ingame /\ K.list = R.list /\ K.index = R.index
    BY <2>1 DEF RoomState
  <2>3. R.users # <<>>
    BY DEF ToSet
  <2> HIDE DEF K
  <2>4. RoomOK(K) /\ MatchOK(K)
    BY <2>2, <2>3, SameUsersOK DEF MatchOK, FlagsOK, IndexOK
  <2> QED BY <1>2, <2>1, <2>2, <2>4, RemoveUserMatchOK DEF K
<1>3. ASSUME NEW u \in User, Q = AddUser(R, u)
      PROVE  MatchOK(Q)
  BY <1>3, AddUserMatchOK
<1>4. ASSUME NEW u \in User, NEW c \in Capacity, NEW m \in Map, NEW l \in Playlist \cup {<<>>},
             Q = [NullRoom EXCEPT !.users = <<u>>, !.host = u, !.capacity = c,
                                  !.map = m, !.list = l, !.index = IF l = <<>> THEN 0 ELSE 1]
      PROVE  MatchOK(Q)
  <2>1. /\ Q.match = FALSE /\ Q.playing = FALSE /\ Q.ready = [v \in User |-> "no"] /\ Q.ingame = {}
        /\ Q.list = l /\ Q.index = IF l = <<>> THEN 0 ELSE 1
    BY <1>4 DEF NullRoom
  <2>2. l # <<>> => 1 \in 1..Len(l)
    BY PlaylistAssumption, EmptySeq
  <2> QED BY <2>1, <2>2 DEF MatchOK, FlagsOK, IndexOK
<1>5. ASSUME ~R.match, R.index <= 1, NEW S \in NewSettings(R), NEW c \in Capacity,
             Q = [S EXCEPT !.capacity = c]
      PROVE  MatchOK(Q)
  BY <1>5, NewSettingsMatchOK
<1>6. ASSUME R.users # <<>>, NEW s \in Server \cup {NoServer}, Q = StartMatch(R, s)
      PROVE  MatchOK(Q)
  BY <1>6, StartMatchOK DEF RoomOK
<1>7. ASSUME NEW u \in ToSet(R.users), R.playing, Q = SetIngame(R, {u})
      PROVE  MatchOK(Q)
  <2>1. ValidateSettings => R.match
    BY <1>7 DEF MatchOK, FlagsOK
  <2> QED BY <1>7, <2>1, SetIngameMatchOK
<1>8. ASSUME NEW u \in ToSet(R.users),
             Q = [R EXCEPT !.ready[u] = IF @ = "no" THEN "yes" ELSE "no"]
      PROVE  MatchOK(Q)
  <2> DEFINE ready == [R.ready EXCEPT ![u] = IF @ = "no" THEN "yes" ELSE "no"]
  <2>1. /\ Q.users = R.users /\ Q.match = R.match /\ Q.playing = R.playing
        /\ Q.ready = ready /\ Q.ingame = R.ingame /\ Q.list = R.list /\ Q.index = R.index
    BY <1>8 DEF RoomState
  <2>2. \A v \in User : ready[v] = "ingame" => R.ready[v] = "ingame"
    BY DEF RoomState
  <2> HIDE DEF ready
  <2> QED BY <2>1, <2>2 DEF MatchOK, FlagsOK, IndexOK
<1>9. ASSUME NEW u \in ToSet(R.users), Q = [R EXCEPT !.stats = Connect(@, u)]
      PROVE  MatchOK(Q)
  <2>1. /\ Q.users = R.users /\ Q.match = R.match /\ Q.playing = R.playing
        /\ Q.ready = R.ready /\ Q.ingame = R.ingame /\ Q.list = R.list /\ Q.index = R.index
    BY <1>9 DEF RoomState
  <2> QED BY <2>1 DEF MatchOK, FlagsOK, IndexOK
<1>10. ASSUME NEW forced \in BOOLEAN, Q = EndGame(R, forced)
       PROVE  MatchOK(Q)
  BY <1>10, EndGameMatchOK
<1>11. ASSUME NEW m \in Map, Q = [R EXCEPT !.map = m]
       PROVE  MatchOK(Q)
  <2>1. /\ Q.users = R.users /\ Q.match = R.match /\ Q.playing = R.playing
        /\ Q.ready = R.ready /\ Q.ingame = R.ingame /\ Q.list = R.list /\ Q.index = R.index
    BY <1>11 DEF RoomState
  <2> QED BY <2>1 DEF MatchOK, FlagsOK, IndexOK
<1> DEFINE F == [R EXCEPT !.server = NoServer]
<1>12. F \in RoomState /\ MatchOK(F)
  <2>1. /\ F \in RoomState /\ F.users = R.users /\ F.match = R.match /\ F.playing = R.playing
        /\ F.ready = R.ready /\ F.ingame = R.ingame /\ F.list = R.list /\ F.index = R.index
    BY DEF RoomState
  <2> QED BY <2>1 DEF MatchOK, FlagsOK, IndexOK
<1>13. CASE Q = EndGame(F, TRUE) \/ Q = F
  BY <1>12, <1>13, EndGameMatchOK
<1> QED
  BY <1>1, <1>2, <1>3, <1>4, <1>5, <1>6, <1>7, <1>8, <1>9, <1>10, <1>11, <1>13 DEF RoomStep

MatchInv == \A r \in Room : MatchOK(rooms[r])

LEMMA MatchAlways == Spec => []MatchInv
<1>1. Init => MatchInv
  BY NullRoomMatchOK DEF Init, MatchInv
<1>2. Inv /\ MatchInv /\ [Next]_vars => MatchInv'
  BY RoomsMove, RoomStepMatchOK DEF Inv, TypeOK, MatchInv
<1> QED BY <1>1, <1>2, Invariance, PTL DEF Spec

\* In-game flags, ready flags and the shown status tell the same story in every room, and
\* the end of a match, however it comes, leaves nobody in it.
THEOREM FlagsCorrect == Spec => []MatchFlagsAgree
<1>1. MatchInv => MatchFlagsAgree
  BY DEF MatchInv, MatchOK, FlagsOK, MatchFlagsAgree
<1> QED BY <1>1, MatchAlways, PTL

\* The playlist index is always a place of the room's playlist, so that no room gets its
\* settings locked for good.
THEOREM IndexCorrect == Spec => []IndexOnPlaylist
<1>1. MatchInv => IndexOnPlaylist
  BY DEF MatchInv, MatchOK, IndexOK, IndexOnPlaylist
<1> QED BY <1>1, MatchAlways, PTL

(***************************************************************************)
(* Hosts                                                                   *)
(***************************************************************************)

\* What a leaving user does to the host and the server of a room: the next host plays if
\* the match goes on without a server, and the server goes with the last user only.
LEMMA RemoveUserHost ==
  ASSUME NEW R \in RoomState, NEW u \in User
  PROVE  LET Q == RemoveUser(R, u) IN
         /\ Q.match /\ Q.server = NoServer /\ Q.host # R.host => Q.host \in ToSet(Q.stats)
         /\ Q.server \in {R.server, NoServer}
         /\ Q.server # R.server => ~Q.match
<1> DEFINE R1 == [R EXCEPT !.users = Erase(R.users, u), !.stats = Erase(R.stats, u),
                           !.ready[u] = "no", !.ingame = R.ingame \ {u}]
           H == [R1 EXCEPT !.host = NewHost(R1), !.ready[NewHost(R1)] = "no", !.kicked = {}]
           Q == RemoveUser(R, u)
<1>1. Erase(R.users, u) \in Seq(User) /\ Erase(R.stats, u) \in Seq(User)
  BY EraseType DEF RoomState
<1>2. R1 \in RoomState /\ R1.host = R.host /\ R1.server = R.server
  BY <1>1 DEF RoomState, ReadyStatus
<1>3. Q = IF R1.users = <<>> THEN NullRoom
          ELSE IF R.host = u THEN UpdateHost(R1, NewHost(R1)) ELSE R1
  BY DEF RemoveUser, Disconnect
<1> HIDE DEF R1, Q
<1>4. CASE R1.users = <<>>
  BY <1>3, <1>4 DEF NullRoom, Q
<1>5. CASE R1.users # <<>> /\ R.host # u
  BY <1>2, <1>3, <1>5 DEF Q
<1>6. CASE R1.users # <<>> /\ R.host = u
  <2>1. Q = IF R1.server = NoServer /\ R1.match /\ R1.stats = <<>> THEN EndGame(H, TRUE) ELSE H
    BY <1>3, <1>6 DEF UpdateHost
  <2>2. NewHost(R1) \in User
    BY <1>2, <1>6, NewHostFacts
  <2>3. /\ H \in RoomState /\ H.host = NewHost(R1) /\ H.stats = R1.stats
        /\ H.server = R1.server /\ H.match = R1.match
    BY <1>2, <2>2 DEF RoomState, ReadyStatus
  <2>4. R1.stats \in Seq(User)
    BY <1>2 DEF RoomState
  <2> HIDE DEF H
  <2>5. CASE R1.server = NoServer /\ R1.match /\ R1.stats = <<>>
    <3>1. Q.match = FALSE /\ Q.server \in {H.server, NoServer}
      BY <2>1, <2>3, <2>5, EndGameFields
    <3> QED BY <1>2, <2>3, <3>1 DEF Q
  <2>6. CASE ~(R1.server = NoServer /\ R1.match /\ R1.stats = <<>>)
    <3>1. R1.stats # <<>> => R1.stats[1] \in ToSet(R1.stats)
      BY <2>4, EmptySeq, LenProperties DEF ToSet
    <3>2. Q = H
      BY <2>1, <2>6
    <3> QED BY <1>2, <2>3, <2>6, <3>1, <3>2 DEF NewHost, Q
  <2> QED BY <2>5, <2>6
<1> QED BY <1>4, <1>5, <1>6

\* Adding a name to the kicked users changes nothing else.
LEMMA KickedFields ==
  ASSUME NEW R \in RoomState, NEW u \in User
  PROVE  LET K == [R EXCEPT !.kicked = @ \cup {u}] IN
         K \in RoomState /\ K.host = R.host /\ K.server = R.server /\ K.match = R.match
BY DEF RoomState

LEMMA RoomStepHost ==
  ASSUME NEW R \in RoomState, NEW Q, RoomStep(R, Q),
         R.match, Q.match, Q.server = NoServer, Q.host # R.host
  PROVE  Q.host \in ToSet(Q.stats)
<1>0. ToSet(R.users) \subseteq User
  BY MembersType DEF RoomState
<1>1. ASSUME NEW u \in ToSet(R.users),
             Q = RemoveUser(R, u) \/ Q = RemoveUser([R EXCEPT !.kicked = @ \cup {u}], u)
      PROVE  Q.host \in ToSet(Q.stats)
  <2> DEFINE K == [R EXCEPT !.kicked = @ \cup {u}]
  <2>1. u \in User /\ K \in RoomState /\ K.host = R.host
    BY <1>0, KickedFields
  <2> HIDE DEF K
  <2> QED BY <1>1, <2>1, RemoveUserHost DEF K
<1>2. ASSUME NEW u \in User, Q = AddUser(R, u) PROVE FALSE
  BY <1>2, AddUserFacts
<1>3. ASSUME NEW u \in ToSet(R.users), Q = SetIngame(R, {u}) PROVE FALSE
  BY <1>0, <1>3, SetIngameFacts
<1>4. ASSUME NEW u, Q = [R EXCEPT !.ready[u] = IF @ = "no" THEN "yes" ELSE "no"] PROVE FALSE
  BY <1>4 DEF RoomState
<1>5. ASSUME NEW u, Q = [R EXCEPT !.stats = Connect(@, u)] PROVE FALSE
  BY <1>5 DEF RoomState
<1>6. ASSUME NEW m, Q = [R EXCEPT !.map = m] PROVE FALSE
  BY <1>6 DEF RoomState
<1>7. ASSUME NEW forced \in BOOLEAN, Q = EndGame(R, forced) PROVE FALSE
  BY <1>7, EndGameFacts
<1>8. ASSUME Q = EndGame([R EXCEPT !.server = NoServer], TRUE) PROVE FALSE
  <2>1. [R EXCEPT !.server = NoServer] \in RoomState
    BY DEF RoomState
  <2> QED BY <1>8, <2>1, EndGameFacts
<1>9. NullRoom.match = FALSE
  BY DEF NullRoom
<1> QED BY <1>1, <1>2, <1>3, <1>4, <1>5, <1>6, <1>7, <1>8, <1>9 DEF RoomStep

\* When the host of a peer-to-peer match is replaced and the match goes on, the new host is
\* somebody playing it.
THEOREM PeerMatchHosted == Spec => PeerMatchHasHost
<1>1. Inv /\ [Next]_vars =>
        \A r \in Room : rooms[r].match /\ rooms'[r].match /\ rooms'[r].server = NoServer
                        /\ rooms'[r].host # rooms[r].host
                          => rooms'[r].host \in ToSet(rooms'[r].stats)
  BY RoomsMove, RoomStepHost DEF Inv, TypeOK
<1> QED BY <1>1, Invariance, PTL DEF Spec, PeerMatchHasHost

(***************************************************************************)
(* Dedicated servers                                                       *)
(***************************************************************************)

ServersInv ==
  /\ \A s \in Server, r \in Room : serving[s] = r <=> rooms[r].server = s
  /\ \A s \in Server : serving[s] # NoRoom => s \in ToSet(pool)
  /\ IsInjective(pool)

\* A server keeps its room, or was free, or the match of the room it leaves is over.
Held ==
  \A s \in Server : serving[s] # NoRoom /\ serving'[s] # serving[s]
    => serving'[s] = NoRoom /\ ~rooms'[serving[s]].match

\* The server that SendStartMatch picks has no room and is in the pool.
LEMMA AvailableServerFree ==
  ASSUME pool \in Seq(Server), AvailableServer # NoServer
  PROVE  serving[AvailableServer] = NoRoom /\ AvailableServer \in ToSet(pool)
<1> DEFINE Least(i) == \A j \in FreeServers : i <= j
           k == CHOOSE i \in FreeServers : Least(i)
<1>1. FreeServers # {} /\ AvailableServer = pool[k]
  BY DEF AvailableServer
<1>2. FreeServers \in SUBSET Nat
  BY LenProperties DEF FreeServers
<1>3. \E i \in FreeServers : Least(i)
  BY <1>1, <1>2, LeastElement
<1>4. k \in FreeServers
  BY <1>3
<1> HIDE DEF k
<1> QED BY <1>1, <1>4, LenProperties DEF FreeServers, ToSet

\* A handler that rewrites rooms, but neither their servers nor the pool.
LEMMA SameServers ==
  ASSUME ServersInv, UNCHANGED <<serving, pool>>,
         \A r \in Room : rooms'[r].server = rooms[r].server
  PROVE  ServersInv' /\ Held
BY DEF ServersInv, Held

LEMMA OneRoomSameServer ==
  ASSUME TypeOK, ServersInv, UNCHANGED <<serving, pool>>, NEW r \in Room, NEW Q,
         rooms' = [rooms EXCEPT ![r] = Q], Q.server = rooms[r].server
  PROVE  ServersInv' /\ Held
<1>1. \A x \in Room : rooms'[x].server = rooms[x].server
  BY DEF TypeOK
<1> QED BY <1>1, SameServers

\* Rooms may give their servers up, if their matches are over.
LEMMA GivenUp ==
  ASSUME TypeOK, ServersInv, UNCHANGED pool,
         \A r \in Room : \/ rooms'[r].server = rooms[r].server
                         \/ rooms'[r].server = NoServer /\ ~rooms'[r].match,
         serving' = [s \in Server |->
           IF \E r \in Room : s = rooms[r].server /\ rooms'[r].server = NoServer
             THEN NoRoom ELSE serving[s]]
  PROVE  ServersInv' /\ Held
<1>1. ASSUME NEW s \in Server, NEW r \in Room
      PROVE  serving'[s] = r <=> rooms'[r].server = s
  BY NullAssumption DEF ServersInv
<1>2. \A s \in Server : serving'[s] # NoRoom => s \in ToSet(pool')
  BY DEF ServersInv
<1>3. ASSUME NEW s \in Server, serving[s] # NoRoom, serving'[s] # serving[s]
      PROVE  serving'[s] = NoRoom /\ ~rooms'[serving[s]].match
  <2>1. PICK r \in Room : s = rooms[r].server /\ rooms'[r].server = NoServer
    BY <1>3
  <2>2. serving[s] = r /\ serving'[s] = NoRoom
    BY <2>1 DEF ServersInv
  <2>3. ~rooms'[r].match
    BY <2>1, NullAssumption
  <2> QED BY <2>2, <2>3
<1> QED BY <1>1, <1>2, <1>3 DEF ServersInv, Held

\* One room goes to state Q by SetRoom.
LEMMA SetRoomServers ==
  ASSUME TypeOK, ServersInv, UNCHANGED pool, NEW r \in Room, NEW Q, SetRoom(r, Q),
         Q.server \in {rooms[r].server, NoServer}, Q.server # rooms[r].server => ~Q.match
  PROVE  ServersInv' /\ Held
<1>1. \A x \in Room : rooms'[x] = IF x = r THEN Q ELSE rooms[x]
  BY DEF SetRoom, TypeOK
<1>2. \A x \in Room : \/ rooms'[x].server = rooms[x].server
                      \/ rooms'[x].server = NoServer /\ ~rooms'[x].match
  BY <1>1
<1>3. ASSUME NEW s \in Server
      PROVE  (\E x \in Room : s = rooms[x].server /\ rooms'[x].server = NoServer)
               <=> s = rooms[r].server /\ Q.server = NoServer
  BY <1>1, NullAssumption
<1>4. serving' = [s \in Server |-> IF s = rooms[r].server /\ Q.server = NoServer
                                     THEN NoRoom ELSE serving[s]]
  BY DEF SetRoom, Release
<1>5. serving' = [s \in Server |->
        IF \E x \in Room : s = rooms[x].server /\ rooms'[x].server = NoServer
          THEN NoRoom ELSE serving[s]]
  BY <1>3, <1>4
<1> QED BY <1>2, <1>5, GivenUp

LEMMA LeavingServers ==
  ASSUME Inv, ServersInv, UNCHANGED pool, NEW u \in User, LeaveCurrentRoom(u)
  PROVE  ServersInv' /\ Held
<1>1. CASE current[u] = NoRoom
  BY <1>1, SameServers DEF LeaveCurrentRoom
<1>2. CASE current[u] # NoRoom
  <2> DEFINE r == current[u]
             Q == RemoveUser(rooms[r], u)
  <2>1. r \in Room /\ rooms[r] \in RoomState
    BY <1>2, CurrentRoom
  <2>2. SetRoom(r, Q)
    BY <1>2 DEF LeaveCurrentRoom
  <2>3. Q.server \in {rooms[r].server, NoServer} /\ (Q.server # rooms[r].server => ~Q.match)
    BY <2>1, RemoveUserHost
  <2> HIDE DEF Q
  <2> QED BY <2>1, <2>2, <2>3, SetRoomServers DEF Inv
<1> QED BY <1>1, <1>2

LEMMA ToggleServers ==
  ASSUME Inv, ServersInv, UNCHANGED <<serving, pool>>, NEW u \in User, current[u] # NoRoom,
         ToggleUserReadyStatus(u, current[u])
  PROVE  ServersInv' /\ Held
<1> DEFINE r == current[u]
           Q == [rooms[r] EXCEPT !.ready[u] = IF @ = "no" THEN "yes" ELSE "no"]
<1>1. r \in Room /\ rooms[r] \in RoomState
  BY CurrentRoom
<1>2. CASE rooms' = rooms
  BY <1>2, SameServers
<1>3. CASE rooms' = [rooms EXCEPT ![r].ready[u] = IF @ = "no" THEN "yes" ELSE "no"]
  <2>1. rooms' = [rooms EXCEPT ![r] = Q]
    BY <1>1, <1>3 DEF Inv, TypeOK
  <2>2. Q.server = rooms[r].server
    BY <1>1 DEF RoomState
  <2> HIDE DEF Q
  <2> QED BY <1>1, <2>1, <2>2, OneRoomSameServer DEF Inv
<1> QED BY <1>2, <1>3 DEF ToggleUserReadyStatus

LEMMA SetIngameServer ==
  ASSUME NEW R \in RoomState, NEW us
  PROVE  SetIngame(R, us).server = R.server /\ DOMAIN SetIngame(R, us) = DOMAIN R
BY DEF SetIngame, RoomState

\* A match is started on the server the room has, or on a free one, or without.
LEMMA StartServers ==
  ASSUME Inv, ServersInv, NEW u \in User, OnGameStartRequest(u)
  PROVE  ServersInv' /\ Held
<1> DEFINE r == current[u]
<1>1. r \in Room /\ rooms[r] \in RoomState /\ pool' = pool
  BY CurrentRoom DEF OnGameStartRequest
<1>2. CASE HostStartGame(r)
  <2> DEFINE s == IF rooms[r].server = NoServer /\ ConnectingMethod # 0
                    THEN AvailableServer ELSE rooms[r].server
             Q == StartMatch(rooms[r], s)
  <2>1. /\ s \in Server \cup {NoServer}
        /\ s \in Server => s \in ToSet(pool) /\ serving[s] \in {NoRoom, r}
        /\ rooms[r].server \in Server => s = rooms[r].server
    <3>1. pool \in Seq(Server) /\ rooms[r].server \in Server \cup {NoServer}
      BY <1>1 DEF Inv, TypeOK, RoomState
    <3>2. CASE rooms[r].server = NoServer /\ ConnectingMethod # 0
      BY <3>1, <3>2, AvailableServerType, AvailableServerFree, NullAssumption
    <3>3. CASE rooms[r].server # NoServer
      <4>1. s = rooms[r].server /\ serving[s] = r
        BY <1>1, <3>1, <3>3 DEF ServersInv
      <4>2. serving[s] # NoRoom
        BY <1>1, <4>1, NullAssumption
      <4> QED BY <3>1, <3>3, <4>1, <4>2 DEF ServersInv
    <3>4. CASE rooms[r].server = NoServer /\ ConnectingMethod = 0
      BY <3>4, NullAssumption
    <3> QED BY <3>2, <3>3, <3>4
  <2>2. rooms' = [rooms EXCEPT ![r] = Q]
    BY <1>2 DEF HostStartGame
  <2>3. serving' = [t \in Server |-> IF t = s THEN r ELSE serving[t]]
    BY <1>2 DEF HostStartGame
  <2> HIDE DEF s
  <2>4. Q.server = s
    BY <1>1, SetIngameServer DEF StartMatch, RoomState
  <2> HIDE DEF Q
  <2>5. \A x \in Room : rooms'[x] = IF x = r THEN Q ELSE rooms[x]
    BY <2>2 DEF Inv, TypeOK
  <2>6. ASSUME NEW t \in Server, NEW x \in Room
        PROVE  serving'[t] = x <=> rooms'[x].server = t
    <3>1. serving[t] = x <=> rooms[x].server = t
      BY DEF ServersInv
    <3>2. rooms[r].server = t => s = t
      BY <2>1
    <3>3. CASE t = s
      <4>1. serving[t] \in {NoRoom, r} /\ serving'[t] = r
        BY <2>1, <2>3, <3>3
      <4>2. x # r => serving[t] # x
        BY <4>1, NullAssumption
      <4> QED BY <2>4, <2>5, <3>1, <3>3, <4>1, <4>2
    <3>4. CASE t # s
      <4>1. serving'[t] = serving[t]
        BY <2>3, <3>4
      <4>2. CASE x = r
        BY <2>4, <2>5, <3>1, <3>2, <3>4, <4>1, <4>2
      <4>3. CASE x # r
        BY <2>5, <3>1, <4>1, <4>3
      <4> QED BY <4>2, <4>3
    <3> QED BY <3>3, <3>4
  <2>7. \A t \in Server : serving'[t] # NoRoom => t \in ToSet(pool')
    BY <1>1, <2>1, <2>3 DEF ServersInv
  <2>8. Held
    BY <2>1, <2>3 DEF Held
  <2> QED BY <1>1, <2>6, <2>7, <2>8 DEF ServersInv
<1>3. CASE UserGameJoin(u, r)
  <2> DEFINE Q == SetIngame(rooms[r], {u})
  <2>1. rooms' = [rooms EXCEPT ![r] = Q] /\ serving' = serving
    BY <1>3 DEF UserGameJoin
  <2>2. Q.server = rooms[r].server
    BY <1>1, SetIngameServer
  <2> HIDE DEF Q
  <2> QED BY <1>1, <2>1, <2>2, OneRoomSameServer DEF Inv
<1> QED BY <1>2, <1>3 DEF OnGameStartRequest

LEMMA ServersStep == Inv /\ ServersInv /\ [Next]_vars => ServersInv' /\ Held
<1> SUFFICES ASSUME Inv, ServersInv, [Next]_vars
             PROVE  ServersInv' /\ Held
  OBVIOUS
<1>0. TypeOK
  BY DEF Inv
<1>1. ASSUME NEW u \in User, Login(u) \/ JoinChannel(u)
      PROVE  ServersInv' /\ Held
  BY <1>1, SameServers DEF Login, JoinChannel
<1>2. ASSUME NEW u \in User, Logout(u) \/ OnChannelListPacket(u) \/ OnLeaveRoomRequest(u)
      PROVE  ServersInv' /\ Held
  BY <1>2, LeavingServers DEF Logout, OnChannelListPacket, OnLeaveRoomRequest
<1>3. ASSUME NEW u \in User, NEW r \in Room, OnNewRoomRequest(u, r)
      PROVE  ServersInv' /\ Held
  <2>1. PICK c \in Capacity, m \in Map, l \in Playlist \cup {<<>>} :
          rooms' = [rooms EXCEPT ![r] =
            [NullRoom EXCEPT !.users = <<u>>, !.host = u, !.capacity = c,
                             !.map = m, !.list = l, !.index = IF l = <<>> THEN 0 ELSE 1]]
    BY <1>3 DEF OnNewRoomRequest
  <2> DEFINE Q == [NullRoom EXCEPT !.users = <<u>>, !.host = u, !.capacity = c,
                                   !.map = m, !.list = l, !.index = IF l = <<>> THEN 0 ELSE 1]
  <2>2. rooms[r] = NullRoom /\ UNCHANGED <<serving, pool>>
    BY <1>3 DEF OnNewRoomRequest, IsOpen, Inv, RoomOK
  <2>3. Q.server = rooms[r].server
    BY <2>2 DEF NullRoom
  <2>4. rooms' = [rooms EXCEPT ![r] = Q]
    BY <2>1
  <2> HIDE DEF Q
  <2> QED BY <1>0, <2>2, <2>3, <2>4, OneRoomSameServer
<1>4. ASSUME NEW u \in User, NEW r \in Room, OnJoinRoomRequest(u, r)
      PROVE  ServersInv' /\ Held
  <2> DEFINE Q == AddUser(rooms[r], u)
  <2>1. rooms' = [rooms EXCEPT ![r] = Q] /\ UNCHANGED <<serving, pool>>
    BY <1>4 DEF OnJoinRoomRequest
  <2>2. Q.server = rooms[r].server
    BY <1>0 DEF AddUser, TypeOK, RoomState
  <2> HIDE DEF Q
  <2> QED BY <1>0, <2>1, <2>2, OneRoomSameServer
<1>5. ASSUME NEW h \in User, NEW u \in User, OnRoomKickRequest(h, u)
      PROVE  ServersInv' /\ Held
  <2> DEFINE r == current[h]
             K == [rooms[r] EXCEPT !.kicked = @ \cup {u}]
             Q == RemoveUser(K, u)
  <2>1. r # NoRoom /\ SetRoom(r, Q) /\ UNCHANGED pool
    BY <1>5 DEF OnRoomKickRequest
  <2>2. r \in Room /\ rooms[r] \in RoomState
    BY <2>1, CurrentRoom
  <2>3. K \in RoomState /\ K.server = rooms[r].server
    BY <2>2, KickedFields
  <2> HIDE DEF K
  <2>4. Q.server \in {rooms[r].server, NoServer} /\ (Q.server # rooms[r].server => ~Q.match)
    BY <2>3, RemoveUserHost
  <2> HIDE DEF Q
  <2> QED BY <1>0, <2>1, <2>2, <2>4, SetRoomServers
<1>6. ASSUME NEW u \in User, OnRoomUpdateSettings(u)
      PROVE  ServersInv' /\ Held
  <2> DEFINE r == current[u]
  <2>1. r \in Room /\ rooms[r] \in RoomState /\ UNCHANGED <<serving, pool>>
    BY <1>6, CurrentRoom DEF OnRoomUpdateSettings
  <2>2. PICK c \in Capacity, S \in NewSettings(rooms[r]) :
          rooms' = [rooms EXCEPT ![r] = [S EXCEPT !.capacity = c]]
    BY <1>6 DEF OnRoomUpdateSettings
  <2> DEFINE Q == [S EXCEPT !.capacity = c]
  <2>3. S.server = rooms[r].server /\ DOMAIN S = DOMAIN rooms[r]
    BY <2>1 DEF NewSettings, RoomState
  <2>4. Q.server = rooms[r].server
    BY <2>1, <2>3 DEF RoomState
  <2>5. rooms' = [rooms EXCEPT ![r] = Q]
    BY <2>2
  <2> HIDE DEF Q
  <2> QED BY <1>0, <2>1, <2>4, <2>5, OneRoomSameServer
<1>7. ASSUME NEW u \in User,
             OnGameStartRequest(u) \/ OnToggleReadyRequest(u) \/ OnConnectionFailure(u)
      PROVE  ServersInv' /\ Held
  BY <1>7, StartServers, ToggleServers DEF OnToggleReadyRequest, OnConnectionFailure
<1>8. ASSUME NEW u \in User, NEW r \in Room, OnSetUserInventory(r, u)
      PROVE  ServersInv' /\ Held
  <2> DEFINE Q == [rooms[r] EXCEPT !.stats = Connect(@, u)]
  <2>1. rooms' = [rooms EXCEPT ![r] = Q] /\ UNCHANGED <<serving, pool>>
    BY <1>0, <1>8 DEF OnSetUserInventory, TypeOK
  <2>2. Q.server = rooms[r].server
    BY <1>0 DEF TypeOK, RoomState
  <2> HIDE DEF Q
  <2> QED BY <1>0, <2>1, <2>2, OneRoomSameServer
<1>9. ASSUME NEW r \in Room, OnGameEnd(r)
      PROVE  ServersInv' /\ Held
  <2> DEFINE Q == EndGame(rooms[r], FALSE)
  <2>1. SetRoom(r, Q) /\ UNCHANGED pool
    BY <1>9 DEF OnGameEnd
  <2>2. Q.server \in {rooms[r].server, NoServer} /\ Q.match = FALSE
    BY <1>0, EndGameFields DEF TypeOK
  <2> HIDE DEF Q
  <2> QED BY <1>0, <2>1, <2>2, SetRoomServers
<1>10. ASSUME NEW r \in Room, OnChangeMap(r)
       PROVE  ServersInv' /\ Held
  <2>1. PICK m \in Map : rooms' = [rooms EXCEPT ![r].map = m]
    BY <1>10 DEF OnChangeMap
  <2> DEFINE Q == [rooms[r] EXCEPT !.map = m]
  <2>2. Q.server = rooms[r].server /\ UNCHANGED <<serving, pool>>
    BY <1>0, <1>10 DEF OnChangeMap, TypeOK, RoomState
  <2>3. rooms' = [rooms EXCEPT ![r] = Q]
    BY <2>1
  <2> HIDE DEF Q
  <2> QED BY <1>0, <2>2, <2>3, OneRoomSameServer
<1>11. CASE EndAllGames
  <2> DEFINE End(r) == IF rooms[r].match THEN EndGame(rooms[r], TRUE) ELSE rooms[r]
  <2>1. /\ rooms' = [r \in Room |-> End(r)] /\ UNCHANGED pool
        /\ serving' = [s \in Server |->
             IF \E r \in Room : s = rooms[r].server /\ End(r).server = NoServer
               THEN NoRoom ELSE serving[s]]
    BY <1>11 DEF EndAllGames
  <2>2. ASSUME NEW r \in Room
        PROVE  \/ End(r).server = rooms[r].server
               \/ End(r).server = NoServer /\ ~End(r).match
    <3>1. CASE rooms[r].match
      <4> DEFINE Q == EndGame(rooms[r], TRUE)
      <4>1. Q.server \in {rooms[r].server, NoServer} /\ Q.match = FALSE
        BY <1>0, EndGameFields DEF TypeOK
      <4> HIDE DEF Q
      <4> QED BY <3>1, <4>1 DEF Q
    <3>2. CASE ~rooms[r].match
      BY <3>2
    <3> QED BY <3>1, <3>2
  <2> HIDE DEF End
  <2>3. \A r \in Room : rooms'[r] = End(r)
    BY <2>1
  <2>4. \A r \in Room : \/ rooms'[r].server = rooms[r].server
                        \/ rooms'[r].server = NoServer /\ ~rooms'[r].match
    BY <2>2, <2>3
  <2>5. serving' = [s \in Server |->
          IF \E r \in Room : s = rooms[r].server /\ rooms'[r].server = NoServer
            THEN NoRoom ELSE serving[s]]
    BY <2>1, <2>3
  <2> QED BY <1>0, <2>1, <2>4, <2>5, GivenUp
<1>12. ASSUME NEW s \in Server, AddServer(s)
       PROVE  ServersInv' /\ Held
  <2>1. /\ s \notin ToSet(pool) /\ pool' = Append(pool, s) /\ UNCHANGED <<rooms, serving>>
    BY <1>12 DEF AddServer
  <2>2. /\ ToSet(Append(pool, s)) = ToSet(pool) \cup {s}
        /\ IsInjective(Append(pool, s))
    BY <1>0, <2>1, AppendMembers DEF TypeOK, ServersInv
  <2> QED BY <2>1, <2>2 DEF ServersInv, Held
<1>13. ASSUME NEW s \in Server, RemoveServer(s)
       PROVE  ServersInv' /\ Held
  <2> DEFINE r == serving[s]
             R == [rooms[r] EXCEPT !.server = NoServer]
             Q == IF R.match THEN EndGame(R, TRUE) ELSE R
  <2>1. /\ pool' = Erase(pool, s) /\ serving' = [serving EXCEPT ![s] = NoRoom]
        /\ rooms' = IF r = NoRoom THEN rooms ELSE [rooms EXCEPT ![r] = Q]
    BY <1>13 DEF RemoveServer
  <2>2. ToSet(pool') = ToSet(pool) \ {s} /\ IsInjective(pool')
    BY <1>0, <2>1, EraseMembers DEF TypeOK, ServersInv
  <2>3. \A t \in Server : serving'[t] = IF t = s THEN NoRoom ELSE serving[t]
    BY <1>0, <2>1 DEF TypeOK
  <2>4. \A t \in Server : serving'[t] # NoRoom => t \in ToSet(pool')
    BY <2>2, <2>3 DEF ServersInv
  <2>5. CASE r = NoRoom
    <3>1. rooms' = rooms /\ \A t \in Server : serving'[t] = serving[t]
      BY <2>1, <2>3, <2>5
    <3> QED BY <2>2, <2>4, <3>1 DEF ServersInv, Held
  <2>6. CASE r # NoRoom
    <3>1. r \in Room /\ rooms[r] \in RoomState
      BY <1>0, <2>6 DEF TypeOK
    <3>2. R \in RoomState /\ R.server = NoServer
      BY <3>1 DEF RoomState
    <3>3. Q.server = NoServer /\ ~Q.match
      <4>1. CASE R.match
        <5> DEFINE E == EndGame(R, TRUE)
        <5> HIDE DEF R
        <5>1. E.server \in {R.server, NoServer} /\ E.match = FALSE
          BY <3>2, EndGameFields
        <5> HIDE DEF E
        <5> QED BY <3>2, <4>1, <5>1 DEF E
      <4>2. CASE ~R.match
        BY <3>2, <4>2
      <4> QED BY <4>1, <4>2
    <3>4. rooms' = [rooms EXCEPT ![r] = Q]
      BY <2>1, <2>6
    <3> HIDE DEF Q
    <3>5. \A x \in Room : rooms'[x] = IF x = r THEN Q ELSE rooms[x]
      BY <1>0, <3>4 DEF TypeOK
    <3>6. ASSUME NEW t \in Server, NEW x \in Room
          PROVE  serving'[t] = x <=> rooms'[x].server = t
      <4>1. serving[t] = x <=> rooms[x].server = t
        BY DEF ServersInv
      <4>2. rooms[r].server = s /\ NoServer # t /\ NoRoom # x
        BY <3>1, NullAssumption DEF ServersInv
      <4> QED BY <2>3, <3>3, <3>5, <4>1, <4>2
    <3>7. Held
      BY <2>3, <3>1, <3>3, <3>5 DEF Held
    <3> QED BY <2>2, <2>4, <3>6, <3>7 DEF ServersInv
  <2> QED BY <2>5, <2>6
<1>14. CASE UNCHANGED vars
  BY <1>14, SameServers DEF vars
<1> QED
  BY <1>1, <1>2, <1>3, <1>4, <1>5, <1>6, <1>7, <1>8, <1>9, <1>10, <1>11, <1>12, <1>13,
     <1>14 DEF Next

LEMMA ServersAlways == Spec => []ServersInv
<1>1. Init => ServersInv
  BY NullAssumption DEF Init, ServersInv, NullRoom, IsInjective, ToSet
<1>2. Inv /\ ServersInv /\ [Next]_vars => ServersInv'
  BY ServersStep
<1> QED BY <1>1, <1>2, Invariance, PTL DEF Spec

\* Rooms and dedicated servers point at each other and only servers of the pool are in use,
\* in every order of match starts, match ends, leaving users and closed connections.
THEOREM ServersCorrect == Spec => []ServersAgree
<1>1. ServersInv => ServersAgree
  BY DEF ServersInv, ServersAgree
<1> QED BY <1>1, ServersAlways, PTL

\* No handler takes a server from a room whose match goes on, or passes it to another room.
THEOREM ServersAreHeld == Spec => ServerHeld
<1>1. Inv /\ ServersInv /\ [Next]_vars =>
        \A s \in Server : serving[s] # NoRoom /\ serving'[s] # serving[s]
          => serving'[s] = NoRoom /\ ~rooms'[serving[s]].match
  BY ServersStep DEF Held
<1> QED BY <1>1, ServersAlways, Invariance, PTL DEF Spec, ServerHeld

(***************************************************************************)
(* Lobby implements RoomContract.  A step that leaves the room pointers    *)
(* alone may end matches (Stop), start one (Start) or change nothing the   *)
(* contract sees; a step that moves a user is Create, Enter, GuestLeaves   *)
(* or OwnerLeaves.                                                         *)
(***************************************************************************)


Owner == [r \in Room |-> rooms[r].host]
Running == [r \in Room |-> rooms[r].match]

ContractStep == [Contract!Next]_<<current, Owner, Running>>

\* The contract's occupants are the members the room lists.
LEMMA OccupantsAreMembers ==
  ASSUME Inv, NEW r \in Room
  PROVE  Contract!Occupants(r) = Members(r)
<1>1. Members(r) \subseteq User
  BY MembersType DEF Members, Inv, TypeOK, RoomState
<1> QED BY <1>1 DEF Contract!Occupants, Inv, Pointers

\* Matches end, or nothing happens.
LEMMA StopStep ==
  ASSUME Inv, UNCHANGED current,
         \A r \in Room : /\ rooms'[r].host = rooms[r].host
                         /\ rooms'[r].match \in {rooms[r].match, FALSE}
  PROVE  ContractStep
<1> DEFINE rs == {r \in Room : rooms[r].match /\ ~rooms'[r].match}
<1>1. \A r \in Room : rooms[r].match \in BOOLEAN
  BY DEF Inv, TypeOK, RoomState
<1>2. Owner' = Owner
  BY DEF Owner
<1>3. Running' = [r \in Room |-> Running[r] /\ r \notin rs]
  BY <1>1 DEF Running
<1>4. \A r \in rs : Running[r]
  BY DEF Running
<1>5. rs \in SUBSET Room
  OBVIOUS
<1> HIDE DEF rs
<1>6. \E us \in SUBSET Room : Contract!Stop(us)
  BY <1>2, <1>3, <1>4, <1>5 DEF Contract!Stop, Owner, Running
<1> QED BY <1>6 DEF Contract!Next, ContractStep

\* A room that keeps its host, and ends its match or leaves it as it was.
LEMMA OneRoomStop ==
  ASSUME Inv, UNCHANGED current, NEW r \in Room, NEW Q,
         rooms' = [rooms EXCEPT ![r] = Q],
         Q.host = rooms[r].host, Q.match \in {rooms[r].match, FALSE}
  PROVE  ContractStep
<1>1. \A x \in Room : /\ rooms'[x].host = rooms[x].host
                      /\ rooms'[x].match \in {rooms[x].match, FALSE}
  BY DEF Inv, TypeOK
<1> QED BY <1>1, StopStep

\* A member leaves his room, which goes through R (the room with a name added to its
\* kicked users, or the room itself).
LEMMA LeaveStep ==
  ASSUME Inv, NEW u \in User, current[u] # NoRoom, NEW R \in RoomState,
         R.users = rooms[current[u]].users, R.host = rooms[current[u]].host,
         R.match = rooms[current[u]].match, R.stats = rooms[current[u]].stats,
         rooms' = [rooms EXCEPT ![current[u]] = RemoveUser(R, u)],
         current' = [current EXCEPT ![u] = NoRoom]
  PROVE  ContractStep
<1> DEFINE r == current[u]
           Q == RemoveUser(R, u)
           left == Erase(R.users, u)
<1>1. /\ r \in Room /\ RoomOK(rooms[r])
      /\ u \in ToSet(R.users) /\ R.users # <<>>
  BY CurrentRoom
<1>2. RoomOK(R)
  BY <1>1, SameUsersOK, CurrentRoom
<1>3. left \in Seq(User) /\ ToSet(left) = ToSet(R.users) \ {u}
  BY <1>2, EraseType, EraseMembers DEF RoomOK, RoomState
<1>4. Contract!Occupants(r) = ToSet(R.users)
  BY <1>1, OccupantsAreMembers DEF Members
<1>5. /\ Q \in RoomState
      /\ left = <<>> => Q = NullRoom
      /\ left # <<>> => /\ Q.users = left /\ Q.match \in {R.match, FALSE}
                        /\ R.host # u => Q.host = R.host /\ Q.match = R.match
  BY RemoveUserFacts
<1>6. RoomOK(Q) /\ ToSet(Q.users) = ToSet(R.users) \ {u}
  BY <1>1, <1>2, RemoveUserOK
<1>7. R.host \in ToSet(R.users)
  BY <1>1, <1>2 DEF RoomOK
<1> HIDE DEF Q, left
<1>8. \A x \in Room : rooms'[x] = IF x = r THEN Q ELSE rooms[x]
  BY <1>1 DEF Inv, TypeOK, Q
<1>9. /\ Owner' = [Owner EXCEPT ![r] = Q.host]
      /\ Running' = [Running EXCEPT ![r] = Q.match]
  <2>1. \A x \in Room : /\ rooms'[x].host = IF x = r THEN Q.host ELSE rooms[x].host
                        /\ rooms'[x].match = IF x = r THEN Q.match ELSE rooms[x].match
    BY <1>8
  <2>2. /\ Owner' = [x \in Room |-> IF x = r THEN Q.host ELSE rooms[x].host]
        /\ Running' = [x \in Room |-> IF x = r THEN Q.match ELSE rooms[x].match]
    BY <2>1 DEF Owner, Running
  <2> QED BY <1>1, <2>2 DEF Owner, Running
<1>10. Owner[r] = R.host /\ Running[r] = R.match
  BY <1>1 DEF Owner, Running
<1>11. CASE R.host # u
  <2>1. left # <<>>
    BY <1>3, <1>7, <1>11, EmptyMembers
  <2>2. Q.host = Owner[r] /\ Q.match = Running[r]
    BY <1>5, <1>10, <1>11, <2>1
  <2>3. Owner' = Owner /\ Running' = Running
    BY <1>9, <2>2 DEF Owner, Running
  <2>4. Contract!GuestLeaves(u)
    BY <1>10, <1>11, <2>3 DEF Contract!GuestLeaves, Owner, Running
  <2> QED BY <2>4 DEF Contract!Next, ContractStep
<1>12. CASE R.host = u /\ left = <<>>
  <2>1. Q.host = NoUser /\ Q.match = FALSE
    BY <1>5, <1>12 DEF NullRoom
  <2>2. Contract!Occupants(r) = {u}
    BY <1>1, <1>3, <1>4, <1>12, EmptyMembers
  <2>3. Contract!OwnerLeaves(u)
    BY <1>9, <1>10, <1>12, <2>1, <2>2 DEF Contract!OwnerLeaves, Owner, Running
  <2> QED BY <2>3 DEF Contract!Next, ContractStep
<1>13. CASE R.host = u /\ left # <<>>
  <2>1. Q.host \in Contract!Occupants(r) \ {u} /\ Q.match \in {FALSE, Running[r]}
    BY <1>3, <1>4, <1>5, <1>6, <1>10, <1>13 DEF RoomOK
  <2>2. Contract!Occupants(r) # {u}
    BY <2>1
  <2>3. Contract!OwnerLeaves(u)
    BY <1>9, <1>10, <1>13, <2>1, <2>2 DEF Contract!OwnerLeaves, Owner, Running
  <2> QED BY <2>3 DEF Contract!Next, ContractStep
<1> QED BY <1>11, <1>12, <1>13

\* Every step of the lobby is a step of the contract or invisible to it.
LEMMA RefinementStep == Inv /\ [Next]_vars => ContractStep
<1> SUFFICES ASSUME Inv, [Next]_vars
             PROVE  ContractStep
  OBVIOUS
<1>1. ASSUME UNCHANGED <<current, rooms>>
      PROVE  ContractStep
  BY <1>1 DEF ContractStep, Owner, Running
<1>2. ASSUME NEW u \in User, LeaveCurrentRoom(u)
      PROVE  ContractStep
  <2>1. CASE current[u] = NoRoom
    BY <1>1, <1>2, <2>1 DEF LeaveCurrentRoom
  <2>2. CASE current[u] # NoRoom
    <3>1. rooms[current[u]] \in RoomState
      BY <2>2, CurrentRoom
    <3>2. /\ rooms' = [rooms EXCEPT ![current[u]] = RemoveUser(rooms[current[u]], u)]
          /\ current' = [current EXCEPT ![u] = NoRoom]
      BY <1>2, <2>2 DEF LeaveCurrentRoom, SetRoom
    <3> QED BY <2>2, <3>1, <3>2, LeaveStep
  <2> QED BY <2>1, <2>2
<1>3. ASSUME NEW u \in User, \/ Login(u) \/ Logout(u) \/ JoinChannel(u)
                             \/ OnChannelListPacket(u) \/ OnLeaveRoomRequest(u)
      PROVE  ContractStep
  BY <1>1, <1>2, <1>3
     DEF Login, Logout, JoinChannel, OnChannelListPacket, OnLeaveRoomRequest
<1>4. ASSUME NEW h \in User, NEW u \in User, OnRoomKickRequest(h, u)
      PROVE  ContractStep
  <2> DEFINE r == current[u]
             R == [rooms[r] EXCEPT !.kicked = @ \cup {u}]
  <2>1. current[h] = r /\ r # NoRoom
    BY <1>4 DEF OnRoomKickRequest
  <2>2. rooms[r] \in RoomState
    BY <2>1, CurrentRoom
  <2>3. /\ R \in RoomState /\ R.users = rooms[r].users /\ R.host = rooms[r].host
        /\ R.match = rooms[r].match /\ R.stats = rooms[r].stats
    BY <2>2 DEF RoomState
  <2>4. rooms' = [rooms EXCEPT ![r] = RemoveUser(R, u)] /\ current' = [current EXCEPT ![u] = NoRoom]
    BY <1>4, <2>1 DEF OnRoomKickRequest, SetRoom
  <2> HIDE DEF R
  <2> QED BY <2>1, <2>3, <2>4, LeaveStep
<1>5. ASSUME NEW u \in User, NEW r \in Room, OnNewRoomRequest(u, r)
      PROVE  ContractStep
  <2>1. PICK c \in Capacity, m \in Map, l \in Playlist \cup {<<>>} :
          rooms' = [rooms EXCEPT ![r] =
            [NullRoom EXCEPT !.users = <<u>>, !.host = u, !.capacity = c,
                             !.map = m, !.list = l, !.index = IF l = <<>> THEN 0 ELSE 1]]
    BY <1>5 DEF OnNewRoomRequest
  <2>2. rooms[r] = NullRoom /\ NullRoom.match = FALSE /\ NullRoom.users = <<>>
    BY <1>5 DEF OnNewRoomRequest, IsOpen, Inv, RoomOK, NullRoom
  <2>3. rooms'[r].host = u /\ rooms'[r].match = FALSE
    BY <2>1 DEF Inv, TypeOK, NullRoom
  <2>4. \A x \in Room \ {r} : rooms'[x] = rooms[x]
    BY <2>1 DEF Inv, TypeOK
  <2>5. Owner' = [Owner EXCEPT ![r] = u] /\ Running' = Running
    BY <2>2, <2>3, <2>4 DEF Owner, Running
  <2>6. Contract!Occupants(r) = {}
    BY <2>2, OccupantsAreMembers DEF Members, ToSet
  <2>7. Contract!Create(u, r)
    BY <1>5, <2>5, <2>6 DEF OnNewRoomRequest, Contract!Create, Owner, Running
  <2> QED BY <2>7 DEF Contract!Next, ContractStep
<1>6. ASSUME NEW u \in User, NEW r \in Room, OnJoinRoomRequest(u, r)
      PROVE  ContractStep
  <2>1. AddUser(rooms[r], u).host = rooms[r].host /\ AddUser(rooms[r], u).match = rooms[r].match
    BY AddUserFacts DEF Inv, TypeOK
  <2>2. \A x \in Room : rooms'[x].host = rooms[x].host /\ rooms'[x].match = rooms[x].match
    BY <1>6, <2>1 DEF OnJoinRoomRequest, Inv, TypeOK
  <2>3. Owner' = Owner /\ Running' = Running
    BY <2>2 DEF Owner, Running
  <2>4. Contract!Occupants(r) # {}
    <3>1. rooms[r].users \in Seq(User) /\ rooms[r].users # <<>>
      BY <1>6 DEF OnJoinRoomRequest, IsOpen, Inv, TypeOK, RoomState
    <3> QED BY <3>1, EmptyMembers, OccupantsAreMembers DEF Members
  <2>5. Contract!Enter(u, r)
    BY <1>6, <2>3, <2>4 DEF OnJoinRoomRequest, Contract!Enter, Owner, Running
  <2> QED BY <2>5 DEF Contract!Next, ContractStep
<1>7. ASSUME NEW u \in User, OnRoomUpdateSettings(u)
      PROVE  ContractStep
  <2>1. current[u] \in Room /\ rooms[current[u]] \in RoomState
    BY <1>7, CurrentRoom DEF OnRoomUpdateSettings
  <2>2. PICK c \in Capacity, R \in NewSettings(rooms[current[u]]) :
          rooms' = [rooms EXCEPT ![current[u]] = [R EXCEPT !.capacity = c]]
    BY <1>7 DEF OnRoomUpdateSettings
  <2> DEFINE Q == [R EXCEPT !.capacity = c]
  <2>3. Q.host = rooms[current[u]].host /\ Q.match = rooms[current[u]].match
    <3>1. \E P \in NewSettings(rooms[current[u]]), d \in Capacity : Q = [P EXCEPT !.capacity = d]
      OBVIOUS
    <3> HIDE DEF Q
    <3> QED BY <2>1, <3>1, NewSettingsKeep
  <2>4. rooms' = [rooms EXCEPT ![current[u]] = Q]
    BY <2>2
  <2> HIDE DEF Q
  <2> QED BY <1>7, <2>1, <2>3, <2>4, OneRoomStop DEF OnRoomUpdateSettings
<1>8. ASSUME NEW u \in User, OnGameStartRequest(u)
      PROVE  ContractStep
  <2> DEFINE r == current[u]
  <2>1. /\ r \in Room /\ rooms[r] \in RoomState /\ RoomOK(rooms[r])
        /\ u \in ToSet(rooms[r].users) /\ rooms[r].users # <<>>
    BY <1>8, CurrentRoom DEF OnGameStartRequest
  <2>2. CASE rooms[r].host = u /\ HostStartGame(r)
    <3> DEFINE s == IF rooms[r].server = NoServer /\ ConnectingMethod # 0
                      THEN AvailableServer ELSE rooms[r].server
               Q == StartMatch(rooms[r], s)
    <3>1. s \in Server \cup {NoServer}
      BY <2>1, AvailableServerType DEF Inv, TypeOK, RoomState
    <3>2. Q.host = rooms[r].host /\ Q.match = TRUE
      <4>1. rooms[r].host \in User
        BY <2>2
      <4> HIDE DEF s
      <4> QED BY <2>1, <3>1, <4>1, StartMatchFacts
    <3>3. rooms' = [rooms EXCEPT ![r] = Q] /\ ~rooms[r].match
      BY <2>2 DEF HostStartGame
    <3> HIDE DEF Q
    <3>4. \A x \in Room : rooms'[x] = IF x = r THEN Q ELSE rooms[x]
      BY <2>1, <3>3 DEF Inv, TypeOK
    <3>5. Owner' = Owner
      BY <3>2, <3>4 DEF Owner
    <3>6. Running' = [Running EXCEPT ![r] = TRUE] /\ ~Running[r]
      <4>1. \A x \in Room : rooms'[x].match = IF x = r THEN TRUE ELSE rooms[x].match
        BY <3>2, <3>4
      <4>2. Running' = [x \in Room |-> IF x = r THEN TRUE ELSE rooms[x].match]
        BY <4>1 DEF Running
      <4> QED BY <2>1, <3>3, <4>2 DEF Running
    <3>7. Contract!Occupants(r) # {}
      BY <2>1, OccupantsAreMembers DEF Members
    <3>8. \E x \in Room : Contract!Start(x)
      BY <1>8, <2>1, <3>5, <3>6, <3>7
      DEF OnGameStartRequest, Contract!Start, Owner, Running
    <3> QED BY <3>8 DEF Contract!Next, ContractStep
  <2>3. CASE UserGameJoin(u, r)
    <3> DEFINE Q == SetIngame(rooms[r], {u})
    <3>1. Q.host = rooms[r].host /\ Q.match = rooms[r].match
      BY <2>1, SetIngameFacts
    <3>2. rooms' = [rooms EXCEPT ![r] = Q]
      BY <2>3 DEF UserGameJoin
    <3> HIDE DEF Q
    <3> QED BY <1>8, <2>1, <3>1, <3>2, OneRoomStop DEF OnGameStartRequest
  <2> QED BY <1>8, <2>2, <2>3 DEF OnGameStartRequest
<1>9. ASSUME NEW u \in User, current[u] # NoRoom, ToggleUserReadyStatus(u, current[u]),
             UNCHANGED current
      PROVE  ContractStep
  <2> DEFINE r == current[u]
             Q == [rooms[r] EXCEPT !.ready[u] = IF @ = "no" THEN "yes" ELSE "no"]
  <2>1. r \in Room /\ rooms[r] \in RoomState
    BY <1>9, CurrentRoom
  <2>2. CASE UNCHANGED rooms
    BY <1>1, <1>9, <2>2
  <2>3. CASE rooms' = [rooms EXCEPT ![r].ready[u] = IF @ = "no" THEN "yes" ELSE "no"]
    <3>1. Q.host = rooms[r].host /\ Q.match = rooms[r].match
      BY <2>1 DEF RoomState
    <3>2. rooms' = [rooms EXCEPT ![r] = Q]
      BY <2>1, <2>3 DEF Inv, TypeOK
    <3> HIDE DEF Q
    <3> QED BY <1>9, <2>1, <3>1, <3>2, OneRoomStop
  <2> QED BY <1>9, <2>2, <2>3 DEF ToggleUserReadyStatus
<1>10. ASSUME NEW u \in User, OnToggleReadyRequest(u) \/ OnConnectionFailure(u)
       PROVE  ContractStep
  BY <1>8, <1>9, <1>10 DEF OnToggleReadyRequest, OnConnectionFailure
<1>11. ASSUME NEW r \in Room, UNCHANGED current,
              \/ \E u \in User : OnSetUserInventory(r, u)
              \/ OnGameEnd(r) \/ OnChangeMap(r)
       PROVE  ContractStep
  <2>1. rooms[r] \in RoomState
    BY DEF Inv, TypeOK
  <2>2. CASE \E u \in User : OnSetUserInventory(r, u)
    <3>1. PICK u \in User : OnSetUserInventory(r, u)
      BY <2>2
    <3>2. \A x \in Room : rooms'[x].host = rooms[x].host /\ rooms'[x].match = rooms[x].match
      BY <2>1, <3>1 DEF OnSetUserInventory, Connect, Inv, TypeOK, RoomState
    <3> QED BY <1>11, <3>2, StopStep
  <2>3. CASE OnGameEnd(r)
    <3>1. EndGame(rooms[r], FALSE).host = rooms[r].host /\ EndGame(rooms[r], FALSE).match = FALSE
      BY <2>1, EndGameFacts
    <3>2. rooms' = [rooms EXCEPT ![r] = EndGame(rooms[r], FALSE)]
      BY <2>3 DEF OnGameEnd, SetRoom
    <3> QED BY <1>11, <3>1, <3>2, OneRoomStop
  <2>4. CASE OnChangeMap(r)
    <3>1. \A x \in Room : rooms'[x].host = rooms[x].host /\ rooms'[x].match = rooms[x].match
      BY <2>1, <2>4 DEF OnChangeMap, Inv, TypeOK, RoomState
    <3> QED BY <1>11, <3>1, StopStep
  <2> QED BY <1>11, <2>2, <2>3, <2>4
<1>12. ASSUME EndAllGames
       PROVE  ContractStep
  <2> DEFINE End(r) == IF rooms[r].match THEN EndGame(rooms[r], TRUE) ELSE rooms[r]
  <2>1. \A r \in Room : End(r).host = rooms[r].host /\ End(r).match \in {rooms[r].match, FALSE}
    BY EndGameFacts DEF Inv, TypeOK
  <2>2. rooms' = [r \in Room |-> End(r)]
    BY <1>12 DEF EndAllGames
  <2> HIDE DEF End
  <2>3. \A r \in Room : /\ rooms'[r].host = rooms[r].host
                        /\ rooms'[r].match \in {rooms[r].match, FALSE}
    BY <2>1, <2>2
  <2> QED BY <1>12, <2>3, StopStep DEF EndAllGames
<1>13. ASSUME NEW s \in Server, RemoveServer(s)
       PROVE  ContractStep
  <2> DEFINE r == serving[s]
             R == [rooms[r] EXCEPT !.server = NoServer]
             Q == IF R.match THEN EndGame(R, TRUE) ELSE R
  <2>1. CASE r = NoRoom
    BY <1>1, <1>13, <2>1 DEF RemoveServer
  <2>2. CASE r # NoRoom
    <3>1. r \in Room /\ rooms[r] \in RoomState
      BY <2>2 DEF Inv, TypeOK
    <3>2. R \in RoomState /\ R.host = rooms[r].host /\ R.match = rooms[r].match
      BY <3>1 DEF RoomState
    <3>3. rooms' = [rooms EXCEPT ![r] = Q]
      BY <1>13, <2>2 DEF RemoveServer
    <3> HIDE DEF R
    <3>4. EndGame(R, TRUE).host = R.host /\ EndGame(R, TRUE).match = FALSE
      BY <3>2, EndGameFacts
    <3>5. Q.host = rooms[r].host /\ Q.match \in {rooms[r].match, FALSE}
      BY <3>2, <3>4
    <3> HIDE DEF Q
    <3> QED BY <1>13, <3>1, <3>3, <3>5, OneRoomStop DEF RemoveServer
  <2> QED BY <2>1, <2>2
<1>14. ASSUME \/ \E s \in Server : AddServer(s)
              \/ UNCHANGED vars
       PROVE  ContractStep
  BY <1>1, <1>14 DEF AddServer, vars
<1>15. \A r \in Room : OnGameEnd(r) \/ OnChangeMap(r) \/ (\E u \in User : OnSetUserInventory(r, u))
         => UNCHANGED current
  BY DEF OnGameEnd, OnChangeMap, OnSetUserInventory, Connect
<1> QED
  BY <1>3, <1>4, <1>5, <1>6, <1>7, <1>8, <1>10, <1>11, <1>12, <1>13, <1>14, <1>15 DEF Next

\* The lobby implements RoomContract: whatever it does to channels, servers, settings
\* and ready flags, users see rooms that are created, entered and left one at a time,
\* whose owner is inside, and whose matches start and end.
THEOREM ContractImplemented == Spec => ImplementsContract
<1>1. Init => Contract!Init
  BY DEF Init, Contract!Init, NullRoom
<1>2. Inv /\ [Next]_vars => [Contract!Next]_Contract!cvars
  BY RefinementStep DEF ContractStep, Contract!cvars, Owner, Running
<1> QED BY <1>1, <1>2, Invariance, PTL DEF Spec, ImplementsContract, Contract!Spec
=============================================================================
