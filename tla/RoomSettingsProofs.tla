-------------------------- MODULE RoomSettingsProofs --------------------------
(***************************************************************************)
(* Theorems about RoomSettings, for any users, clans, modes, maps and      *)
(* blocks a host may send: the two clans of a family battle, the sides of  *)
(* their users, and the rules a room plays by.                             *)
(*                                                                         *)
(* The two IDs of a room are not simply the clans of its users: the second *)
(* is free until an opponent comes, a clan whose last user leaves is       *)
(* forgotten, and when the host hands over to a user of his own clan the   *)
(* ID of that clan is in both places, with the opponents still there.      *)
(***************************************************************************)
EXTENDS RoomSettings, SequenceTheorems, FiniteSetTheorems, TLAPS

(***************************************************************************)
(* Fields                                                                  *)
(***************************************************************************)

BattleField == {"family", "id1", "id2"}
Apart(b) == DOMAIN b \cap BattleField = {}

\* The clans of a battle come with the decision whether there is one.
Decided(b) == "family" \notin DOMAIN b => Apart(b)

LEMMA WithFacts ==
  ASSUME NEW u, NEW v
  PROVE  /\ DOMAIN With(u, v) = DOMAIN u \cup DOMAIN v
         /\ \A f \in DOMAIN v : With(u, v)[f] = v[f]
         /\ \A f \in DOMAIN u \ DOMAIN v : With(u, v)[f] = u[f]
BY DEF With

\* The same for one field.
LEMMA WithField ==
  ASSUME NEW u, NEW v, NEW f
  PROVE  /\ f \in DOMAIN v => f \in DOMAIN With(u, v) /\ With(u, v)[f] = v[f]
         /\ f \in DOMAIN u /\ f \notin DOMAIN v => f \in DOMAIN With(u, v) /\ With(u, v)[f] = u[f]
BY DEF With

LEMMA RestrictedDomains ==
  ASSUME NEW u, NEW F
  PROVE  DOMAIN Without(u, F) = DOMAIN u \ F /\ DOMAIN OfRoom(u) \subseteq DOMAIN u
BY DEF Without, OfRoom, Restrict

LEMMA DecidedWith ==
  ASSUME NEW u, NEW v, Decided(u), Decided(v)
  PROVE  Decided(With(u, v))
BY WithFacts DEF Decided, Apart, BattleField

LEMMA DecidedWithout ==
  ASSUME NEW u, NEW F, Decided(u), "family" \notin F
  PROVE  Decided(Without(u, F))
<1>1. DOMAIN Without(u, F) = DOMAIN u \ F
  BY RestrictedDomains
<1> QED BY <1>1 DEF Decided, Apart, BattleField

LEMMA ApartIsDecided == ASSUME NEW u, Apart(u) PROVE Decided(u)
BY DEF Decided

LEMMA OfRoomApart == ASSUME NEW u, Apart(u) PROVE Apart(OfRoom(u))
BY RestrictedDomains DEF Apart

\* What a mode, a battle and a competitive match bring leaves the clans alone.
LEMMA DefaultsApart ==
  ASSUME NEW m, NEW rules \in SUBSET Rule
  PROVE  Apart(Defaults(m, rules))
<1>1. DOMAIN Defaults(m, rules) = rules \cup Limit
  BY DEF Defaults
<1>2. Rule \cap BattleField = {}
  BY RuleAssumption DEF Free, BattleField
<1>3. Limit \cap BattleField = {}
  BY RoomAssumption DEF Limits, BattleField
<1> QED BY <1>1, <1>2, <1>3 DEF Apart

LEMMA BattleApart == ASSUME NEW m PROVE Apart(Battle(m))
<1> DEFINE base == [players |-> 10, gameTime |-> 150, buyTime |-> 20, teamBalance |-> 0, friendlyFire |-> 0]
           own == CASE m = 0 -> [winLimit |-> 8, roundTime |-> 2, startingCash |-> 800,
                                 enhanceRestrict |-> 1, leagueRule |-> 0, teamSwitch |-> 1,
                                 floatingDamageSkin |-> 0]
                    [] m = 2 -> [killLimit |-> 80, integratedTeam |-> 1, floatingDamageSkin |-> 0]
                    [] m = 32 -> [winLimit |-> 5, roundTime |-> 2, leagueRule |-> 0, zbRespawn |-> 0, zbBalance |-> 0]
                    [] m = 40 -> [killLimit |-> 120, gameRule |-> 0]
                    [] m = 56 -> [buyTime |-> 60, zbBalance |-> 0, integratedTeam |-> 1]
                    [] m = 57 -> [killLimit |-> 120, buyTime |-> 60, integratedTeam |-> 1]
                    [] OTHER -> [players |-> 10]
<1>1. Battle(m) = OfRoom(With(base, own))
  BY DEF Battle
<1>2. Apart(base)
  BY DEF Apart, BattleField
<1>3. Apart(own)
  <2>1. CASE m = 0
    BY <2>1 DEF Apart, BattleField
  <2>2. CASE m = 2
    BY <2>2 DEF Apart, BattleField
  <2>3. CASE m = 32
    BY <2>3 DEF Apart, BattleField
  <2>4. CASE m = 40
    BY <2>4 DEF Apart, BattleField
  <2>5. CASE m = 56
    BY <2>5 DEF Apart, BattleField
  <2>6. CASE m = 57
    BY <2>6 DEF Apart, BattleField
  <2>7. CASE m \notin {0, 2, 32, 40, 56, 57}
    <3>1. own = [players |-> 10]
      BY <2>7
    <3> QED BY <3>1 DEF Apart, BattleField
  <2> QED BY <2>1, <2>2, <2>3, <2>4, <2>5, <2>6, <2>7
<1> HIDE DEF base, own
<1>4. Apart(With(base, own))
  BY <1>2, <1>3, WithFacts DEF Apart
<1> QED BY <1>1, <1>4, OfRoomApart

LEMMA ZbCompetitiveApart == ASSUME NEW m PROVE Apart(ZbCompetitive(m))
<1> DEFINE own == [winLimit |-> IF m = 14 THEN 7 ELSE 13, gameTime |-> 150, roundTime |-> 3, buyTime |-> 90,
                   startingCash |-> Usual["startingCash"][m], teamBalance |-> 1, friendlyFire |-> 0,
                   enhanceRestrict |-> 0, zbLimitFlag |-> 0, zbRespawn |-> 1, zbBalance |-> 1, fireBomb |-> 1]
<1>1. Apart(own)
  BY DEF Apart, BattleField
<1>2. ZbCompetitive(m) = OfRoom(own)
  BY DEF ZbCompetitive
<1> QED BY <1>1, <1>2, OfRoomApart

(***************************************************************************)
(* Blocks                                                                  *)
(***************************************************************************)

\* Whatever a host sends, what is left of it names the clans of a battle only together with
\* the battle.
LEMMA LoadedDecided ==
  ASSUME NEW b, DOMAIN b \cap {"id1", "id2"} = {}, NEW m, NEW map
  PROVE  Decided(LoadNewSettings(b, m, map))
<1>2. Decided(b)
  BY DEF Decided, Apart, BattleField
<1>3. Decided(NoBattle)
  BY DEF Decided, NoBattle
<1>4. Decided(OfMode(b, m, map))
  <2> DEFINE own == With(b, Defaults(m, Rule \ Lasting))
             sized == IF map = Studio THEN own ELSE With(own, [players |-> ModeMax[m]])
  <2>1. Decided(own)
    BY <1>2, DefaultsApart, ApartIsDecided, DecidedWith
  <2>2. Decided([players |-> ModeMax[m]])
    BY DEF Decided, Apart, BattleField
  <2> HIDE DEF own
  <2>3. Decided(sized)
    BY <2>1, <2>2, DecidedWith
  <2> HIDE DEF sized
  <2>4. OfMode(b, m, map) = IF m \in BattleModes THEN sized ELSE With(sized, NoBattle)
    BY DEF OfMode, sized, own
  <2> QED BY <1>3, <2>3, <2>4, DecidedWith
<1>5. Decided(Battling(Validated(b, m), m))
  <2> DEFINE v == Validated(b, m)
             off == OfRoom(IF m = 0 THEN [enhanceRestrict |-> 0] ELSE <<>>)
  <2>1. DOMAIN v \subseteq DOMAIN b
    BY DEF Validated
  <2>2. Decided(v)
    BY <2>1 DEF Decided, Apart, BattleField
  <2>3. Decided(With(v, Battle(m)))
    BY <2>2, BattleApart, ApartIsDecided, DecidedWith
  <2>4. Decided(off)
    <3>1. Apart(IF m = 0 THEN [enhanceRestrict |-> 0] ELSE <<>>)
      BY DEF Apart, BattleField
    <3> QED BY <3>1, OfRoomApart, ApartIsDecided
  <2> HIDE DEF v, off
  <2>5. Decided(With(With(v, NoBattle), off))
    BY <1>3, <2>2, <2>4, DecidedWith
  <2>6. Battling(v, m) = CASE "family" \notin DOMAIN v -> v
                           [] "family" \in DOMAIN v /\ v.family = 1 -> With(v, Battle(m))
                           [] OTHER -> With(With(v, NoBattle), off)
    BY DEF Battling, off
  <2> QED BY <2>2, <2>3, <2>5, <2>6 DEF v
<1>6. ASSUME NEW c, Decided(c) PROVE Decided(OnMap(c, m, map))
  <2> DEFINE sized == IF map = Studio THEN c ELSE With(c, [players |-> MapMax[map]])
             set == With(sized, [competitive |-> map = Competitive])
  <2>1. Decided([players |-> MapMax[map]]) /\ Decided([competitive |-> map = Competitive])
    BY DEF Decided, Apart, BattleField
  <2>2. Decided(sized)
    BY <1>6, <2>1, DecidedWith
  <2> HIDE DEF sized
  <2>3. Decided(set)
    BY <2>1, <2>2, DecidedWith
  <2> HIDE DEF set
  <2>4. Decided(With(set, ZbCompetitive(m)))
    BY <2>3, ZbCompetitiveApart, ApartIsDecided, DecidedWith
  <2>5. Decided([c EXCEPT !.players = MapMax[map]])
    BY <1>6 DEF Decided, Apart
  <2>6. OnMap(c, m, map) \in {With(set, ZbCompetitive(m)), set, [c EXCEPT !.players = MapMax[map]], c}
    BY DEF OnMap, set, sized
  <2> QED BY <1>6, <2>3, <2>4, <2>5, <2>6
<1>7. ASSUME NEW c, Decided(c) PROVE Decided(Selected(c, m, map))
  <2> DEFINE drawn == IF "randomMap" \in DOMAIN c /\ ~Legal("randomMap", m, c.randomMap)
                      THEN Without(c, {"randomMap"}) ELSE c
             cut == Without(drawn, {"map", "playlist"})
             kept == "playlist" \in DOMAIN c => PlaylistAllowed(c.playlist, m, map)
             first == IF "playlist" \in DOMAIN c /\ ListShaped(c.playlist, m, map)
                      THEN [index |-> 1] ELSE <<>>
             left == IF kept THEN drawn ELSE cut
             listed == With(left, first)
  <2>1. Decided(first) /\ Decided([playlist |-> <<>>])
    BY DEF Decided, Apart, BattleField
  <2> HIDE DEF first
  <2>2. Decided(drawn)
    BY <1>7, DecidedWithout
  <2> HIDE DEF drawn
  <2>3. Decided(cut)
    BY <2>2, DecidedWithout
  <2> HIDE DEF cut
  <2>4. Decided(left)
    BY <2>2, <2>3
  <2> HIDE DEF left
  <2>5. Decided(listed)
    BY <2>1, <2>4, DecidedWith
  <2> HIDE DEF listed
  <2>6. Selected(c, m, map) = IF "map" \in DOMAIN listed /\ "playlist" \notin DOMAIN c
                              THEN With(listed, [playlist |-> <<>>]) ELSE listed
    BY DEF Selected, listed, left, first, cut, drawn
  <2> QED BY <2>1, <2>5, <2>6, DecidedWith
<1> QED BY <1>4, <1>5, <1>6, <1>7 DEF LoadNewSettings

LEMMA CheckedDecided ==
  ASSUME NEW b
  PROVE  Decided(CheckNewSettings(b))
<1> DEFINE loaded == LoadNewSettings(Received(b), ModeOf(b), MapOf(b))
<1>1. Decided(loaded)
  <2>1. DOMAIN Received(b) \cap {"id1", "id2"} = {}
    <3>1. Received(b) = Without(b, {"index", "competitive", "id1", "id2"})
      BY DEF Received
    <3>2. DOMAIN Received(b) = DOMAIN b \ {"index", "competitive", "id1", "id2"}
      BY <3>1, RestrictedDomains
    <3> QED BY <3>2
  <2> QED BY <2>1, LoadedDecided
<1> HIDE DEF loaded
<1>2. Decided(With(loaded, Battle(ModeOf(b))))
  BY <1>1, BattleApart, ApartIsDecided, DecidedWith
<1>3. Decided(WinLimit(loaded))
  <2>1. Decided([winLimit |-> Usual["winLimit"][settings.mode]])
    BY DEF Decided, Apart, BattleField
  <2>2. Decided(With(loaded, [winLimit |-> Usual["winLimit"][settings.mode]]))
    BY <1>1, <2>1, DecidedWith
  <2>3. Decided(Without(loaded, {"winLimit"}))
    BY <1>1, DecidedWithout
  <2>4. WinLimit(loaded) \in {loaded, With(loaded, [winLimit |-> Usual["winLimit"][settings.mode]]),
                              Without(loaded, {"winLimit"})}
    BY DEF WinLimit
  <2> QED BY <1>1, <2>2, <2>3, <2>4
<1>4. Decided(Bombs(WinLimit(loaded)))
  <2> DEFINE w == WinLimit(loaded)
             F == {f \in DOMAIN w :
                     \/ f = "zbLimitFlag" /\ settings.mode # 9 /\ w[f] = 1 /\ "fireBomb" \in Rule /\ settings.fireBomb = 0
                     \/ f = "fireBomb" /\ w[f] = 0 /\ "zbLimitFlag" \in Rule /\ settings.zbLimitFlag = 1}
  <2>1. Bombs(w) = Without(w, F) /\ "family" \notin F
    BY DEF Bombs
  <2> QED BY <1>3, <2>1, DecidedWithout
<1>5. CheckNewSettings(b) \in {Bombs(WinLimit(loaded)), With(loaded, Battle(ModeOf(b))), loaded}
  BY DEF CheckNewSettings, loaded
<1> QED BY <1>1, <1>2, <1>4, <1>5

(***************************************************************************)
(* The clans of a battle                                                   *)
(***************************************************************************)

BattleOK(s, M, h) ==
  s.family = 1 =>
    /\ \A u \in M : clan[u] # NoClan
    /\ s.id1 = clan[h]
    /\ \/ s.id2 = NoClan /\ ClansOf(M) \subseteq {s.id1}
       \/ s.id2 # NoClan /\ ClansOf(M) \subseteq {s.id1, s.id2}
       \/ s.id2 # NoClan /\ s.id2 = s.id1 /\ \E c : ClansOf(M) \subseteq {s.id1, c}

BattleInv ==
  /\ users \in Seq(User)
  /\ team \in [User -> {"T", "CT"}]
  /\ IsRoom => /\ host \in Members
               /\ BattleField \subseteq DOMAIN settings
               /\ BattleOK(settings, Members, host)
  /\ ~IsRoom => users = <<>>

\* The sides stay in this step.
SidesKept ==
  IsRoom /\ settings.family = 1 /\ SidesAreClans /\ settings'.family = 1 => SidesAreClans'

LEMMA MembersAreUsers ==
  ASSUME BattleInv
  PROVE  Members \subseteq User /\ (users = <<>> <=> Members = {})
<1>1. users \in Seq(User) /\ DOMAIN users = 1..Len(users) /\ Len(users) \in Nat
  BY LenProperties DEF BattleInv
<1>2. Members = {users[i] : i \in DOMAIN users}
  BY DEF Members, Range
<1>3. \A i \in DOMAIN users : users[i] \in User
  BY <1>1, ElementOfSeq
<1>4. users = <<>> <=> Len(users) = 0
  BY <1>1
<1> QED BY <1>1, <1>2, <1>3, <1>4

SameBattle(s, t) ==
  /\ BattleField \subseteq DOMAIN t
  /\ t.family = s.family /\ t.id1 = s.id1 /\ t.id2 = s.id2

LEMMA SameBattleOK ==
  ASSUME NEW s, NEW t, SameBattle(s, t), NEW M, NEW h, BattleOK(s, M, h)
  PROVE  BattleOK(t, M, h)
BY DEF SameBattle, BattleOK

\* The next map leaves the battle alone.
LEMMA AdvancedBattle ==
  ASSUME NEW s, BattleField \subseteq DOMAIN s, NEW forced
  PROVE  SameBattle(s, Advanced(s, forced))
<1> DEFINE moved(n) == [s EXCEPT !.map = s.playlist[n], !.index = n]
<1>1. \A n : SameBattle(s, moved(n))
  BY DEF SameBattle, BattleField
<1>2. SameBattle(s, s)
  BY DEF SameBattle
<1>3. \E n : Advanced(s, forced) \in {s, moved(n)}
  BY DEF Advanced
<1> QED BY <1>1, <1>2, <1>3

\* Who takes over brings his clan to the first place.
LEMMA SucceedFields ==
  ASSUME NEW s, BattleField \subseteq DOMAIN s, NEW u
  PROVE  /\ DOMAIN Succeed(s, u) = DOMAIN s
         /\ Succeed(s, u).family = s.family
         /\ s.family = 1 /\ clan[u] # NoClan => Succeed(s, u).id1 = clan[u] /\ Succeed(s, u).id2 = s.id1
BY DEF Succeed, BattleField

LEMMA SuccessorOK ==
  ASSUME NEW s, BattleField \subseteq DOMAIN s, NEW M, NEW g \in M, BattleOK(s, M, g),
         NEW left \in SUBSET M, NEW h \in left
  PROVE  BattleOK(Succeed(s, h), left, h)
<1> SUFFICES ASSUME s.family = 1 PROVE BattleOK(Succeed(s, h), left, h)
  BY SucceedFields DEF BattleOK
<1>1. clan[h] # NoClan /\ \A u \in left : clan[u] # NoClan
  BY DEF BattleOK
<1>2. /\ Succeed(s, h).family = 1 /\ Succeed(s, h).id1 = clan[h] /\ Succeed(s, h).id2 = s.id1
      /\ s.id1 # NoClan
  BY <1>1, SucceedFields DEF BattleOK
<1>3. ClansOf(left) \subseteq ClansOf(M) /\ clan[h] \in ClansOf(M)
  BY DEF ClansOf
<1>4. \/ ClansOf(M) \subseteq {s.id1}
      \/ ClansOf(M) \subseteq {s.id1, s.id2}
      \/ \E c : ClansOf(M) \subseteq {s.id1, c}
  BY DEF BattleOK
<1>5. PICK c : ClansOf(M) \subseteq {s.id1, c}
  BY <1>4
<1>6. CASE clan[h] = s.id1
  <2>1. ClansOf(left) \subseteq {clan[h], c}
    BY <1>3, <1>5, <1>6
  <2> QED BY <1>1, <1>2, <1>6, <2>1 DEF BattleOK
<1>7. CASE clan[h] # s.id1
  <2>1. ClansOf(left) \subseteq {clan[h], s.id1}
    BY <1>3, <1>5, <1>7
  <2> QED BY <1>1, <1>2, <2>1 DEF BattleOK
<1> QED BY <1>6, <1>7

LEMMA PrimedOK ==
  ASSUME NEW s, NEW M, NEW h, BattleOK(s, M, h),
         clan' = clan, settings' = s, Members' = M, host' = h
  PROVE  BattleOK(settings, Members, host)'
<1>1. ClansOf(Members)' = ClansOf(M)
  BY DEF ClansOf
<1> QED BY <1>1 DEF BattleOK

\* Fewer users are no more clans.
LEMMA FewerOK ==
  ASSUME NEW s, NEW M, NEW h, BattleOK(s, M, h), NEW left \in SUBSET M
  PROVE  BattleOK(s, left, h)
<1>1. ClansOf(left) \subseteq ClansOf(M)
  BY DEF ClansOf
<1> QED BY <1>1 DEF BattleOK

\* When the last of a clan leaves, its place is free; the others are of the other clan.
LEMMA ForgetOK ==
  ASSUME BattleInv, IsRoom, NEW u \in Members
  PROVE  /\ BattleField \subseteq DOMAIN Forget(u)
         /\ u # host => BattleOK(Forget(u), Members \ {u}, host)
         /\ u = host => \A h \in Members \ {u} : BattleOK(Succeed(Forget(u), h), Members \ {u}, h)
<1> DEFINE M == Members
           L == Members \ {u}
<1>1. /\ host \in M /\ BattleField \subseteq DOMAIN settings /\ BattleOK(settings, M, host)
  BY DEF BattleInv
<1>2. L \in SUBSET M
  OBVIOUS
<1> HIDE DEF M
<1>3. CASE Forget(u) = settings
  <2>1. BattleOK(settings, L, host)
    BY <1>1, <1>2, FewerOK
  <2>2. \A h \in L : BattleOK(Succeed(settings, h), L, h)
    BY <1>1, <1>2, SuccessorOK
  <2> QED BY <1>1, <1>3, <2>1, <2>2
<1>4. CASE Forget(u) # settings
  <2>1. /\ settings.family = 1 => clan[u] # NoClan /\ clan[u] \notin ClansOf(L)
        /\ settings.family # 0 /\ clan[u] # NoClan /\ clan[u] \notin ClansOf(L)
        /\ \/ settings.id1 = clan[u] /\ Forget(u) = [settings EXCEPT !.id1 = NoClan]
           \/ /\ settings.id1 # clan[u] /\ settings.id2 = clan[u]
              /\ Forget(u) = [settings EXCEPT !.id2 = NoClan]
    <3>1. \/ Forget(u) = settings
          \/ /\ settings.family # 0 /\ clan[u] # NoClan /\ clan[u] \notin ClansOf(L)
             /\ settings.id1 = clan[u] /\ Forget(u) = [settings EXCEPT !.id1 = NoClan]
          \/ /\ settings.family # 0 /\ clan[u] # NoClan /\ clan[u] \notin ClansOf(L)
             /\ settings.id1 # clan[u] /\ settings.id2 = clan[u]
             /\ Forget(u) = [settings EXCEPT !.id2 = NoClan]
      BY DEF Forget, M
    <3> QED BY <1>4, <3>1
  <2>2. BattleField \subseteq DOMAIN Forget(u) /\ Forget(u).family = settings.family
    BY <1>1, <2>1 DEF BattleField
  <2>3. CASE settings.family # 1
    BY <2>2, <2>3, SucceedFields DEF BattleOK
  <2>4. CASE settings.family = 1
    <3>1. /\ \A v \in M : clan[v] # NoClan
          /\ settings.id1 = clan[host]
          /\ \/ settings.id2 = NoClan /\ ClansOf(M) \subseteq {settings.id1}
             \/ settings.id2 # NoClan /\ ClansOf(M) \subseteq {settings.id1, settings.id2}
             \/ settings.id2 # NoClan /\ settings.id2 = settings.id1 /\ \E c : ClansOf(M) \subseteq {settings.id1, c}
      BY <1>1, <2>4 DEF BattleOK
    <3>2. ClansOf(L) \subseteq ClansOf(M) \ {clan[u]}
      BY <1>2, <2>1 DEF ClansOf
    <3>3. ASSUME settings.id1 = clan[u], Forget(u) = [settings EXCEPT !.id1 = NoClan]
          PROVE  /\ u = host
                 /\ \A h \in L : BattleOK(Succeed(Forget(u), h), L, h)
      <4>1. u = host
        <5>1. host \in L => clan[host] \in ClansOf(L)
          BY DEF ClansOf
        <5> QED BY <1>1, <2>1, <3>1, <3>3, <5>1 DEF M
      <4>2. SUFFICES ASSUME NEW h \in L PROVE BattleOK(Succeed(Forget(u), h), L, h)
        BY <4>1
      <4>3. Forget(u).id1 = NoClan
        BY <1>1, <3>3 DEF BattleField
      <4>4. /\ Succeed(Forget(u), h).family = 1
            /\ Succeed(Forget(u), h).id1 = clan[h] /\ Succeed(Forget(u), h).id2 = NoClan
        BY <1>2, <2>2, <2>4, <3>1, <4>3, SucceedFields
      <4>5. clan[h] \in ClansOf(L)
        BY DEF ClansOf
      <4>6. ClansOf(L) \subseteq {clan[h]}
        BY <3>1, <3>2, <3>3, <4>5
      <4> QED BY <1>2, <3>1, <4>4, <4>6 DEF BattleOK
    <3>4. ASSUME settings.id1 # clan[u], settings.id2 = clan[u], Forget(u) = [settings EXCEPT !.id2 = NoClan]
          PROVE  u # host /\ BattleOK(Forget(u), L, host)
      <4>1. u # host
        BY <3>1, <3>4
      <4>2. Forget(u).id2 = NoClan /\ Forget(u).id1 = settings.id1
        BY <1>1, <3>4 DEF BattleField
      <4>3. ClansOf(L) \subseteq {settings.id1}
        BY <3>1, <3>2, <3>4
      <4> QED BY <1>2, <2>2, <3>1, <4>1, <4>2, <4>3 DEF BattleOK
    <3> QED BY <2>1, <2>2, <3>3, <3>4 DEF M
  <2> QED BY <2>3, <2>4
<1> QED BY <1>3, <1>4

(***************************************************************************)
(* Users who leave                                                         *)
(***************************************************************************)

LEMMA RemoveUsersStep ==
  ASSUME BattleInv, IsRoom, NEW gone, NEW s, NEW k, RemoveUsers(gone, s, k),
         BattleField \subseteq DOMAIN s,
         host \notin gone => BattleOK(s, Members \ gone, host),
         host \in gone => \A h \in Members \ gone : BattleOK(Succeed(s, h), Members \ gone, h)
  PROVE  BattleInv' /\ SidesKept
<1> DEFINE I == {i \in DOMAIN users : users[i] \notin gone}
           L == Members \ gone
<1>1. users \in Seq(User) /\ I \in SUBSET DOMAIN users /\ users' \in Rests(users, I)
  BY DEF BattleInv, RemoveUsers
<1>2. /\ clan' = clan
      /\ team' = [u \in User |-> IF u \in gone THEN "CT" ELSE team[u]]
  BY DEF RemoveUsers
<1>3. users' \in Seq(User) /\ Members' = L
  <2>1. PICK f \in Ascending(I) : users' = [j \in 1..Cardinality(I) |-> users[f[j]]]
    BY <1>1 DEF Rests
  <2>2. f \in [1..Cardinality(I) -> I] /\ \A x \in I : \E j \in 1..Cardinality(I) : f[j] = x
    BY DEF Ascending
  <2>3. Members' = {users[i] : i \in I}
    BY <2>1, <2>2 DEF Members, Range
  <2>4. {users[i] : i \in I} = L
    BY DEF Members, Range
  <2>5. Cardinality(I) \in Nat
    <3>1. DOMAIN users = 1..Len(users) /\ Len(users) \in Nat
      BY <1>1, LenProperties
    <3>2. IsFiniteSet(DOMAIN users)
      <4>1. Len(users) \in Int /\ 1 \in Int
        BY <3>1
      <4>2. IsFiniteSet(1..Len(users))
        BY <4>1, FS_Interval
      <4> QED BY <3>1, <4>2
    <3>3. IsFiniteSet(I)
      BY <1>1, <3>2, FS_Subset
    <3> QED BY <3>3, FS_CardinalityType
  <2>6. \A j \in 1..Cardinality(I) : users[f[j]] \in User
    BY <1>1, <2>2, ElementOfSeq
  <2> QED BY <2>1, <2>3, <2>4, <2>5, <2>6
<1> HIDE DEF I
<1>4. team' \in [User -> {"T", "CT"}]
  BY <1>2 DEF BattleInv
<1>5. SidesKept
  <2>1. SUFFICES ASSUME SidesAreClans, NEW u \in L, NEW v \in L
                 PROVE  team'[u] = team'[v] <=> clan[u] = clan[v]
    BY <1>2, <1>3 DEF SidesKept, SidesAreClans
  <2>2. u \in Members /\ v \in Members /\ u \in User /\ v \in User
    BY MembersAreUsers
  <2>3. team'[u] = team[u] /\ team'[v] = team[v]
    BY <1>2, <2>2
  <2> QED BY <2>1, <2>2, <2>3 DEF SidesAreClans
<1>6. CASE users' = <<>> /\ host' = NoUser
  BY <1>3, <1>4, <1>5, <1>6 DEF BattleInv, IsRoom
<1>7. CASE users' # <<>> /\ host \notin gone /\ settings' = s /\ host' = host
  <2>1. host \in L
    BY <1>7 DEF BattleInv
  <2>2. BattleOK(s, L, host)
    BY <1>7
  <2>3. BattleOK(settings, Members, host)'
    BY <1>2, <1>3, <1>7, <2>2, PrimedOK
  <2> QED BY <1>3, <1>4, <1>5, <1>7, <2>1, <2>3 DEF BattleInv, IsRoom
<1>8. ASSUME NEW next \in Range(users'), NEW ends \in BOOLEAN, host \in gone, host' = next,
             settings' = Succeed(IF ends THEN Advanced(s, TRUE) ELSE s, next)
      PROVE  BattleInv'
  <2> DEFINE t == IF ends THEN Advanced(s, TRUE) ELSE s
  <2>1. next \in L
    BY <1>3, <1>8 DEF Members
  <2>2. BattleOK(Succeed(s, next), L, next)
    BY <1>8, <2>1
  <2>3. SameBattle(s, t)
    <3>1. SameBattle(s, s) /\ SameBattle(s, Advanced(s, TRUE))
      BY AdvancedBattle DEF SameBattle
    <3> QED BY <3>1
  <2> HIDE DEF t
  <2>4. SameBattle(Succeed(s, next), Succeed(t, next))
    BY <2>3 DEF SameBattle, Succeed, BattleField
  <2>5. BattleOK(Succeed(t, next), L, next)
    BY <2>2, <2>4, SameBattleOK
  <2>6. settings' = Succeed(t, next)
    BY <1>8 DEF t
  <2>7. BattleOK(settings, Members, host)'
    BY <1>2, <1>3, <1>8, <2>5, <2>6, PrimedOK
  <2>8. BattleField \subseteq DOMAIN settings'
    BY <2>4, <2>6 DEF SameBattle
  <2>9. host' # NoUser
    BY <1>8, <2>1, MembersAreUsers, RoomAssumption
  <2> QED BY <1>3, <1>4, <1>8, <2>1, <2>7, <2>8, <2>9 DEF BattleInv, IsRoom
<1>9. \/ users' = <<>> /\ host' = NoUser
      \/ users' # <<>> /\ host \notin gone /\ settings' = s /\ host' = host
      \/ \E next \in Range(users'), ends \in BOOLEAN :
           /\ host \in gone /\ host' = next
           /\ settings' = Succeed(IF ends THEN Advanced(s, TRUE) ELSE s, next)
  BY Zenon DEF RemoveUsers
<1> QED BY <1>5, <1>6, <1>7, <1>8, <1>9

(***************************************************************************)
(* Users who come                                                          *)
(***************************************************************************)

LEMMA NewRoomStep ==
  ASSUME BattleInv, NEW u \in User, NEW b, OnNewRoomRequest(u, b)
  PROVE  BattleInv' /\ SidesKept
<1>1. PICK known \in Slots(Known(b)) :
        LET s == LoadDefaultSettings(known)
        IN (s.family = 1 => clan[u] # NoClan) /\ settings' = Succeed(s, u)
  BY DEF OnNewRoomRequest
<1> DEFINE s == LoadDefaultSettings(known)
<1>2. /\ s.family = 1 => clan[u] # NoClan
      /\ settings' = Succeed(s, u)
      /\ users' = <<u>> /\ host' = u /\ clan' = clan /\ team' = team
      /\ ~IsRoom
  BY <1>1 DEF OnNewRoomRequest
<1>3. BattleField \subseteq DOMAIN s /\ (s.family = 1 => s.id1 = NoClan /\ s.id2 = NoClan)
  <2>1. ASSUME NEW set, NEW m
        PROVE  LET t == With(With(set, [NoBattle EXCEPT !.family = 1]), Battle(m))
               IN BattleField \subseteq DOMAIN t /\ t.id1 = NoClan /\ t.id2 = NoClan
    <3> DEFINE on == [NoBattle EXCEPT !.family = 1]
    <3>1. DOMAIN on = BattleField /\ on.id1 = NoClan /\ on.id2 = NoClan
      BY DEF NoBattle, BattleField
    <3> HIDE DEF on
    <3>2. /\ BattleField \subseteq DOMAIN With(set, on)
          /\ With(set, on).id1 = NoClan /\ With(set, on).id2 = NoClan
      BY <3>1, WithField DEF BattleField
    <3>3. Apart(Battle(m))
      BY BattleApart
    <3>4. LET t == With(With(set, on), Battle(m))
          IN BattleField \subseteq DOMAIN t /\ t.id1 = NoClan /\ t.id2 = NoClan
      BY <3>2, <3>3, WithField DEF Apart, BattleField
    <3> QED BY <3>4 DEF on
  <2>2. ASSUME NEW set
        PROVE  BattleField \subseteq DOMAIN With(set, NoBattle) /\ With(set, NoBattle).family = 0
    <3>1. DOMAIN NoBattle = BattleField /\ NoBattle.family = 0
      BY DEF NoBattle, BattleField
    <3> QED BY <3>1, WithField DEF BattleField
  <2>3. \E set, m : \/ s = With(With(set, [NoBattle EXCEPT !.family = 1]), Battle(m))
                    \/ s = With(set, NoBattle)
    <3> DEFINE list == IF "playlist" \in DOMAIN known THEN known.playlist ELSE <<>>
               chosen == [f \in {l \in Chosen : known[l] # 0} \cup ({"randomMap"} \cap DOMAIN known) |-> known[f]]
               own == With(With(Defaults(known.mode, Rule), chosen),
                           [mode |-> known.mode, map |-> known.map, players |-> known.players,
                            playlist |-> list, index |-> IF list = <<>> THEN 0 ELSE 1,
                            competitive |-> known.map = Competitive])
               set == IF own.competitive
                      THEN With(own, OfRoom([players |-> 32, roundTime |-> 3,
                                             winLimit |-> IF known.mode = 14 THEN 7 ELSE 13])) ELSE own
    <3>1. s = IF "family" \in DOMAIN known /\ known.family = 1
              THEN With(With(set, [NoBattle EXCEPT !.family = 1]), Battle(known.mode))
              ELSE With(set, NoBattle)
      BY DEF LoadDefaultSettings
    <3> HIDE DEF s, set
    <3> QED BY <3>1, Zenon
  <2> HIDE DEF s
  <2> QED BY <2>1, <2>2, <2>3
<1> HIDE DEF s
<1>4. users' \in Seq(User) /\ Members' = {u}
  <2>1. DOMAIN <<u>> = {1} /\ <<u>>[1] = u
    OBVIOUS
  <2> QED BY <1>2, <2>1 DEF Members, Range
<1>5. BattleOK(settings, Members, host)'
  <2>1. ClansOf({u}) = {clan[u]}
    BY DEF ClansOf
  <2>2. BattleOK(Succeed(s, u), {u}, u)
    <3>1. CASE s.family # 1
      BY <1>3, <3>1, SucceedFields DEF BattleOK
    <3>2. CASE s.family = 1
      <4>1. /\ Succeed(s, u).family = 1 /\ Succeed(s, u).id1 = clan[u]
            /\ Succeed(s, u).id2 = NoClan /\ clan[u] # NoClan
        BY <1>2, <1>3, <3>2, SucceedFields
      <4> QED BY <2>1, <4>1 DEF BattleOK
    <3> QED BY <3>1, <3>2
  <2> QED BY <1>2, <1>4, <2>2, PrimedOK
<1>6. BattleField \subseteq DOMAIN settings'
  BY <1>2, <1>3, SucceedFields
<1>7. host' # NoUser
  BY <1>2, RoomAssumption
<1> QED BY <1>2, <1>4, <1>5, <1>6, <1>7 DEF BattleInv, SidesKept, IsRoom

\* A clan that is let in is one of the two, or the second is still to come.
LEMMA EntryOK ==
  ASSUME BattleInv, IsRoom, settings.family = 1, NEW u, NEW s \in BattleEntry(clan[u])
  PROVE  /\ BattleField \subseteq DOMAIN s /\ s.family = 1
         /\ BattleOK(s, Members, host) /\ BattleOK(s, Members \cup {u}, host)
<1>1. BattleField \subseteq DOMAIN settings /\ BattleOK(settings, Members, host)
  BY DEF BattleInv
<1>2. ClansOf(Members \cup {u}) = ClansOf(Members) \cup {clan[u]}
  BY DEF ClansOf
<1>3. /\ \A v \in Members : clan[v] # NoClan
      /\ settings.id1 = clan[host]
      /\ \/ settings.id2 = NoClan /\ ClansOf(Members) \subseteq {settings.id1}
         \/ settings.id2 # NoClan /\ ClansOf(Members) \subseteq {settings.id1, settings.id2}
         \/ settings.id2 # NoClan /\ settings.id2 = settings.id1 /\ \E c : ClansOf(Members) \subseteq {settings.id1, c}
  BY <1>1 DEF BattleOK
<1>4. /\ clan[u] # NoClan
      /\ \/ clan[u] = settings.id1 /\ s = settings
         \/ settings.id2 = NoClan /\ s = [settings EXCEPT !.id2 = clan[u]]
         \/ settings.id2 # NoClan /\ clan[u] = settings.id2 /\ s = settings
  BY DEF BattleEntry
<1>5. CASE s = settings /\ clan[u] \in {settings.id1, settings.id2}
  <2>1. clan[u] = settings.id1 \/ (settings.id2 # NoClan /\ clan[u] = settings.id2)
    BY <1>4, <1>5
  <2>2. BattleOK(settings, Members \cup {u}, host)
    BY <1>2, <1>3, <1>4, <2>1 DEF BattleOK
  <2> QED BY <1>1, <1>5, <2>2
<1>6. CASE settings.id2 = NoClan /\ s = [settings EXCEPT !.id2 = clan[u]]
  <2>1. /\ BattleField \subseteq DOMAIN s /\ s.family = 1 /\ s.id1 = settings.id1 /\ s.id2 = clan[u]
    BY <1>1, <1>6 DEF BattleField
  <2>2. ClansOf(Members) \subseteq {settings.id1}
    BY <1>3, <1>6
  <2> QED BY <1>2, <1>3, <1>4, <2>1, <2>2 DEF BattleOK
<1> QED BY <1>4, <1>5, <1>6

\* The first user of the room decides on the side of the next.
LEMMA FirstDecides ==
  ASSUME BattleInv, IsRoom, \A v \in Members : clan[v] # NoClan, NEW u
  PROVE  \E v \in Members : Side(u) = IF clan[v] = clan[u] THEN team[v] ELSE OtherTeam(team[v])
<1> DEFINE n == Len(users)
           I == {i \in 1..Len(users) : clan[users[i]] # NoClan}
<1>1. users \in Seq(User) /\ n \in Nat /\ DOMAIN users = 1..n /\ Members # {}
  BY LenProperties DEF BattleInv
<1>2. 1 \in 1..n
  BY <1>1, MembersAreUsers
<1>3. \A i \in 1..n : users[i] \in Members
  BY <1>1 DEF Members, Range
<1>4. I = 1..n
  BY <1>3
<1>5. SelectInSeq(users, LAMBDA v : clan[v] # NoClan) = 1
  <2>1. SelectInSeq(users, LAMBDA v : clan[v] # NoClan) = IF I # {} THEN Min(I) ELSE 0
    BY DEF SelectInSeq
  <2>2. Min(1..n) = 1
    <3>1. \A x \in 1..n : (\A y \in 1..n : x <= y) => x = 1
      <4>1. SUFFICES ASSUME NEW x \in 1..n, x <= 1 PROVE x = 1
        BY <1>2
      <4>2. n \in Nat /\ x \in 1..n
        BY <1>1
      <4> HIDE DEF n
      <4> QED BY <4>1, <4>2
    <3>2. \A y \in 1..n : 1 <= y
      BY <1>1
    <3> QED BY <1>2, <3>1, <3>2 DEF Min
  <2> QED BY <1>2, <1>4, <2>1, <2>2
<1>6. Side(u) = IF clan[users[1]] = clan[u] THEN team[users[1]] ELSE OtherTeam(team[users[1]])
  BY <1>5 DEF Side
<1> QED BY <1>2, <1>3, <1>6

LEMMA SideIsSide ==
  ASSUME BattleInv, IsRoom, \A v \in Members : clan[v] # NoClan, NEW u
  PROVE  Side(u) \in {"T", "CT"}
<1>1. PICK v \in Members : Side(u) = IF clan[v] = clan[u] THEN team[v] ELSE OtherTeam(team[v])
  BY FirstDecides
<1>2. team[v] \in {"T", "CT"}
  BY MembersAreUsers DEF BattleInv
<1> QED BY <1>1, <1>2 DEF OtherTeam

\* The side of a newcomer is that of his clan.
LEMMA SideFits ==
  ASSUME BattleInv, IsRoom, SidesAreClans, NEW u,
         \A v \in Members : clan[v] # NoClan,
         NEW a, NEW c, ClansOf(Members \cup {u}) \subseteq {a, c}
  PROVE  \A w \in Members : Side(u) = team[w] <=> clan[u] = clan[w]
<1>1. PICK v \in Members : Side(u) = IF clan[v] = clan[u] THEN team[v] ELSE OtherTeam(team[v])
  BY FirstDecides
<1>2. SUFFICES ASSUME NEW w \in Members PROVE Side(u) = team[w] <=> clan[u] = clan[w]
  OBVIOUS
<1>3. team[v] \in {"T", "CT"} /\ team[w] \in {"T", "CT"}
  BY MembersAreUsers DEF BattleInv
<1>4. team[v] = team[w] <=> clan[v] = clan[w]
  BY DEF SidesAreClans
<1>5. {clan[u], clan[v], clan[w]} \subseteq {a, c}
  BY DEF ClansOf
<1> QED BY <1>1, <1>3, <1>4, <1>5 DEF OtherTeam

\* Clans of a battle are two, however they are counted.
LEMMA TwoClansAre ==
  ASSUME NEW s, s.family = 1, NEW M, NEW h, BattleOK(s, M, h)
  PROVE  \E a, c : ClansOf(M) \subseteq {a, c}
<1>1. \/ ClansOf(M) \subseteq {s.id1, s.id1}
      \/ ClansOf(M) \subseteq {s.id1, s.id2}
      \/ \E c : ClansOf(M) \subseteq {s.id1, c}
  BY DEF BattleOK
<1> QED BY <1>1

LEMMA JoinStep ==
  ASSUME BattleInv, NEW u \in User, OnJoinRoomRequest(u)
  PROVE  BattleInv' /\ SidesKept
<1>1. /\ IsRoom /\ clan' = clan /\ host' = host
  BY DEF OnJoinRoomRequest
<1>2. PICK s \in IF settings.family = 1 THEN BattleEntry(clan[u]) ELSE {settings} :
        /\ settings' = s
        /\ IF s.family = 1 /\ ~PartOf(u) THEN UNCHANGED <<users, team>>
           ELSE /\ users' = Append(users, u)
                /\ team' = [team EXCEPT ![u] = IF s.family = 1 THEN Side(u) ELSE "CT"]
  BY DEF OnJoinRoomRequest
<1>3. /\ BattleField \subseteq DOMAIN s /\ (s.family = 1 <=> settings.family = 1)
      /\ BattleOK(s, Members, host) /\ BattleOK(s, Members \cup {u}, host)
  <2>1. CASE settings.family = 1
    BY <1>1, <1>2, <2>1, EntryOK
  <2>2. CASE settings.family # 1
    BY <1>1, <1>2, <2>2 DEF BattleInv, BattleOK
  <2> QED BY <2>1, <2>2
<1>4. CASE UNCHANGED <<users, team>>
  <2>1. Members' = Members
    BY <1>4 DEF Members
  <2>2. BattleOK(settings, Members, host)'
    BY <1>1, <1>2, <1>3, <2>1, PrimedOK
  <2> QED BY <1>1, <1>2, <1>3, <1>4, <2>1, <2>2 DEF BattleInv, IsRoom, SidesKept, SidesAreClans
<1>5. CASE /\ users' = Append(users, u)
           /\ team' = [team EXCEPT ![u] = IF s.family = 1 THEN Side(u) ELSE "CT"]
  <2>1. users' \in Seq(User) /\ Members' = Members \cup {u}
    <3>1. users \in Seq(User)
      BY DEF BattleInv
    <3>2. /\ users' \in Seq(User) /\ Len(users') = Len(users) + 1 /\ Len(users) \in Nat
          /\ DOMAIN users = 1..Len(users) /\ DOMAIN users' = 1..(Len(users) + 1)
          /\ \A i \in 1..Len(users) : users'[i] = users[i]
          /\ users'[Len(users) + 1] = u
      BY <1>5, <3>1, AppendProperties, LenProperties
    <3>3. DOMAIN users' = DOMAIN users \cup {Len(users) + 1}
      BY <3>2
    <3> QED BY <3>2, <3>3 DEF Members, Range
  <2>2. BattleOK(settings, Members, host)'
    BY <1>1, <1>2, <1>3, <2>1, PrimedOK
  <2>3. Side(u) = "CT" \/ Side(u) = "T" \/ s.family # 1
    <3>1. SUFFICES ASSUME s.family = 1 PROVE Side(u) \in {"T", "CT"}
      OBVIOUS
    <3> QED BY <1>1, <1>3, <3>1, SideIsSide DEF BattleOK
  <2>4. team' \in [User -> {"T", "CT"}]
    BY <1>5, <2>3 DEF BattleInv
  <2>5. SidesKept
    <3>1. SUFFICES ASSUME settings.family = 1, SidesAreClans PROVE SidesAreClans'
      BY DEF SidesKept
    <3>2. PICK a, c : ClansOf(Members \cup {u}) \subseteq {a, c}
      BY <1>3, <3>1, TwoClansAre
    <3>3. \A w \in Members : Side(u) = team[w] <=> clan[u] = clan[w]
      BY <1>1, <1>3, <3>1, <3>2, SideFits DEF BattleOK
    <3>4. team'[u] = Side(u)
      BY <1>3, <1>5, <3>1 DEF BattleInv
    <3>5. \A w \in Members \ {u} : team'[w] = team[w]
      BY <1>5, MembersAreUsers DEF BattleInv
    <3>6. u \notin Members
      BY DEF OnJoinRoomRequest
    <3> QED BY <1>1, <2>1, <3>1, <3>3, <3>4, <3>5, <3>6 DEF SidesAreClans
  <2> QED BY <1>1, <1>2, <1>3, <2>1, <2>2, <2>4, <2>5 DEF BattleInv, IsRoom
<1> QED BY <1>2, <1>4, <1>5

(***************************************************************************)
(* Settings that change                                                    *)
(***************************************************************************)

LEMMA MembersFinite == ASSUME BattleInv PROVE IsFiniteSet(ClansOf(Members))
<1>1. Members = {users[i] : i \in 1..Len(users)} /\ Len(users) \in Nat
  BY LenProperties DEF BattleInv, Members, Range
<1>2. ClansOf(Members) = {clan[users[i]] : i \in 1..Len(users)}
  <2>1. ClansOf(Members) = {clan[u] : u \in Members}
    BY DEF ClansOf
  <2>2. \A i \in 1..Len(users) : users[i] \in Members
    BY <1>1
  <2>3. \A u \in Members : \E i \in 1..Len(users) : u = users[i]
    BY <1>1
  <2> QED BY <2>1, <2>2, <2>3
<1>3. IsFiniteSet(1..Len(users))
  <2>1. Len(users) \in Int /\ 1 \in Int
    BY <1>1
  <2> QED BY <2>1, FS_Interval
<1> DEFINE f == [i \in 1..Len(users) |-> clan[users[i]]]
<1>4. f \in Surjection(1..Len(users), ClansOf(Members))
  BY <1>2 DEF Surjection
<1> QED BY <1>3, <1>4, FS_Surjection

\* Two of at most two clans are all.
LEMMA NoThird ==
  ASSUME BattleInv, TwoClansIn, NEW a \in ClansOf(Members), NEW c \in ClansOf(Members), a # c
  PROVE  ClansOf(Members) = {a, c}
<1>1. IsFiniteSet(ClansOf(Members)) /\ Cardinality(ClansOf(Members)) <= 2
  BY MembersFinite DEF TwoClansIn
<1>2. IsFiniteSet({a}) /\ Cardinality({a}) = 1
  BY FS_Singleton
<1>3. IsFiniteSet({a, c}) /\ Cardinality({a, c}) = 2
  <2>1. IsFiniteSet({a} \cup {c}) /\ Cardinality({a} \cup {c}) = 1 + 1
    BY <1>2, FS_AddElement
  <2>2. {a} \cup {c} = {a, c}
    OBVIOUS
  <2> QED BY <2>1, <2>2
<1>4. {a, c} \subseteq ClansOf(Members)
  OBVIOUS
<1>5. Cardinality(ClansOf(Members)) \in Nat
  BY <1>1, FS_CardinalityType
<1>6. Cardinality({a, c}) = Cardinality(ClansOf(Members)) => {a, c} = ClansOf(Members)
  BY <1>1, <1>4, FS_Subset
<1>7. Cardinality({a, c}) <= Cardinality(ClansOf(Members))
  BY <1>1, <1>4, FS_Subset
<1> QED BY <1>1, <1>3, <1>5, <1>6, <1>7

LEMMA UpdateStep ==
  ASSUME BattleInv, NEW b, OnRoomUpdateSettings(b)
  PROVE  BattleInv' /\ SidesKept
<1> DEFINE others == ClansOf(Members) \ {clan[host]}
           asked(raw) == "family" \in DOMAIN raw /\ raw.family = 1
           second(raw) == IF asked(raw) /\ others # {} THEN CHOOSE c \in others : TRUE ELSE NoClan
           Raw(sent) == With(Received(sent), CheckNewSettings(sent))
<1>1. PICK sent \in Slots(b) :
        /\ asked(Raw(sent)) => TwoClansIn
        /\ settings' = UpdateSettings(CheckNewSettings(sent), second(Raw(sent)))
        /\ team' = IF asked(Raw(sent)) THEN Sides(settings.id1) ELSE team
  BY DEF OnRoomUpdateSettings
<1>2. IsRoom /\ clan' = clan /\ users' = users /\ host' = host
  BY DEF OnRoomUpdateSettings
<1> DEFINE left == CheckNewSettings(sent)
           raw == Raw(sent)
           to == second(raw)
<1>3. Decided(left)
  BY CheckedDecided
<1>4. /\ asked(raw) => TwoClansIn
      /\ settings' = UpdateSettings(left, to)
      /\ team' = IF asked(raw) THEN Sides(settings.id1) ELSE team
  BY <1>1
<1>5. "family" \in DOMAIN left => "family" \in DOMAIN raw /\ raw.family = left.family
  BY WithField
<1>6. asked(raw) => to = IF others # {} THEN CHOOSE c \in others : TRUE ELSE NoClan
  OBVIOUS
<1>7. /\ host \in Members /\ host \in User /\ Members \subseteq User /\ Members' = Members
      /\ BattleField \subseteq DOMAIN settings
      /\ BattleOK(settings, Members, host)
  BY <1>2, MembersAreUsers DEF BattleInv, Members
<1>8. clan[host] \in ClansOf(Members)
  BY <1>7 DEF ClansOf
<1> HIDE DEF left, raw, to
<1>9. ASSUME "family" \notin DOMAIN left
      PROVE  BattleField \subseteq DOMAIN settings' /\ BattleOK(settings', Members, host)
  <2>1. Apart(left)
    BY <1>3, <1>9 DEF Decided
  <2>2. settings' = With(With(settings, left), <<>>)
    BY <1>4, <1>9 DEF UpdateSettings
  <2>3. SameBattle(settings, With(settings, left))
    BY <1>7, <2>1, WithField DEF SameBattle, Apart, BattleField
  <2>4. DOMAIN <<>> = {}
    OBVIOUS
  <2>5. SameBattle(settings, settings')
    BY <2>2, <2>3, <2>4, WithField DEF SameBattle, BattleField
  <2>6. BattleOK(settings', Members, host)
    BY <1>7, <2>5, SameBattleOK
  <2> QED BY <2>5, <2>6 DEF SameBattle
<1>10. ASSUME "family" \in DOMAIN left
       PROVE  BattleField \subseteq DOMAIN settings' /\ BattleOK(settings', Members, host)
  <2> DEFINE ids == [id1 |-> IF left.family = 1 THEN clan[host] ELSE NoClan, id2 |-> to]
  <2>1. DOMAIN ids = {"id1", "id2"} /\ (left.family = 1 => ids.id1 = clan[host]) /\ ids.id2 = to
    OBVIOUS
  <2>2. settings' = With(With(settings, left), ids)
    BY <1>4, <1>10 DEF UpdateSettings
  <2> HIDE DEF ids
  <2>3. /\ BattleField \subseteq DOMAIN settings'
        /\ settings'.family = left.family /\ settings'.id1 = ids.id1 /\ settings'.id2 = to
    <3>1. "family" \in DOMAIN With(settings, left) /\ With(settings, left).family = left.family
      BY <1>10, WithField
    <3>2. \A f \in {"id1", "id2"} : f \in DOMAIN settings' /\ settings'[f] = ids[f]
      BY <2>1, <2>2, WithField
    <3>3. "family" \in DOMAIN settings' /\ settings'.family = left.family
      BY <2>1, <2>2, <3>1, WithField
    <3> QED BY <2>1, <3>2, <3>3 DEF BattleField
  <2>4. CASE left.family # 1
    BY <2>3, <2>4 DEF BattleOK
  <2>5. CASE left.family = 1
    <3>1. asked(raw) /\ TwoClansIn
      BY <1>4, <1>5, <1>10, <2>5
    <3>2. \A u \in Members : clan[u] # NoClan
      BY <3>1 DEF TwoClansIn
    <3>3. CASE others = {}
      <4>1. to = NoClan /\ ClansOf(Members) \subseteq {clan[host]}
        BY <1>6, <3>1, <3>3
      <4> QED BY <2>1, <2>3, <2>5, <3>2, <4>1 DEF BattleOK
    <3>4. CASE others # {}
      <4>1. to \in others
        BY <1>6, <3>1, <3>4
      <4>2. to \in ClansOf(Members) /\ to # clan[host]
        BY <4>1
      <4>3. ClansOf(Members) = {clan[host], to}
        BY <1>8, <3>1, <4>2, NoThird
      <4>4. to # NoClan
        BY <3>2, <4>2 DEF ClansOf
      <4> QED BY <2>1, <2>3, <2>5, <3>2, <4>3, <4>4 DEF BattleOK
    <3> QED BY <3>3, <3>4
  <2> QED BY <2>3, <2>4, <2>5
<1>11. BattleField \subseteq DOMAIN settings' /\ BattleOK(settings', Members, host)
  <2>1. \/ "family" \notin DOMAIN left
        \/ "family" \in DOMAIN left
    OBVIOUS
  <2> QED BY <1>9, <1>10, <2>1
<1>12. team' \in [User -> {"T", "CT"}]
  <2>1. \A u \in User : Sides(settings.id1)[u] \in {"T", "CT"}
    BY <1>7 DEF Sides, OtherTeam, BattleInv
  <2>2. Sides(settings.id1) = [u \in User |-> Sides(settings.id1)[u]]
    BY DEF Sides
  <2> QED BY <1>4, <2>1, <2>2 DEF BattleInv
<1>13. SidesKept
  <2>1. SUFFICES ASSUME settings.family = 1, SidesAreClans, NEW u \in Members, NEW v \in Members
                 PROVE  team'[u] = team'[v] <=> clan[u] = clan[v]
    BY <1>2, <1>7 DEF SidesKept, SidesAreClans
  <2>2. CASE ~asked(raw)
    BY <1>4, <2>1, <2>2 DEF SidesAreClans
  <2>3. CASE asked(raw)
    <3>1. settings.id1 = clan[host]
      BY <1>7, <2>1 DEF BattleOK
    <3>2. team' = Sides(clan[host]) /\ TwoClansIn
      BY <1>4, <2>3, <3>1
    <3>3. \A w \in Members : team'[w] = IF clan[w] = clan[host] THEN team[host] ELSE OtherTeam(team[host])
      BY <1>7, <3>2 DEF Sides
    <3>4. team[host] \in {"T", "CT"}
      BY <1>7 DEF BattleInv
    <3>5. clan[u] \in ClansOf(Members) /\ clan[v] \in ClansOf(Members)
      BY DEF ClansOf
    <3>6. CASE clan[u] = clan[host] \/ clan[v] = clan[host]
      BY <3>3, <3>4, <3>6 DEF OtherTeam
    <3>7. CASE clan[u] # clan[host] /\ clan[v] # clan[host]
      <4>1. ClansOf(Members) = {clan[host], clan[u]}
        BY <1>8, <3>2, <3>5, <3>7, NoThird
      <4> QED BY <3>3, <3>5, <3>7, <4>1
    <3> QED BY <3>6, <3>7
  <2> QED BY <2>2, <2>3
<1>14. BattleOK(settings, Members, host)'
  BY <1>2, <1>7, <1>11, PrimedOK
<1> QED BY <1>2, <1>7, <1>11, <1>12, <1>13, <1>14 DEF BattleInv, IsRoom

\* Steps that leave the users, the sides and the battle alone.
LEMMA SameStep ==
  ASSUME BattleInv, UNCHANGED <<clan, users, host, team>>,
         settings' = settings \/ (IsRoom /\ SameBattle(settings, settings'))
  PROVE  BattleInv' /\ SidesKept
<1>1. Members' = Members
  BY DEF Members
<1>2. IsRoom => BattleField \subseteq DOMAIN settings' /\ BattleOK(settings', Members, host)
  BY SameBattleOK DEF BattleInv, SameBattle
<1>3. IsRoom => BattleOK(settings, Members, host)'
  BY <1>1, <1>2, PrimedOK
<1> QED BY <1>1, <1>2, <1>3 DEF BattleInv, IsRoom, SidesKept, SidesAreClans

(***************************************************************************)
(* The theorems                                                            *)
(***************************************************************************)

\* Who is removed, with the settings as they are.
LEMMA RemovedStep ==
  ASSUME BattleInv, IsRoom, NEW gone, NEW k, RemoveUsers(gone, settings, k)
  PROVE  BattleInv' /\ SidesKept
<1>1. host \in Members /\ BattleField \subseteq DOMAIN settings /\ BattleOK(settings, Members, host)
  BY DEF BattleInv
<1>2. Members \ gone \in SUBSET Members
  OBVIOUS
<1>3. BattleOK(settings, Members \ gone, host)
  BY <1>1, <1>2, FewerOK
<1>4. \A h \in Members \ gone : BattleOK(Succeed(settings, h), Members \ gone, h)
  BY <1>1, <1>2, SuccessorOK
<1> QED BY <1>1, <1>3, <1>4, RemoveUsersStep

LEMMA LeaveStep ==
  ASSUME BattleInv, NEW u \in User, OnLeaveRoomRequest(u)
  PROVE  BattleInv' /\ SidesKept
<1>1. u \in Members /\ RemoveUsers({u}, Forget(u), kicked)
  BY DEF OnLeaveRoomRequest
<1>2. IsRoom
  BY <1>1, MembersAreUsers DEF BattleInv
<1>3. /\ BattleField \subseteq DOMAIN Forget(u)
      /\ host \notin {u} => BattleOK(Forget(u), Members \ {u}, host)
      /\ host \in {u} => \A h \in Members \ {u} : BattleOK(Succeed(Forget(u), h), Members \ {u}, h)
  BY <1>1, <1>2, ForgetOK
<1> QED BY <1>1, <1>2, <1>3, RemoveUsersStep

LEMMA BattleStep ==
  ASSUME BattleInv, [Next]_vars
  PROVE  BattleInv' /\ SidesKept
<1>1. ASSUME NEW u \in User, NEW b \in NewRoom, OnNewRoomRequest(u, b) PROVE BattleInv' /\ SidesKept
  BY <1>1, NewRoomStep
<1>2. ASSUME NEW u \in User, OnJoinRoomRequest(u) PROVE BattleInv' /\ SidesKept
  BY <1>2, JoinStep
<1>3. ASSUME NEW u \in User, OnLeaveRoomRequest(u) PROVE BattleInv' /\ SidesKept
  BY <1>3, LeaveStep
<1>4. ASSUME NEW u \in User, Disconnect(u) \/ OnRoomKickRequest(u) PROVE BattleInv' /\ SidesKept
  <2>1. u \in Members /\ \E k : RemoveUsers({u}, settings, k)
    BY <1>4 DEF Disconnect, OnRoomKickRequest
  <2>2. IsRoom
    BY <2>1, MembersAreUsers DEF BattleInv
  <2> QED BY <2>1, <2>2, RemovedStep
<1>5. ASSUME NEW u \in User, NEW t \in {"T", "CT"}, OnSetTeamRequest(u, t) PROVE BattleInv' /\ SidesKept
  <2>1. /\ UNCHANGED <<clan, settings, users, host>> /\ settings.family = 0
        /\ team' = [team EXCEPT ![u] = t]
    BY <1>5 DEF OnSetTeamRequest
  <2>2. Members' = Members
    BY <2>1 DEF Members
  <2>3. IsRoom => BattleOK(settings, Members, host)'
    BY <2>1, <2>2 DEF BattleOK
  <2> QED BY <2>1, <2>2, <2>3 DEF BattleInv, IsRoom, SidesKept
<1>6. ASSUME OnRoomKickClanRequest PROVE BattleInv' /\ SidesKept
  <2>1. IsRoom /\ \E gone, k : RemoveUsers(gone, settings, k)
    BY <1>6 DEF OnRoomKickClanRequest
  <2> QED BY <2>1, RemovedStep
<1>7. ASSUME NEW b \in Update, OnRoomUpdateSettings(b) PROVE BattleInv' /\ SidesKept
  BY <1>7, UpdateStep
<1>8. ASSUME OnGameStartRequest PROVE BattleInv' /\ SidesKept
  <2>1. /\ UNCHANGED <<clan, users, host, team>> /\ IsRoom
        /\ \E map : settings' = [settings EXCEPT !.map = map]
    BY <1>8 DEF OnGameStartRequest
  <2>2. SameBattle(settings, settings')
    BY <2>1 DEF SameBattle, BattleInv, BattleField
  <2> QED BY <2>1, <2>2, SameStep
<1>9. ASSUME NEW forced \in BOOLEAN, EndGame(forced) PROVE BattleInv' /\ SidesKept
  <2>1. UNCHANGED <<clan, users, host, team>> /\ settings' = Advanced(settings, forced)
    BY <1>9 DEF EndGame
  <2>2. CASE IsRoom
    <3>1. SameBattle(settings, settings')
      BY <2>1, <2>2, AdvancedBattle DEF BattleInv
    <3> QED BY <2>1, <2>2, <3>1, SameStep
  <2>3. CASE ~IsRoom
    <3>1. ~IsRoom' /\ users' = users /\ users = <<>>
      BY <2>1, <2>3 DEF BattleInv, IsRoom
    <3> QED BY <2>1, <2>3, <3>1 DEF BattleInv, SidesKept
  <2> QED BY <2>2, <2>3
<1>10. ASSUME UNCHANGED vars PROVE BattleInv' /\ SidesKept
  BY <1>10, SameStep DEF vars
<1> QED BY <1>1, <1>2, <1>3, <1>4, <1>5, <1>6, <1>7, <1>8, <1>9, <1>10 DEF Next

LEMMA BattleInit == Init => BattleInv
BY EmptySeq DEF Init, BattleInv, IsRoom

LEMMA BattleAlways == Spec => []BattleInv
<1>1. BattleInv /\ [Next]_vars => BattleInv'
  BY BattleStep
<1> QED BY <1>1, BattleInit, PTL DEF Spec

\* Whoever joins, leaves, is kicked, becomes host or changes the settings: a family battle has
\* users of at most two clans, and none without one (channelmanager.cpp, OnJoinRoomRequest).
THEOREM BattlesHaveTwoClans == Spec => []TwoClans
<1>1. ASSUME BattleInv PROVE TwoClans
  <2>1. SUFFICES ASSUME IsRoom, settings.family = 1 PROVE TwoClansIn
    BY DEF TwoClans
  <2>2. BattleOK(settings, Members, host)
    BY <1>1, <2>1 DEF BattleInv
  <2>3. PICK a, c : ClansOf(Members) \subseteq {a, c}
    BY <2>1, <2>2, TwoClansAre
  <2>4. IsFiniteSet({a, c}) /\ Cardinality({a, c}) <= 2
    <3>1. IsFiniteSet({a}) /\ Cardinality({a}) = 1
      BY FS_Singleton
    <3>2. /\ IsFiniteSet({a} \cup {c})
          /\ Cardinality({a} \cup {c}) = IF c \in {a} THEN 1 ELSE 1 + 1
      BY <3>1, FS_AddElement
    <3>3. {a} \cup {c} = {a, c}
      OBVIOUS
    <3> QED BY <3>2, <3>3
  <2>5. IsFiniteSet(ClansOf(Members)) /\ Cardinality(ClansOf(Members)) <= Cardinality({a, c})
    BY <2>3, <2>4, FS_Subset
  <2>6. Cardinality(ClansOf(Members)) \in Nat /\ Cardinality({a, c}) \in Nat
    BY <2>4, <2>5, FS_CardinalityType
  <2> QED BY <2>2, <2>4, <2>5, <2>6, <2>1 DEF TwoClansIn, BattleOK
<1> QED BY <1>1, BattleAlways, PTL

\* The first clan of a battle is the host's, whoever has become host (room.cpp, UpdateHost).
THEOREM HostsClanIsFirst == Spec => []HostsClanFirst
<1>1. BattleInv => HostsClanFirst
  BY DEF BattleInv, HostsClanFirst, BattleOK
<1> QED BY <1>1, BattleAlways, PTL

\* Once the sides of a battle are its clans, nobody who joins, leaves, hosts or changes the
\* settings ends up with the other clan (channelmanager.cpp, OnJoinRoomRequest).
THEOREM SidesStayClans == Spec => SidesStay
<1>1. BattleInv /\ [Next]_vars => [SidesKept]_vars
  BY BattleStep
<1> QED BY <1>1, BattleAlways, PTL DEF Spec, SidesStay, SidesKept

(***************************************************************************)
(* The rules of the mode                                                   *)
(*                                                                         *)
(* A block that names a mode brings every switch and the win limit of that *)
(* mode; one that does not only brings values that fit the mode there is.  *)
(* What is left of a block is followed through each operator of            *)
(* LoadNewSettings: the switches in it, its win limit, and the fields the  *)
(* host asked for.  Only in the modes 0 and 3 is the win limit still       *)
(* untested when the block is loaded, and with the end of a battle in it   *)
(* the block escapes the test that follows.                                *)
(***************************************************************************)

WinField == {"winLimit"} \cap Limit
Request == {"mode", "map", "playlist"}

Switches(b, m) == \A r \in Fixed \cap DOMAIN b : Legal(r, m, b[r])
Win(b, m) == \A l \in WinField \cap DOMAIN b : b[l] \in WinLimits(m)
WinYet(b, m) == Win(b, m) \/ (m \in {0, 3} /\ "family" \notin DOMAIN b)
Fits(b, m) == Switches(b, m) /\ Win(b, m)

\* All that a change of mode has to bring.
Filled(b) == Fixed \cup WinField \subseteq DOMAIN b

\* The mode, the map and the playlist are those the host asked for.
SameRequest(b, c) ==
  \A f \in Request : (f \in DOMAIN c <=> f \in DOMAIN b) /\ (f \in DOMAIN b => c[f] = b[f])

\* A block whose win limit is not tested when it is loaded, nor after.
Escapes(b, m) ==
  /\ m \in {0, 3} /\ "winLimit" \in Limit /\ "mode" \notin DOMAIN b
  /\ {"family", "winLimit"} \subseteq DOMAIN b /\ b.family = 0

RoomFits(s, tested) ==
  /\ s.mode \in Offered
  /\ Request \subseteq DOMAIN s /\ Filled(s)
  /\ Switches(s, s.mode)
  /\ tested => Win(s, s.mode)

RulesInv ==
  IsRoom /\ "map" \notin astray => RoomFits(settings, "winLimit" \notin astray) /\ ~MapAstray(settings)

\* The names of the switches and of the limits are apart from all others.
LEMMA FixedNames ==
  /\ Fixed \cap Limit = {} /\ Fixed \cap Request = {} /\ Limit \cap Request = {}
  /\ Rule \cap Request = {} /\ Rule \cap Limit = {}
  /\ Fixed \cap {"players", "competitive", "index", "family", "id1", "id2", "randomMap", "winLimit"} = {}
  /\ Limit \cap {"players", "competitive", "index", "family", "id1", "id2", "randomMap"} = {}
  /\ Rule \cap {"players", "competitive", "index", "family", "id1", "id2"} = {}
  /\ Fixed \subseteq Rule \ Lasting /\ WinField \subseteq Limit /\ "teamBalance" \notin Fixed
  /\ Fixed \subseteq {"leagueRule", "teamSwitch", "zbRespawn", "zbBalance", "gameRule", "zbAutoHunting",
                      "integratedTeam", "enhanceRestrict", "fireBomb", "floatingDamageSkin",
                      "playerOneTeam", "friendlyFire", "zbLimitFlag"}
<1>1. Rule \subseteq {"leagueRule", "teamSwitch", "zbRespawn", "zbBalance", "gameRule", "zbAutoHunting",
                      "integratedTeam", "enhanceRestrict", "fireBomb", "floatingDamageSkin",
                      "playerOneTeam", "teamBalance", "friendlyFire", "zbLimitFlag", "weaponBuyCoolTime",
                      "zbRebalance", "randomMap"}
  BY RuleAssumption DEF Free
<1>2. Limit \subseteq {"winLimit", "killLimit", "gameTime", "roundTime", "buyTime", "startingCash"}
  BY RoomAssumption DEF Limits
<1>3. Fixed \subseteq Rule /\ Fixed \cap {"weaponBuyCoolTime", "zbRebalance", "randomMap", "teamBalance"} = {}
  BY DEF Fixed, Lasting
<1>4. Rule \cap Limit = {} /\ Rule \cap Request = {}
  BY <1>1, <1>2 DEF Request
<1>5. Limit \cap Request = {}
  BY <1>2 DEF Request
<1>6. Fixed \subseteq {"leagueRule", "teamSwitch", "zbRespawn", "zbBalance", "gameRule", "zbAutoHunting",
                      "integratedTeam", "enhanceRestrict", "fireBomb", "floatingDamageSkin",
                      "playerOneTeam", "friendlyFire", "zbLimitFlag"}
  BY <1>1, <1>3
<1>7. Fixed \cap {"players", "competitive", "index", "family", "id1", "id2", "randomMap", "winLimit"} = {}
  BY <1>6
<1>8. /\ Limit \cap {"players", "competitive", "index", "family", "id1", "id2", "randomMap"} = {}
      /\ Rule \cap {"players", "competitive", "index", "family", "id1", "id2"} = {}
  BY <1>1, <1>2
<1>9. Fixed \subseteq Rule \ Lasting /\ WinField \subseteq Limit
  BY DEF Fixed, WinField
<1> QED BY <1>3, <1>4, <1>5, <1>6, <1>7, <1>8, <1>9

\* A field of one block over another is one of them.
LEMMA OneOf ==
  ASSUME NEW u, NEW v, NEW f \in DOMAIN With(u, v)
  PROVE  \/ f \in DOMAIN v /\ With(u, v)[f] = v[f]
         \/ f \in DOMAIN u \ DOMAIN v /\ With(u, v)[f] = u[f]
<1>1. DOMAIN With(u, v) = DOMAIN u \cup DOMAIN v
  BY WithFacts
<1> QED BY <1>1, WithField

LEMMA SwitchesWith ==
  ASSUME NEW u, NEW v, NEW m, Switches(u, m) \/ Fixed \subseteq DOMAIN v, Switches(v, m)
  PROVE  Switches(With(u, v), m)
<1> SUFFICES ASSUME NEW r \in Fixed \cap DOMAIN With(u, v) PROVE Legal(r, m, With(u, v)[r])
  BY DEF Switches
<1> QED BY OneOf DEF Switches

LEMMA WinWith ==
  ASSUME NEW u, NEW v, NEW m, Win(v, m)
  PROVE  /\ Win(u, m) => Win(With(u, v), m)
         /\ WinYet(u, m) /\ "family" \notin DOMAIN v => WinYet(With(u, v), m)
         /\ WinField \subseteq DOMAIN v => Win(With(u, v), m)
<1>1. Win(u, m) \/ WinField \subseteq DOMAIN v => Win(With(u, v), m)
  <2> SUFFICES ASSUME Win(u, m) \/ WinField \subseteq DOMAIN v, NEW l \in WinField \cap DOMAIN With(u, v)
               PROVE  With(u, v)[l] \in WinLimits(m)
    BY DEF Win
  <2> QED BY OneOf DEF Win
<1>2. DOMAIN With(u, v) = DOMAIN u \cup DOMAIN v
  BY WithFacts
<1>3. "family" \notin DOMAIN u /\ "family" \notin DOMAIN v => "family" \notin DOMAIN With(u, v)
  BY <1>2
<1> QED BY <1>1, <1>3 DEF WinYet

LEMMA WithoutFacts ==
  ASSUME NEW u, NEW F
  PROVE  /\ DOMAIN Without(u, F) = DOMAIN u \ F
         /\ \A f \in DOMAIN u \ F : Without(u, F)[f] = u[f]
BY DEF Without, Restrict

LEMMA WithoutField ==
  ASSUME NEW u, NEW F, NEW f, f \notin F
  PROVE  /\ f \in DOMAIN Without(u, F) <=> f \in DOMAIN u
         /\ f \in DOMAIN u => Without(u, F)[f] = u[f]
BY DEF Without, Restrict

LEMMA FitsWithout ==
  ASSUME NEW u, NEW F, NEW m
  PROVE  /\ Switches(u, m) => Switches(Without(u, F), m)
         /\ Win(u, m) => Win(Without(u, F), m)
         /\ WinYet(u, m) => WinYet(Without(u, F), m)
         /\ Filled(u) /\ (Fixed \cup WinField) \cap F = {} => Filled(Without(u, F))
<1>1. DOMAIN Without(u, F) = DOMAIN u \ F
  BY WithoutFacts
<1>2. \A f \in DOMAIN Without(u, F) : f \in DOMAIN u /\ Without(u, F)[f] = u[f]
  BY <1>1, WithoutFacts
<1>3. Switches(u, m) => Switches(Without(u, F), m)
  BY <1>2 DEF Switches
<1>4. Win(u, m) => Win(Without(u, F), m)
  BY <1>2 DEF Win
<1>5. "family" \notin DOMAIN u => "family" \notin DOMAIN Without(u, F)
  BY <1>1
<1>6. Filled(u) /\ (Fixed \cup WinField) \cap F = {} => Filled(Without(u, F))
  BY <1>1 DEF Filled
<1> QED BY <1>3, <1>4, <1>5, <1>6 DEF WinYet

LEMMA FilledWith ==
  ASSUME NEW u, NEW v
  PROVE  /\ Filled(u) \/ Filled(v) => Filled(With(u, v))
         /\ WinField \subseteq DOMAIN v => WinField \subseteq DOMAIN With(u, v)
BY WithFacts DEF Filled

LEMMA SameRequestWith ==
  ASSUME NEW b, NEW c, NEW v, SameRequest(b, c), DOMAIN v \cap Request = {}
  PROVE  SameRequest(b, With(c, v))
BY WithFacts DEF SameRequest, Request

\* Fields that are no switches and no limits.
LEMMA OtherFields ==
  ASSUME NEW v, DOMAIN v \cap (Fixed \cup WinField) = {}, NEW m
  PROVE  Fits(v, m)
BY DEF Fits, Switches, Win

\* The fields of a block that are the room's.
LEMMA OfRoomFits ==
  ASSUME NEW u, NEW m, \A r \in Fixed \cap DOMAIN u : Legal(r, m, u[r]),
         "winLimit" \in DOMAIN u /\ "winLimit" \in Limit => u.winLimit \in WinLimits(m)
  PROVE  Fits(OfRoom(u), m) /\ DOMAIN OfRoom(u) \subseteq DOMAIN u
<1>1. /\ DOMAIN OfRoom(u) \subseteq DOMAIN u
      /\ \A f \in DOMAIN OfRoom(u) : OfRoom(u)[f] = u[f]
  BY DEF OfRoom, Restrict
<1> QED BY <1>1 DEF Fits, Switches, Win, WinField

(***************************************************************************)
(* What the server brings fits                                             *)
(***************************************************************************)

LEMMA DefaultsFit ==
  ASSUME NEW m, NEW rules \in SUBSET Rule
  PROVE  /\ DOMAIN Defaults(m, rules) = rules \cup Limit
         /\ DOMAIN Defaults(m, rules) \cap Request = {}
         /\ Switches(Defaults(m, rules), m)
         /\ TablesFit /\ m \in Offered => Win(Defaults(m, rules), m)
         /\ Rule \ Lasting \subseteq rules => Filled(Defaults(m, rules))
<1>1. DOMAIN Defaults(m, rules) = rules \cup Limit
  BY DEF Defaults
<1>2. DOMAIN Defaults(m, rules) \cap Request = {}
  BY <1>1, FixedNames
<1>3. \A f \in rules \ Limit : Defaults(m, rules)[f] = Default(f, m)
  BY DEF Defaults
<1>4. Switches(Defaults(m, rules), m)
  BY <1>1, <1>3, FixedNames DEF Switches, Legal
<1>5. \A f \in Limit : Defaults(m, rules)[f] = Usual[f][m]
  BY DEF Defaults
<1>6. TablesFit /\ m \in Offered => Win(Defaults(m, rules), m)
  BY <1>1, <1>5 DEF Win, WinField, WinLimits, TablesFit
<1>7. Rule \ Lasting \subseteq rules => Filled(Defaults(m, rules))
  BY <1>1, FixedNames DEF Filled
<1> QED BY <1>1, <1>2, <1>4, <1>6, <1>7

\* What a battle turns on and off is free in its modes, or off anyway.
LEMMA BattleFits ==
  ASSUME NEW m \in BattleModes, TablesFit, m \in Offered
  PROVE  Fits(Battle(m), m)
<1> DEFINE base == [players |-> 10, gameTime |-> 150, buyTime |-> 20, teamBalance |-> 0, friendlyFire |-> 0]
           own == CASE m = 0 -> [winLimit |-> 8, roundTime |-> 2, startingCash |-> 800,
                                 enhanceRestrict |-> 1, leagueRule |-> 0, teamSwitch |-> 1,
                                 floatingDamageSkin |-> 0]
                    [] m = 2 -> [killLimit |-> 80, integratedTeam |-> 1, floatingDamageSkin |-> 0]
                    [] m = 32 -> [winLimit |-> 5, roundTime |-> 2, leagueRule |-> 0, zbRespawn |-> 0, zbBalance |-> 0]
                    [] m = 40 -> [killLimit |-> 120, gameRule |-> 0]
                    [] m = 56 -> [buyTime |-> 60, zbBalance |-> 0, integratedTeam |-> 1]
                    [] m = 57 -> [killLimit |-> 120, buyTime |-> 60, integratedTeam |-> 1]
                    [] OTHER -> [players |-> 10]
<1>1. Battle(m) = OfRoom(With(base, own))
  BY DEF Battle
<1>2. Switches(base, m)
  <2>1. DOMAIN base \cap Fixed \subseteq {"friendlyFire"} /\ base.friendlyFire = 0
    BY FixedNames
  <2>2. Legal("friendlyFire", m, 0)
    BY DEF Legal, Default, OnIn, BattleModes
  <2> QED BY <2>1, <2>2 DEF Switches
<1>3. Switches(own, m) /\ Win(own, m)
  <2>1. CASE m = 0
    <3>1. own = [winLimit |-> 8, roundTime |-> 2, startingCash |-> 800, enhanceRestrict |-> 1,
                 leagueRule |-> 0, teamSwitch |-> 1, floatingDamageSkin |-> 0]
      BY <2>1
    <3>2. DOMAIN own \cap Fixed \subseteq {"enhanceRestrict", "leagueRule", "teamSwitch", "floatingDamageSkin"}
      BY <3>1, FixedNames
    <3>3. \A v : \A r \in {"enhanceRestrict", "leagueRule", "teamSwitch", "floatingDamageSkin"} : Legal(r, m, v)
      BY <2>1 DEF Legal, Free
    <3>4. 8 \in WinLimits(m)
      BY <2>1 DEF WinLimits
    <3> QED BY <3>1, <3>2, <3>3, <3>4 DEF Switches, Win, WinField
  <2>2. CASE m = 2
    <3>1. own = [killLimit |-> 80, integratedTeam |-> 1, floatingDamageSkin |-> 0]
      BY <2>2
    <3>2. DOMAIN own \cap Fixed \subseteq {"integratedTeam", "floatingDamageSkin"} /\ "winLimit" \notin DOMAIN own
      BY <3>1, FixedNames
    <3>3. \A v : \A r \in {"integratedTeam", "floatingDamageSkin"} : Legal(r, m, v)
      BY <2>2 DEF Legal, Free
    <3> QED BY <3>2, <3>3 DEF Switches, Win, WinField
  <2>3. CASE m = 32
    <3>1. own = [winLimit |-> 5, roundTime |-> 2, leagueRule |-> 0, zbRespawn |-> 0, zbBalance |-> 0]
      BY <2>3
    <3>2. DOMAIN own \cap Fixed \subseteq {"leagueRule", "zbRespawn", "zbBalance"}
      BY <3>1, FixedNames
    <3>3. \A v : \A r \in {"leagueRule", "zbRespawn", "zbBalance"} : Legal(r, m, v)
      BY <2>3 DEF Legal, Free, RespawnModes
    <3>4. "winLimit" \in Limit => 5 \in WinLimits(m)
      BY <2>3 DEF WinLimits, TablesFit
    <3> QED BY <3>1, <3>2, <3>3, <3>4 DEF Switches, Win, WinField
  <2>4. CASE m = 40
    <3>1. own = [killLimit |-> 120, gameRule |-> 0]
      BY <2>4
    <3>2. DOMAIN own \cap Fixed \subseteq {"gameRule"} /\ "winLimit" \notin DOMAIN own
      BY <3>1, FixedNames
    <3>3. \A v : Legal("gameRule", m, v)
      BY <2>4 DEF Legal, Free
    <3> QED BY <3>2, <3>3 DEF Switches, Win, WinField
  <2>5. CASE m = 56
    <3>1. own = [buyTime |-> 60, zbBalance |-> 0, integratedTeam |-> 1]
      BY <2>5
    <3>2. DOMAIN own \cap Fixed \subseteq {"zbBalance", "integratedTeam"} /\ "winLimit" \notin DOMAIN own
      BY <3>1, FixedNames
    <3>3. \A v : \A r \in {"zbBalance", "integratedTeam"} : Legal(r, m, v)
      BY <2>5 DEF Legal, Free
    <3> QED BY <3>2, <3>3 DEF Switches, Win, WinField
  <2>6. CASE m = 57
    <3>1. own = [killLimit |-> 120, buyTime |-> 60, integratedTeam |-> 1]
      BY <2>6
    <3>2. DOMAIN own \cap Fixed \subseteq {"integratedTeam"} /\ "winLimit" \notin DOMAIN own
      BY <3>1, FixedNames
    <3>3. \A v : Legal("integratedTeam", m, v)
      BY <2>6 DEF Legal, Free
    <3> QED BY <3>2, <3>3 DEF Switches, Win, WinField
  <2>7. CASE m \notin {0, 2, 32, 40, 56, 57}
    <3>1. own = [players |-> 10]
      BY <2>7
    <3>2. DOMAIN own \cap (Fixed \cup WinField) = {}
      BY <3>1, FixedNames DEF WinField
    <3> QED BY <3>2 DEF Switches, Win
  <2> QED BY <2>1, <2>2, <2>3, <2>4, <2>5, <2>6, <2>7
<1>4. "winLimit" \notin DOMAIN base
  OBVIOUS
<1> HIDE DEF base, own
<1>5. Switches(With(base, own), m)
  BY <1>2, <1>3, SwitchesWith
<1>6. Win(With(base, own), m)
  <2>1. Win(base, m)
    BY <1>4 DEF Win, WinField
  <2> QED BY <1>3, <2>1, WinWith
<1>7. Fits(OfRoom(With(base, own)), m)
  BY <1>5, <1>6, OfRoomFits DEF Switches, Win, WinField
<1> QED BY <1>1, <1>7

LEMMA CompetitiveFits ==
  ASSUME NEW m \in CompetitiveModes, m \in Mode
  PROVE  Fits(ZbCompetitive(m), m)
<1> DEFINE own == [winLimit |-> IF m = 14 THEN 7 ELSE 13, gameTime |-> 150, roundTime |-> 3, buyTime |-> 90,
                   startingCash |-> Usual["startingCash"][m], teamBalance |-> 1, friendlyFire |-> 0,
                   enhanceRestrict |-> 0, zbLimitFlag |-> 0, zbRespawn |-> 1, zbBalance |-> 1, fireBomb |-> 1]
<1>1. ZbCompetitive(m) = OfRoom(own)
  BY DEF ZbCompetitive
<1>2. DOMAIN own \cap Fixed \subseteq {"friendlyFire", "enhanceRestrict", "zbLimitFlag", "zbRespawn", "zbBalance", "fireBomb"}
  BY FixedNames
<1>3. Legal("friendlyFire", m, 0)
  BY DEF Legal, Default, OnIn, CompetitiveModes, RespawnModes
<1>4. Legal("enhanceRestrict", m, 0)
  BY DEF Legal, Default, OnIn, CompetitiveModes, RespawnModes
<1>5. Legal("zbLimitFlag", m, 0)
  BY DEF Legal, Default, OnIn
<1>6. Legal("zbRespawn", m, 1) /\ Legal("zbBalance", m, 1)
  BY DEF Legal, Free, CompetitiveModes
<1>7. Legal("fireBomb", m, 1)
  BY DEF Legal, Default, OnIn
<1>8. \A r \in Fixed \cap DOMAIN own : Legal(r, m, own[r])
  BY <1>2, <1>3, <1>4, <1>5, <1>6, <1>7
<1>9. own.winLimit \in WinLimits(m)
  BY DEF WinLimits, CompetitiveModes, RespawnModes
<1> HIDE DEF own
<1> QED BY <1>1, <1>8, <1>9, OfRoomFits

\* Nor does a battle or a competitive match bring a map, a mode or a playlist.
LEMMA BattleDomain ==
  ASSUME NEW m
  PROVE  /\ DOMAIN Battle(m) \cap (Request \cup {"family"}) = {}
         /\ m = 0 => WinField \subseteq DOMAIN Battle(m)
<1> DEFINE base == [players |-> 10, gameTime |-> 150, buyTime |-> 20, teamBalance |-> 0, friendlyFire |-> 0]
           own == CASE m = 0 -> [winLimit |-> 8, roundTime |-> 2, startingCash |-> 800,
                                 enhanceRestrict |-> 1, leagueRule |-> 0, teamSwitch |-> 1,
                                 floatingDamageSkin |-> 0]
                    [] m = 2 -> [killLimit |-> 80, integratedTeam |-> 1, floatingDamageSkin |-> 0]
                    [] m = 32 -> [winLimit |-> 5, roundTime |-> 2, leagueRule |-> 0, zbRespawn |-> 0, zbBalance |-> 0]
                    [] m = 40 -> [killLimit |-> 120, gameRule |-> 0]
                    [] m = 56 -> [buyTime |-> 60, zbBalance |-> 0, integratedTeam |-> 1]
                    [] m = 57 -> [killLimit |-> 120, buyTime |-> 60, integratedTeam |-> 1]
                    [] OTHER -> [players |-> 10]
<1>1. Battle(m) = OfRoom(With(base, own))
  BY DEF Battle
<1>2. DOMAIN base \cap (Request \cup {"family"}) = {}
  BY DEF Request
<1>3. DOMAIN own \cap (Request \cup {"family"}) = {}
  <2>1. CASE m = 0
    BY <2>1 DEF Request
  <2>2. CASE m = 2
    BY <2>2 DEF Request
  <2>3. CASE m = 32
    BY <2>3 DEF Request
  <2>4. CASE m = 40
    BY <2>4 DEF Request
  <2>5. CASE m = 56
    BY <2>5 DEF Request
  <2>6. CASE m = 57
    BY <2>6 DEF Request
  <2>7. CASE m \notin {0, 2, 32, 40, 56, 57}
    <3>1. own = [players |-> 10]
      BY <2>7
    <3> QED BY <3>1 DEF Request
  <2> QED BY <2>1, <2>2, <2>3, <2>4, <2>5, <2>6, <2>7
<1>4. m = 0 => "winLimit" \in DOMAIN own
  OBVIOUS
<1> HIDE DEF base, own
<1>5. DOMAIN With(base, own) = DOMAIN base \cup DOMAIN own
  BY WithFacts
<1>6. DOMAIN OfRoom(With(base, own)) = DOMAIN With(base, own) \cap Field
  BY DEF OfRoom, Restrict
<1>7. WinField \subseteq Field
  BY DEF WinField, Field
<1> QED BY <1>1, <1>2, <1>3, <1>4, <1>5, <1>6, <1>7 DEF WinField

LEMMA CompetitiveDomain ==
  ASSUME NEW m
  PROVE  DOMAIN ZbCompetitive(m) \cap (Request \cup {"family"}) = {}
<1> DEFINE own == [winLimit |-> IF m = 14 THEN 7 ELSE 13, gameTime |-> 150, roundTime |-> 3, buyTime |-> 90,
                   startingCash |-> Usual["startingCash"][m], teamBalance |-> 1, friendlyFire |-> 0,
                   enhanceRestrict |-> 0, zbLimitFlag |-> 0, zbRespawn |-> 1, zbBalance |-> 1, fireBomb |-> 1]
<1>1. DOMAIN own \cap (Request \cup {"family"}) = {}
  BY DEF Request
<1>2. ZbCompetitive(m) = OfRoom(own)
  BY DEF ZbCompetitive
<1> HIDE DEF own
<1> QED BY <1>1, <1>2, RestrictedDomains

(***************************************************************************)
(* What is left of a block fits                                            *)
(***************************************************************************)

\* c is what has become of the block b.
LoadedFits(b, c, m) ==
  /\ Switches(c, m) /\ (Escapes(b, m) \/ WinYet(c, m))
  /\ "mode" \in DOMAIN b => Filled(c) /\ Win(c, m)

\* Nothing changes in that when fields come over it that fit.
LEMMA LoadedWith ==
  ASSUME NEW b, NEW c, NEW m, LoadedFits(b, c, m), NEW v, Fits(v, m), "family" \notin DOMAIN v
  PROVE  LoadedFits(b, With(c, v), m)
<1>1. Switches(With(c, v), m)
  BY SwitchesWith DEF LoadedFits, Fits
<1>2. (Escapes(b, m) \/ WinYet(With(c, v), m)) /\ (Win(c, m) => Win(With(c, v), m))
  BY WinWith DEF LoadedFits, Fits
<1>3. Filled(c) => Filled(With(c, v))
  BY FilledWith
<1> QED BY <1>1, <1>2, <1>3 DEF LoadedFits

LEMMA LoadedWithout ==
  ASSUME NEW b, NEW c, NEW m, LoadedFits(b, c, m), NEW F, (Fixed \cup WinField) \cap F = {}
  PROVE  LoadedFits(b, Without(c, F), m)
BY FitsWithout DEF LoadedFits

LEMMA OfModeFits ==
  ASSUME TablesFit, NEW m \in Offered, NEW b, NEW map
  PROVE  Fits(OfMode(b, m, map), m) /\ Filled(OfMode(b, m, map)) /\ SameRequest(b, OfMode(b, m, map))
<1> DEFINE set == Defaults(m, Rule \ Lasting)
           own == With(b, set)
           sized == IF map = Studio THEN own ELSE With(own, [players |-> ModeMax[m]])
<1>1. /\ DOMAIN set = (Rule \ Lasting) \cup Limit /\ DOMAIN set \cap Request = {}
      /\ Switches(set, m) /\ Win(set, m) /\ Filled(set)
  <2>1. (Rule \ Lasting) \in SUBSET Rule
    OBVIOUS
  <2> QED BY <2>1, DefaultsFit
<1>2. Fixed \subseteq DOMAIN set /\ WinField \subseteq DOMAIN set
  BY <1>1, FixedNames DEF Filled
<1>3. SameRequest(b, b)
  BY DEF SameRequest
<1> HIDE DEF set
<1>4. Switches(own, m) /\ Win(own, m) /\ Filled(own) /\ SameRequest(b, own)
  BY <1>1, <1>2, <1>3, SwitchesWith, WinWith, FilledWith, SameRequestWith
<1> HIDE DEF own
<1>5. ASSUME NEW v, DOMAIN v \cap (Fixed \cup WinField \cup Request) = {}, NEW c,
             Fits(c, m), Filled(c), SameRequest(b, c)
      PROVE  Fits(With(c, v), m) /\ Filled(With(c, v)) /\ SameRequest(b, With(c, v))
  <2>1. Fits(v, m)
    BY <1>5, OtherFields
  <2>2. Switches(With(c, v), m) /\ Win(With(c, v), m)
    BY <1>5, <2>1, SwitchesWith, WinWith DEF Fits
  <2> QED BY <1>5, <2>2, FilledWith, SameRequestWith DEF Fits
<1>6. Fits(sized, m) /\ Filled(sized) /\ SameRequest(b, sized)
  <2>1. DOMAIN [players |-> ModeMax[m]] \cap (Fixed \cup WinField \cup Request) = {}
    BY FixedNames DEF WinField, Request
  <2> QED BY <1>4, <1>5, <2>1 DEF Fits
<1> HIDE DEF sized
<1>7. DOMAIN NoBattle \cap (Fixed \cup WinField \cup Request) = {}
  BY FixedNames DEF WinField, Request, NoBattle
<1>8. OfMode(b, m, map) = IF m \in BattleModes THEN sized ELSE With(sized, NoBattle)
  BY DEF OfMode, sized, own, set
<1> QED BY <1>5, <1>6, <1>7, <1>8

\* Clamping to 0 and 1 keeps a default.
LEMMA ClampLegal ==
  ASSUME NEW r, NEW m, NEW x, Legal(r, m, x)
  PROVE  Legal(r, m, Clamp(r, x))
<1>1. CASE m \in Free[r]
  BY <1>1 DEF Legal
<1>2. CASE m \notin Free[r]
  <2>1. x \in {0, 1} /\ x = Default(r, m)
    BY <1>2 DEF Legal, Default
  <2>2. Clamp(r, x) = x
    BY <2>1 DEF Clamp
  <2> QED BY <2>1, <2>2 DEF Legal
<1> QED BY <1>1, <1>2

LEMMA ValidatedFits ==
  ASSUME NEW b, NEW m
  PROVE  /\ DOMAIN Validated(b, m) \subseteq DOMAIN b
         /\ Switches(Validated(b, m), m)
         /\ Win(Validated(b, m), m) \/ m \in {0, 3}
         /\ SameRequest(b, Validated(b, m))
         /\ "family" \in DOMAIN Validated(b, m) =>
              /\ Validated(b, m).family = b.family
              /\ m \in BattleModes \/ b.family = 0
<1> DEFINE v == Validated(b, m)
<1>1. DOMAIN v = {g \in DOMAIN b : Kept(b, m, g)}
  BY DEF Validated
<1>2. \A f \in DOMAIN v : v[f] = IF f \in Rule THEN Clamp(f, b[f]) ELSE b[f]
  BY DEF Validated
<1> HIDE DEF v
<1>3. Switches(v, m)
  <2> SUFFICES ASSUME NEW r \in Fixed \cap DOMAIN v PROVE Legal(r, m, v[r])
    BY DEF Switches
  <2>1. r \in Rule /\ r \notin Limit /\ r \notin {"players", "family"}
    BY FixedNames
  <2>2. Legal(r, m, b[r])
    BY <1>1, <2>1 DEF Kept
  <2> QED BY <1>2, <2>1, <2>2, ClampLegal
<1>4. Win(v, m) \/ m \in {0, 3}
  <2> SUFFICES ASSUME m \notin {0, 3}, NEW l \in WinField \cap DOMAIN v PROVE v[l] \in WinLimits(m)
    BY DEF Win
  <2>1. l = "winLimit" /\ l \in Limit /\ l \notin Rule
    BY FixedNames DEF WinField
  <2>2. Kept(b, m, "winLimit")
    BY <1>1, <2>1
  <2>3. b["winLimit"] \in Allowed["winLimit"][m]
    BY <2>1, <2>2 DEF Kept
  <2> QED BY <1>2, <2>1, <2>3 DEF WinLimits
<1>5. SameRequest(b, v)
  <2> SUFFICES ASSUME NEW f \in Request
               PROVE  (f \in DOMAIN v <=> f \in DOMAIN b) /\ (f \in DOMAIN b => v[f] = b[f])
    BY DEF SameRequest
  <2>1. f \notin Rule /\ f \notin Limit /\ f \notin {"players", "family"}
    BY FixedNames DEF Request
  <2>2. Kept(b, m, f)
    BY <2>1 DEF Kept
  <2> QED BY <1>1, <1>2, <2>1, <2>2
<1>6. "family" \in DOMAIN v => v.family = b.family /\ (m \in BattleModes \/ b.family = 0)
  <2>1. "family" \notin Rule /\ "family" \notin Limit
    BY FixedNames
  <2>2. Kept(b, m, "family") => m \in BattleModes \/ b.family = 0
    BY <2>1 DEF Kept
  <2> QED BY <1>1, <1>2, <2>1, <2>2
<1> QED BY <1>1, <1>3, <1>4, <1>5, <1>6 DEF v

\* A block without a mode, after its battle has been turned on or off.
LEMMA BattlingFits ==
  ASSUME TablesFit, NEW m \in Offered, NEW b, "mode" \notin DOMAIN b,
         "family" \in DOMAIN b => b.family \in {0, 1}
  PROVE  LET c == Battling(Validated(b, m), m)
         IN Switches(c, m) /\ (Escapes(b, m) \/ WinYet(c, m)) /\ SameRequest(b, c)
<1> DEFINE v == Validated(b, m)
           off == OfRoom(IF m = 0 THEN [enhanceRestrict |-> 0] ELSE <<>>)
<1>1. /\ DOMAIN v \subseteq DOMAIN b /\ Switches(v, m) /\ (Win(v, m) \/ m \in {0, 3})
      /\ SameRequest(b, v)
      /\ "family" \in DOMAIN v => v.family = b.family /\ (m \in BattleModes \/ b.family = 0)
  BY ValidatedFits
<1>3. Fits(off, m) /\ DOMAIN off \cap Request = {}
  <2> DEFINE o == IF m = 0 THEN [enhanceRestrict |-> 0] ELSE <<>>
  <2>1. DOMAIN o \subseteq {"enhanceRestrict"} /\ (DOMAIN o # {} => m = 0)
    OBVIOUS
  <2>2. \A x : m = 0 => Legal("enhanceRestrict", m, x)
    BY DEF Legal, Free
  <2> HIDE DEF o
  <2>3. Fits(OfRoom(o), m) /\ DOMAIN OfRoom(o) \subseteq DOMAIN o
    BY <2>1, <2>2, OfRoomFits
  <2> QED BY <2>1, <2>3 DEF o, Request
<1> HIDE DEF v
<1>2. Battling(v, m) = CASE "family" \notin DOMAIN v -> v
                         [] "family" \in DOMAIN v /\ v.family = 1 -> With(v, Battle(m))
                         [] OTHER -> With(With(v, NoBattle), off)
  BY DEF Battling
<1> HIDE DEF off
<1>4. CASE "family" \notin DOMAIN v
  <2>1. Battling(v, m) = v
    BY <1>2, <1>4
  <2>2. WinYet(v, m)
    BY <1>1, <1>4 DEF WinYet
  <2> QED BY <1>1, <2>1, <2>2 DEF v
<1>5. CASE "family" \in DOMAIN v /\ v.family = 1
  <2>1. m \in BattleModes
    BY <1>1, <1>5
  <2>2. Fits(Battle(m), m)
    BY <2>1, BattleFits
  <2>3. Switches(With(v, Battle(m)), m)
    BY <1>1, <2>2, SwitchesWith DEF Fits
  <2>4. Win(With(v, Battle(m)), m)
    <3>1. CASE m = 0
      BY <2>2, <3>1, BattleDomain, WinWith DEF Fits
    <3>2. CASE m # 0
      BY <1>1, <2>1, <2>2, <3>2, WinWith DEF Fits, BattleModes
    <3> QED BY <3>1, <3>2
  <2>5. DOMAIN Battle(m) \cap Request = {}
    BY BattleDomain
  <2>6. SameRequest(b, With(v, Battle(m)))
    BY <1>1, <2>5, SameRequestWith
  <2> QED BY <1>2, <1>5, <2>3, <2>4, <2>6 DEF WinYet, v
<1>6. CASE "family" \in DOMAIN v /\ v.family # 1
  <2>1. "family" \in DOMAIN b /\ b.family = 0
    BY <1>1, <1>6
  <2>2. Escapes(b, m) \/ Win(v, m)
    BY <1>1, <2>1 DEF Escapes, Win, WinField
  <2>3. DOMAIN NoBattle \cap (Fixed \cup WinField \cup Request) = {}
    BY FixedNames DEF WinField, Request, NoBattle
  <2>4. Fits(NoBattle, m)
    BY <2>3, OtherFields
  <2>5. /\ Switches(With(v, NoBattle), m) /\ SameRequest(b, With(v, NoBattle))
        /\ Escapes(b, m) \/ Win(With(v, NoBattle), m)
    BY <1>1, <2>2, <2>3, <2>4, SwitchesWith, WinWith, SameRequestWith DEF Fits
  <2>6. /\ Switches(With(With(v, NoBattle), off), m)
        /\ Escapes(b, m) \/ Win(With(With(v, NoBattle), off), m)
        /\ SameRequest(b, With(With(v, NoBattle), off))
    BY <1>3, <2>5, SwitchesWith, WinWith, SameRequestWith DEF Fits
  <2> QED BY <1>2, <1>6, <2>6 DEF WinYet, v
<1> QED BY <1>4, <1>5, <1>6

LEMMA OnMapFits ==
  ASSUME NEW m \in Mode, NEW map, NEW b, NEW c, LoadedFits(b, c, m), SameRequest(b, c),
         "map" \in DOMAIN b /\ map = Competitive => m \in CompetitiveModes
  PROVE  LoadedFits(b, OnMap(c, m, map), m) /\ SameRequest(b, OnMap(c, m, map))
<1> DEFINE sized == IF map = Studio THEN c ELSE With(c, [players |-> MapMax[map]])
           set == With(sized, [competitive |-> map = Competitive])
           cut == [c EXCEPT !.players = MapMax[map]]
<1>1. ASSUME NEW v, DOMAIN v \cap (Fixed \cup WinField \cup Request \cup {"family"}) = {}, NEW d,
             LoadedFits(b, d, m), SameRequest(b, d)
      PROVE  LoadedFits(b, With(d, v), m) /\ SameRequest(b, With(d, v))
  <2>1. Fits(v, m)
    BY <1>1, OtherFields
  <2> QED BY <1>1, <2>1, LoadedWith, SameRequestWith
<1>2. /\ DOMAIN [players |-> MapMax[map]] \cap (Fixed \cup WinField \cup Request \cup {"family"}) = {}
      /\ DOMAIN [competitive |-> map = Competitive] \cap (Fixed \cup WinField \cup Request \cup {"family"}) = {}
  BY FixedNames DEF WinField, Request
<1>3. LoadedFits(b, sized, m) /\ SameRequest(b, sized)
  BY <1>1, <1>2
<1> HIDE DEF sized
<1>4. LoadedFits(b, set, m) /\ SameRequest(b, set)
  BY <1>1, <1>2, <1>3
<1> HIDE DEF set
<1>5. "map" \in DOMAIN b /\ map = Competitive =>
        LoadedFits(b, With(set, ZbCompetitive(m)), m) /\ SameRequest(b, With(set, ZbCompetitive(m)))
  <2> SUFFICES ASSUME "map" \in DOMAIN b, map = Competitive
               PROVE  LoadedFits(b, With(set, ZbCompetitive(m)), m) /\ SameRequest(b, With(set, ZbCompetitive(m)))
    OBVIOUS
  <2>1. Fits(ZbCompetitive(m), m) /\ DOMAIN ZbCompetitive(m) \cap (Request \cup {"family"}) = {}
    BY CompetitiveFits, CompetitiveDomain
  <2>2. "family" \notin DOMAIN ZbCompetitive(m) /\ DOMAIN ZbCompetitive(m) \cap Request = {}
    BY <2>1
  <2> QED BY <1>4, <2>1, <2>2, LoadedWith, SameRequestWith
<1>6. LoadedFits(b, cut, m) /\ SameRequest(b, cut)
  <2>1. DOMAIN cut = DOMAIN c /\ \A f : f # "players" /\ f \in DOMAIN c => cut[f] = c[f]
    OBVIOUS
  <2> HIDE DEF cut
  <2>2. "players" \notin Fixed \cup WinField \cup Request
    BY FixedNames DEF WinField, Request
  <2>3. Switches(c, m) => Switches(cut, m)
    BY <2>1, <2>2 DEF Switches
  <2>4. Win(c, m) => Win(cut, m)
    BY <2>1, <2>2 DEF Win
  <2>5. Filled(c) => Filled(cut)
    BY <2>1 DEF Filled
  <2>6. SameRequest(b, cut)
    BY <2>1, <2>2 DEF SameRequest
  <2> QED BY <2>1, <2>3, <2>4, <2>5, <2>6 DEF LoadedFits, WinYet
<1> HIDE DEF cut
<1>7. "map" \in DOMAIN c <=> "map" \in DOMAIN b
  BY DEF SameRequest, Request
<1>8. OnMap(c, m, map) = CASE "map" \in DOMAIN c -> IF map = Competitive THEN With(set, ZbCompetitive(m)) ELSE set
                           [] {"map", "players"} \cap DOMAIN c = {"players"} /\ c.players > MapMax[map] -> cut
                           [] OTHER -> c
  BY DEF OnMap, set, sized, cut
<1> QED BY <1>4, <1>5, <1>6, <1>7, <1>8

\* What is left of the block when its playlist is refused: the mode as it was.
LEMMA SelectedFits ==
  ASSUME NEW m, NEW map, NEW b, NEW c, LoadedFits(b, c, m), SameRequest(b, c)
  PROVE  LET l == Selected(c, m, map)
         IN /\ LoadedFits(b, l, m)
            /\ "mode" \in DOMAIN l <=> "mode" \in DOMAIN b
            /\ "mode" \in DOMAIN b => l.mode = b.mode
<1> DEFINE drawn == IF "randomMap" \in DOMAIN c /\ ~Legal("randomMap", m, c.randomMap)
                    THEN Without(c, {"randomMap"}) ELSE c
           cut == Without(drawn, {"map", "playlist"})
           kept == "playlist" \in DOMAIN c => PlaylistAllowed(c.playlist, m, map)
           first == IF "playlist" \in DOMAIN c /\ ListShaped(c.playlist, m, map)
                    THEN [index |-> 1] ELSE <<>>
           left == IF kept THEN drawn ELSE cut
           listed == With(left, first)
<1>1. "randomMap" \notin Fixed \cup WinField \cup Request /\ {"map", "playlist"} \cap (Fixed \cup WinField) = {}
  BY FixedNames DEF WinField, Request
<1>2. DOMAIN first \subseteq {"index"} /\ DOMAIN [playlist |-> <<>>] = {"playlist"}
  OBVIOUS
<1>5. Selected(c, m, map) = IF "map" \in DOMAIN listed /\ "playlist" \notin DOMAIN c
                            THEN With(listed, [playlist |-> <<>>]) ELSE listed
  BY DEF Selected
<1> HIDE DEF kept, first
<1>6. LoadedFits(b, drawn, m) /\ SameRequest(b, drawn)
  <2>1. LoadedFits(b, Without(c, {"randomMap"}), m)
    BY <1>1, LoadedWithout
  <2>2. SameRequest(b, Without(c, {"randomMap"}))
    <3> SUFFICES ASSUME NEW f \in Request
                 PROVE  /\ f \in DOMAIN Without(c, {"randomMap"}) <=> f \in DOMAIN b
                        /\ f \in DOMAIN b => Without(c, {"randomMap"})[f] = b[f]
      BY DEF SameRequest
    <3> QED BY <1>1, WithoutField DEF SameRequest
  <2> QED BY <2>1, <2>2
<1> HIDE DEF drawn
<1>7. LoadedFits(b, cut, m)
  BY <1>1, <1>6, LoadedWithout
<1>8. /\ DOMAIN cut = DOMAIN drawn \ {"map", "playlist"}
      /\ "mode" \in DOMAIN drawn => cut.mode = drawn.mode
  <2>1. DOMAIN cut = DOMAIN drawn \ {"map", "playlist"}
    BY WithoutFacts
  <2>2. ASSUME NEW f \in DOMAIN drawn \ {"map", "playlist"} PROVE cut[f] = drawn[f]
    BY WithoutField
  <2> QED BY <2>1, <2>2
<1> HIDE DEF cut
<1>9. LoadedFits(b, left, m)
  BY <1>6, <1>7
<1>10. /\ "mode" \in DOMAIN left <=> "mode" \in DOMAIN b
       /\ "mode" \in DOMAIN b => left.mode = b.mode
  BY <1>6, <1>8 DEF SameRequest, Request
<1> HIDE DEF left
<1>11. Fits(first, m) /\ Fits([playlist |-> <<>>], m)
  <2>1. {"index", "playlist"} \cap (Fixed \cup WinField) = {}
    BY FixedNames DEF WinField, Request
  <2> QED BY <1>2, <2>1, OtherFields
<1>12. LoadedFits(b, listed, m)
  BY <1>2, <1>9, <1>11, LoadedWith
<1>13. DOMAIN listed = DOMAIN left \cup DOMAIN first /\ \A f \in DOMAIN left \ {"index"} : listed[f] = left[f]
  BY <1>2, WithFacts
<1>14. /\ "mode" \in DOMAIN listed <=> "mode" \in DOMAIN b
       /\ "mode" \in DOMAIN b => listed.mode = b.mode
  BY <1>2, <1>10, <1>13
<1> HIDE DEF listed
<1> DEFINE more == With(listed, [playlist |-> <<>>])
<1>15. LoadedFits(b, more, m)
  BY <1>11, <1>12, LoadedWith
<1>16. /\ "mode" \in DOMAIN more <=> "mode" \in DOMAIN b
       /\ "mode" \in DOMAIN b => more.mode = b.mode
  <2>1. DOMAIN more = DOMAIN listed \cup {"playlist"}
    BY <1>2, WithFacts
  <2>2. ASSUME NEW f \in DOMAIN listed \ {"playlist"} PROVE more[f] = listed[f]
    BY <1>2, WithField
  <2> QED BY <1>14, <2>1, <2>2
<1> HIDE DEF more
<1>17. CASE "map" \in DOMAIN listed /\ "playlist" \notin DOMAIN c
  <2>1. Selected(c, m, map) = more
    BY <1>5, <1>17 DEF more
  <2> QED BY <1>15, <1>16, <2>1
<1>18. CASE ~("map" \in DOMAIN listed /\ "playlist" \notin DOMAIN c)
  <2>1. Selected(c, m, map) = listed
    BY <1>5, <1>18
  <2> QED BY <1>12, <1>14, <2>1
<1> QED BY <1>17, <1>18

\* All of LoadNewSettings.
LEMMA LoadNewSettingsFits ==
  ASSUME TablesFit, NEW m \in Offered, NEW map, NEW b,
         "family" \in DOMAIN b => b.family \in {0, 1},
         "map" \in DOMAIN b /\ map = Competitive => m \in CompetitiveModes
  PROVE  LET l == LoadNewSettings(b, m, map)
         IN /\ LoadedFits(b, l, m)
            /\ "mode" \in DOMAIN l <=> "mode" \in DOMAIN b
            /\ "mode" \in DOMAIN b => l.mode = b.mode
<1> DEFINE c == IF "mode" \in DOMAIN b THEN OfMode(b, m, map) ELSE Battling(Validated(b, m), m)
<1>1. LoadedFits(b, c, m) /\ SameRequest(b, c)
  <2>1. CASE "mode" \in DOMAIN b
    <3>1. Fits(OfMode(b, m, map), m) /\ Filled(OfMode(b, m, map)) /\ SameRequest(b, OfMode(b, m, map))
      BY OfModeFits
    <3> QED BY <2>1, <3>1 DEF LoadedFits, Fits, WinYet
  <2>2. CASE "mode" \notin DOMAIN b
    BY <2>2, BattlingFits DEF LoadedFits
  <2> QED BY <2>1, <2>2
<1> HIDE DEF c
<1>2. m \in Mode
  BY DEF TablesFit
<1>3. LoadedFits(b, OnMap(c, m, map), m) /\ SameRequest(b, OnMap(c, m, map))
  BY <1>1, <1>2, OnMapFits
<1>4. LoadNewSettings(b, m, map) = Selected(OnMap(c, m, map), m, map)
  BY DEF LoadNewSettings, c
<1> QED BY <1>3, <1>4, SelectedFits

(***************************************************************************)
(* A change of the settings                                                *)
(***************************************************************************)

LEMMA ReceivedFields ==
  ASSUME NEW b, NEW f \in Request \cup {"family", "winLimit"}
  PROVE  /\ f \in DOMAIN Received(b) <=> f \in DOMAIN b
         /\ f \in DOMAIN b => Received(b)[f] = b[f]
<1>1. f \notin {"index", "competitive", "id1", "id2"}
  BY DEF Request
<1> QED BY <1>1, WithoutField DEF Received

\* Only in the modes 0 and 3 does the win limit of a block still have to be tested.
LEMMA WinLimitFits ==
  ASSUME TablesFit, NEW m \in Offered, settings.mode = m, NEW b, Switches(b, m)
  PROVE  /\ Switches(WinLimit(b), m) /\ SameRequest(b, WinLimit(b))
         /\ WinYet(b, m) => Win(WinLimit(b), m)
<1> DEFINE usual == [winLimit |-> Usual["winLimit"][m]]
           bare == Without(b, {"winLimit"})
           off == \E r \in LeagueRules : SwitchedOff(b, r)
           limits == IF \E r \in LeagueRules : settings[r] # 0 THEN {6, 8, 10, 12, 14, 16}
                     ELSE Allowed["winLimit"][m]
           outside == {"winLimit", "family"} \cap DOMAIN b = {"winLimit"} /\ b.winLimit \notin limits
<1>1. "winLimit" \notin Request /\ "winLimit" \notin Fixed
  BY FixedNames DEF Request
<1>2. SameRequest(b, b)
  BY DEF SameRequest
<1>3. WinLimit(b) = IF m \notin {0, 3} \/ "winLimit" \notin Limit THEN b
                    ELSE CASE off -> With(b, usual) [] ~off /\ outside -> bare [] OTHER -> b
  BY DEF WinLimit
<1>4. m \in {0, 3} => limits \subseteq WinLimits(m)
  BY DEF WinLimits
<1>5. DOMAIN usual = {"winLimit"} /\ usual["winLimit"] = Usual["winLimit"][m]
  OBVIOUS
<1>6. DOMAIN bare = DOMAIN b \ {"winLimit"}
  BY WithoutFacts
<1>7. SameRequest(b, bare)
  <2> SUFFICES ASSUME NEW f \in Request
               PROVE  (f \in DOMAIN bare <=> f \in DOMAIN b) /\ (f \in DOMAIN b => bare[f] = b[f])
    BY DEF SameRequest
  <2> QED BY <1>1, WithoutField
<1>8. Fits(bare, m)
  <2>1. Switches(bare, m)
    BY FitsWithout
  <2> HIDE DEF bare
  <2> QED BY <1>6, <2>1 DEF Fits, Win, WinField
<1> HIDE DEF off, limits, usual, bare
<1>9. CASE m \notin {0, 3} \/ "winLimit" \notin Limit
  <2>1. WinYet(b, m) => Win(b, m)
    BY <1>9 DEF WinYet, Win, WinField
  <2> QED BY <1>2, <1>3, <1>9, <2>1
<1>10. CASE m \in {0, 3} /\ "winLimit" \in Limit /\ off
  <2>1. WinLimit(b) = With(b, usual)
    BY <1>3, <1>10
  <2>2. Usual["winLimit"][m] \in WinLimits(m)
    BY <1>10 DEF TablesFit, WinLimits
  <2>3. Switches(usual, m) /\ Win(usual, m) /\ WinField \subseteq DOMAIN usual
    BY <1>1, <1>5, <2>2 DEF Switches, Win, WinField
  <2>4. DOMAIN usual \cap Request = {}
    BY <1>1, <1>5
  <2> QED BY <1>2, <2>1, <2>3, <2>4, SwitchesWith, WinWith, SameRequestWith
<1>11. CASE m \in {0, 3} /\ "winLimit" \in Limit /\ ~off /\ outside
  BY <1>3, <1>7, <1>8, <1>11 DEF Fits
<1>12. CASE m \in {0, 3} /\ "winLimit" \in Limit /\ ~off /\ ~outside
  <2>1. WinLimit(b) = b
    BY <1>3, <1>12
  <2>2. ASSUME WinYet(b, m) PROVE Win(b, m)
    <3>1. CASE Win(b, m)
      BY <3>1
    <3>2. CASE "family" \notin DOMAIN b
      <4>1. "winLimit" \in DOMAIN b => b.winLimit \in limits
        BY <1>12, <3>2
      <4> QED BY <1>4, <1>12, <4>1 DEF Win, WinField
    <3> QED BY <2>2, <3>1, <3>2 DEF WinYet
  <2> QED BY <1>2, <2>1, <2>2
<1> QED BY <1>9, <1>10, <1>11, <1>12

LEMMA BombsFits ==
  ASSUME NEW b, NEW m
  PROVE  /\ Switches(b, m) => Switches(Bombs(b), m)
         /\ Win(b, m) => Win(Bombs(b), m)
         /\ SameRequest(b, Bombs(b))
<1> DEFINE F == {f \in DOMAIN b :
                   \/ f = "zbLimitFlag" /\ settings.mode # 9 /\ b[f] = 1 /\ "fireBomb" \in Rule /\ settings.fireBomb = 0
                   \/ f = "fireBomb" /\ b[f] = 0 /\ "zbLimitFlag" \in Rule /\ settings.zbLimitFlag = 1}
<1>1. Bombs(b) = Without(b, F) /\ F \cap Request = {}
  BY DEF Bombs, Request
<1> HIDE DEF F
<1>2. (Switches(b, m) => Switches(Without(b, F), m)) /\ (Win(b, m) => Win(Without(b, F), m))
  BY FitsWithout
<1>3. SameRequest(b, Without(b, F))
  <2> SUFFICES ASSUME NEW f \in Request
               PROVE  (f \in DOMAIN Without(b, F) <=> f \in DOMAIN b) /\ (f \in DOMAIN b => Without(b, F)[f] = b[f])
    BY DEF SameRequest
  <2> QED BY <1>1, WithoutField
<1> QED BY <1>1, <1>2, <1>3

LEMMA SameRequestTwice ==
  ASSUME NEW a, NEW b, NEW c, SameRequest(a, b), SameRequest(b, c)
  PROVE  SameRequest(a, c)
BY DEF SameRequest

\* A slot brings a mode, and keeps the rest of the block.
LEMMA SlotFields ==
  ASSUME NEW b, NEW sent \in Slots(b)
  PROVE  \A f \in {"map", "playlist", "family", "winLimit"} :
           (f \in DOMAIN sent <=> f \in DOMAIN b) /\ (f \in DOMAIN b => sent[f] = b[f])
<1> SUFFICES ASSUME NEW f \in {"map", "playlist", "family", "winLimit"}
             PROVE  (f \in DOMAIN sent <=> f \in DOMAIN b) /\ (f \in DOMAIN b => sent[f] = b[f])
  OBVIOUS
<1>1. CASE sent = b
  BY <1>1
<1>2. ASSUME NEW m, sent = With(b, [mode |-> m, players |-> ModeMax[m]])
      PROVE  (f \in DOMAIN sent <=> f \in DOMAIN b) /\ (f \in DOMAIN b => sent[f] = b[f])
  <2> DEFINE v == [mode |-> m, players |-> ModeMax[m]]
  <2>1. DOMAIN v = {"mode", "players"}
    OBVIOUS
  <2>2. f \notin DOMAIN v
    BY <2>1
  <2>3. sent = With(b, v)
    BY <1>2
  <2> HIDE DEF v
  <2>4. DOMAIN sent = DOMAIN b \cup DOMAIN v
    BY <2>3, WithFacts
  <2> QED BY <2>2, <2>3, <2>4, WithField
<1>3. sent = b \/ \E m : sent = With(b, [mode |-> m, players |-> ModeMax[m]])
  BY DEF Slots
<1> QED BY <1>1, <1>2, <1>3

\* What CheckNewSettings leaves of a block fits the mode the room is going to have, and its win
\* limit does unless it escapes.
LEMMA CheckedFits ==
  ASSUME TablesFit, settings.mode \in Offered, ~MapAstray(settings),
         NEW b \in Update, NEW sent \in Slots(b), Taken(sent)
  PROVE  LET l == CheckNewSettings(sent)
             m == ModeOf(sent)
         IN /\ m \in Offered
            /\ Switches(l, m) /\ (Untested(sent) = {"winLimit"} \/ Win(l, m))
            /\ m # settings.mode => Filled(l) /\ Win(l, m) /\ "mode" \in DOMAIN l
            /\ "mode" \in DOMAIN l => l.mode = m
<1> DEFINE m == ModeOf(sent)
           map == MapOf(sent)
           r == Received(sent)
           loaded == LoadNewSettings(r, m, map)
           l == CheckNewSettings(sent)
<1>1. m \in Offered
  BY DEF Taken, ChangesMode
<1>2. map = Competitive => m \in CompetitiveModes
  <2>1. SUFFICES ASSUME map = Competitive PROVE IsMapValid(m, Competitive)
    BY <1>1 DEF TablesFit
  <2>2. CASE ChangesMode(sent) \/ ChangesMap(sent)
    BY <2>1, <2>2 DEF Taken
  <2>3. CASE ~(ChangesMode(sent) \/ ChangesMap(sent))
    BY <2>1, <2>3 DEF ChangesMode, ChangesMap, MapAstray
  <2> QED BY <2>2, <2>3
<1>3. \A f \in Request \cup {"family", "winLimit"} :
        (f \in DOMAIN r <=> f \in DOMAIN sent) /\ (f \in DOMAIN sent => r[f] = sent[f])
  BY ReceivedFields
<1>4. "family" \in DOMAIN r => r.family \in {0, 1}
  <2>1. ("family" \in DOMAIN sent <=> "family" \in DOMAIN b) /\ ("family" \in DOMAIN b => sent.family = b.family)
    BY SlotFields
  <2> QED BY <1>3, <2>1, RoomAssumption
<1>5. "mode" \in DOMAIN r => r.mode = m
  BY <1>3 DEF ModeOf, Request
<1>6. m # settings.mode => "mode" \in DOMAIN r
  BY <1>3 DEF ModeOf, Request
<1>7. Escapes(r, m) => Untested(sent) = {"winLimit"}
  <2>1. SUFFICES ASSUME Escapes(r, m) PROVE Untested(sent) = {"winLimit"}
    OBVIOUS
  <2>2. m = settings.mode
    BY <1>6, <2>1 DEF Escapes
  <2> QED BY <1>3, <2>1, <2>2 DEF Escapes, Untested, Request
<1> HIDE DEF m, map, r
<1>8. /\ LoadedFits(r, loaded, m)
      /\ "mode" \in DOMAIN loaded <=> "mode" \in DOMAIN r
      /\ "mode" \in DOMAIN r => loaded.mode = r.mode
  BY <1>1, <1>2, <1>4, LoadNewSettingsFits
<1> HIDE DEF loaded
<1>9. ASSUME SameRequest(loaded, l)
      PROVE  /\ "mode" \in DOMAIN l <=> "mode" \in DOMAIN r
             /\ "mode" \in DOMAIN l => l.mode = m
  <2> HIDE DEF l
  <2> QED BY <1>5, <1>8, <1>9 DEF SameRequest, Request
<1>10. CASE ~ChangesMode(sent)
  <2>1. m = settings.mode /\ l = Bombs(WinLimit(loaded))
    BY <1>10 DEF ChangesMode, CheckNewSettings, loaded, m, map, r
  <2>2. /\ Switches(WinLimit(loaded), m) /\ SameRequest(loaded, WinLimit(loaded))
        /\ Escapes(r, m) \/ Win(WinLimit(loaded), m)
    BY <1>1, <1>8, <2>1, WinLimitFits DEF LoadedFits
  <2>3. /\ Switches(l, m) /\ (Escapes(r, m) \/ Win(l, m))
        /\ SameRequest(WinLimit(loaded), l)
    BY <2>1, <2>2, BombsFits
  <2>4. SameRequest(loaded, l)
    BY <2>2, <2>3, SameRequestTwice
  <2> QED BY <1>1, <1>7, <1>9, <2>1, <2>3, <2>4 DEF m
<1>11. CASE ChangesMode(sent)
  <2>1. m # settings.mode /\ "mode" \in DOMAIN r
    BY <1>6, <1>11 DEF ChangesMode, m
  <2>2. Switches(loaded, m) /\ Win(loaded, m) /\ Filled(loaded)
    BY <1>8, <2>1 DEF LoadedFits
  <2>3. SameRequest(loaded, loaded)
    BY DEF SameRequest
  <2>4. Switches(l, m) /\ Win(l, m) /\ Filled(l) /\ SameRequest(loaded, l)
    <3>1. CASE m \in BattleModes /\ settings.family = 1
      <4>1. l = With(loaded, Battle(m))
        BY <1>11, <3>1 DEF CheckNewSettings, loaded, m, map, r
      <4>2. Fits(Battle(m), m) /\ DOMAIN Battle(m) \cap Request = {}
        BY <1>1, <3>1, BattleFits, BattleDomain
      <4> QED BY <2>2, <2>3, <4>1, <4>2, SwitchesWith, WinWith, FilledWith, SameRequestWith DEF Fits
    <3>2. CASE ~(m \in BattleModes /\ settings.family = 1)
      <4>1. l = loaded
        BY <1>11, <3>2 DEF CheckNewSettings, loaded, m, map, r
      <4> QED BY <2>2, <2>3, <4>1
    <3> QED BY <3>1, <3>2
  <2> QED BY <1>1, <1>9, <2>1, <2>4 DEF m
<1> QED BY <1>10, <1>11

\* The room after a change: what has not been tested of it is its win limit.
LEMMA UpdatedFits ==
  ASSUME TablesFit, RoomFits(settings, "winLimit" \notin astray), ~MapAstray(settings),
         NEW b \in Update, NEW sent \in Slots(b), Taken(sent), NEW second
  PROVE  LET t == UpdateSettings(CheckNewSettings(sent), second)
         IN /\ RoomFits(t, FALSE)
            /\ Win(t, t.mode) \/ Untested(sent) = {"winLimit"}
                 \/ ("winLimit" \in astray /\ t.mode = settings.mode /\ t.winLimit = settings.winLimit)
<1> DEFINE l == CheckNewSettings(sent)
           m == ModeOf(sent)
           s == With(settings, l)
           ids == IF "family" \in DOMAIN l
                  THEN [id1 |-> IF l.family = 1 THEN clan[host] ELSE NoClan, id2 |-> second] ELSE <<>>
           t == With(s, ids)
<1>1. /\ m \in Offered
      /\ Switches(l, m) /\ (Untested(sent) = {"winLimit"} \/ Win(l, m))
      /\ m # settings.mode => Filled(l) /\ Win(l, m) /\ "mode" \in DOMAIN l
      /\ "mode" \in DOMAIN l => l.mode = m
  BY CheckedFits DEF RoomFits
<1>2. UpdateSettings(l, second) = t
  BY DEF UpdateSettings
<1>3. DOMAIN ids \subseteq {"id1", "id2"}
  OBVIOUS
<1> HIDE DEF l, m, ids
<1>4. /\ DOMAIN s = DOMAIN settings \cup DOMAIN l
      /\ \A f \in DOMAIN l : s[f] = l[f]
      /\ \A f \in DOMAIN settings \ DOMAIN l : s[f] = settings[f]
  BY WithFacts
<1>5. Switches(s, m) /\ Filled(s)
  <2>1. Filled(s)
    BY FilledWith DEF RoomFits
  <2>2. CASE m = settings.mode
    BY <1>1, <2>1, <2>2, SwitchesWith DEF RoomFits
  <2>3. CASE m # settings.mode
    <3>1. Fixed \subseteq DOMAIN l
      BY <1>1, <2>3 DEF Filled
    <3> QED BY <1>1, <2>1, <3>1, SwitchesWith
  <2> QED BY <2>2, <2>3
<1>6. Request \subseteq DOMAIN s /\ s.mode = m
  BY <1>1, <1>4 DEF RoomFits, Request
<1>7. \/ Win(s, m)
      \/ Untested(sent) = {"winLimit"}
      \/ "winLimit" \in astray /\ m = settings.mode /\ "winLimit" \in DOMAIN s /\ s.winLimit = settings.winLimit
  <2>1. CASE ~Win(l, m)
    BY <1>1, <2>1
  <2>2. CASE Win(l, m) /\ WinField \subseteq DOMAIN l
    BY <2>2, WinWith
  <2>3. CASE Win(l, m) /\ ~(WinField \subseteq DOMAIN l)
    <3>1. m = settings.mode
      BY <1>1, <2>3 DEF Filled
    <3>2. "winLimit" \notin DOMAIN l /\ "winLimit" \in DOMAIN settings
      BY <2>3 DEF WinField, RoomFits, Filled
    <3>3. "winLimit" \notin astray => Win(settings, m)
      BY <3>1 DEF RoomFits
    <3> QED BY <1>4, <2>3, <3>1, <3>2, <3>3, WinWith
  <2> QED BY <2>1, <2>2, <2>3
<1> HIDE DEF s
<1>8. DOMAIN ids \cap (Fixed \cup WinField \cup Request \cup {"winLimit"}) = {}
  BY <1>3, FixedNames DEF WinField, Request
<1>9. Switches(t, m) /\ (Win(s, m) => Win(t, m)) /\ Filled(t)
  <2>1. Fits(ids, m)
    BY <1>8, OtherFields
  <2> QED BY <1>5, <2>1, SwitchesWith, WinWith, FilledWith DEF Fits
<1>10. SameRequest(s, t)
  <2>1. SameRequest(s, s)
    BY DEF SameRequest
  <2> QED BY <1>8, <2>1, SameRequestWith
<1>11. "winLimit" \in DOMAIN s => t.winLimit = s.winLimit
  BY <1>8, WithField
<1> HIDE DEF t
<1>12. Request \subseteq DOMAIN t /\ t.mode = m
  BY <1>6, <1>10 DEF SameRequest, Request
<1>13. RoomFits(t, FALSE)
  BY <1>1, <1>9, <1>12 DEF RoomFits
<1> QED BY <1>2, <1>7, <1>9, <1>11, <1>12, <1>13 DEF l

(***************************************************************************)
(* A new room                                                              *)
(***************************************************************************)

\* LoadDefaultSettings brings every switch of the mode, and a limit that was tested.
LEMMA LoadDefaultFits ==
  ASSUME TablesFit, NEW b, Creatable(b)
  PROVE  RoomFits(LoadDefaultSettings(b), TRUE)
<1> DEFINE m == b.mode
           list == IF "playlist" \in DOMAIN b THEN b.playlist ELSE <<>>
           chosen == [f \in {l \in Chosen : b[l] # 0} \cup ({"randomMap"} \cap DOMAIN b) |-> b[f]]
           base == With(Defaults(m, Rule), chosen)
           asked == [mode |-> b.mode, map |-> b.map, players |-> b.players, playlist |-> list,
                     index |-> IF list = <<>> THEN 0 ELSE 1, competitive |-> b.map = Competitive]
           own == With(base, asked)
           cup == OfRoom([players |-> 32, roundTime |-> 3, winLimit |-> IF b.mode = 14 THEN 7 ELSE 13])
           set == IF own.competitive THEN With(own, cup) ELSE own
           on == [NoBattle EXCEPT !.family = 1]
\* RoomFits with the mode spelled out.
           Good(s) == /\ Switches(s, m) /\ Win(s, m) /\ Filled(s)
                      /\ Request \subseteq DOMAIN s /\ s.mode = m /\ s.map = b.map /\ s.playlist = list
<1>1. m \in Offered /\ (b.map = Competitive => m \in CompetitiveModes)
  BY DEF Creatable, TablesFit
<1>3. \A s : Good(s) => RoomFits(s, TRUE)
  BY <1>1 DEF RoomFits
<1>4. Switches(base, m) /\ Win(base, m) /\ Filled(base)
  <2>1. Switches(Defaults(m, Rule), m) /\ Win(Defaults(m, Rule), m) /\ Filled(Defaults(m, Rule))
    BY <1>1, DefaultsFit
  <2>2. DOMAIN chosen \cap Fixed = {}
    BY FixedNames DEF Chosen
  <2>3. \A l \in WinField \cap DOMAIN chosen : chosen[l] \in WinLimits(m)
    <3> SUFFICES ASSUME NEW l \in WinField \cap DOMAIN chosen PROVE chosen[l] \in WinLimits(m)
      OBVIOUS
    <3>1. l = "winLimit" /\ l \in Chosen /\ b[l] # 0
      BY DEF WinField, Chosen
    <3>2. b[l] \in Allowed["winLimit"][m]
      BY <3>1 DEF Creatable
    <3> QED BY <3>2 DEF WinLimits
  <2> HIDE DEF chosen
  <2>4. Switches(chosen, m) /\ Win(chosen, m)
    BY <2>2, <2>3 DEF Switches, Win
  <2> QED BY <2>1, <2>4, SwitchesWith, WinWith, FilledWith
<1> HIDE DEF base
<1>5. Good(own)
  <2>1. DOMAIN asked = {"mode", "map", "players", "playlist", "index", "competitive"}
    OBVIOUS
  <2>2. asked["mode"] = m /\ asked["map"] = b.map /\ asked["playlist"] = list
    OBVIOUS
  <2> HIDE DEF asked, list, m
  <2>3. DOMAIN asked \cap (Fixed \cup WinField) = {}
    BY <2>1, FixedNames DEF WinField, Request
  <2>4. Fits(asked, m)
    BY <2>3, OtherFields
  <2>5. Switches(own, m) /\ Win(own, m) /\ Filled(own)
    BY <1>4, <2>4, SwitchesWith, WinWith, FilledWith DEF Fits
  <2>6. DOMAIN own = DOMAIN base \cup DOMAIN asked
    BY WithFacts
  <2>7. ASSUME NEW f \in DOMAIN asked PROVE own[f] = asked[f]
    BY WithField
  <2> HIDE DEF own
  <2> QED BY <2>1, <2>2, <2>5, <2>6, <2>7 DEF Request
<1>6. own.competitive = (b.map = Competitive)
  <2>1. "competitive" \in DOMAIN asked /\ asked["competitive"] = (b.map = Competitive)
    OBVIOUS
  <2> HIDE DEF asked
  <2> QED BY <2>1, WithField
<1> HIDE DEF own, asked
<1>7. ASSUME NEW s, Good(s), NEW v, Fits(v, m), DOMAIN v \cap Request = {}
      PROVE  Good(With(s, v))
  <2> HIDE DEF m, list
  <2>1. Switches(With(s, v), m) /\ Win(With(s, v), m) /\ Filled(With(s, v))
    BY <1>7, SwitchesWith, WinWith, FilledWith DEF Fits
  <2>2. SameRequest(s, s)
    BY DEF SameRequest
  <2>3. SameRequest(s, With(s, v))
    BY <1>7, <2>2, SameRequestWith
  <2> QED BY <1>7, <2>1, <2>3 DEF SameRequest, Request
<1>8. b.map = Competitive => Fits(cup, m) /\ DOMAIN cup \cap Request = {}
  <2> DEFINE c == [players |-> 32, roundTime |-> 3, winLimit |-> IF b.mode = 14 THEN 7 ELSE 13]
  <2>1. DOMAIN c = {"players", "roundTime", "winLimit"} /\ c.winLimit \in {7, 13}
    OBVIOUS
  <2>2. Fixed \cap DOMAIN c = {}
    <3>1. "roundTime" \notin Fixed
      BY FixedNames
    <3> QED BY <2>1, <3>1, FixedNames
  <2>3. b.map = Competitive => c.winLimit \in WinLimits(m)
    BY <1>1, <2>1 DEF WinLimits, CompetitiveModes, RespawnModes
  <2> HIDE DEF c, m
  <2>4. b.map = Competitive => Fits(OfRoom(c), m) /\ DOMAIN OfRoom(c) \subseteq DOMAIN c
    BY <2>2, <2>3, OfRoomFits
  <2> QED BY <2>1, <2>4 DEF c, Request
<1> HIDE DEF cup
<1>9. Good(set)
  <2> HIDE DEF Good
  <2> QED BY <1>5, <1>6, <1>7, <1>8
<1> HIDE DEF set
<1>10. LoadDefaultSettings(b) = IF "family" \in DOMAIN b /\ b.family = 1
                                THEN With(With(set, on), Battle(m)) ELSE With(set, NoBattle)
  BY DEF LoadDefaultSettings, set, cup, own, asked, base
<1>11. /\ Fits(on, m) /\ DOMAIN on \cap Request = {}
       /\ Fits(NoBattle, m) /\ DOMAIN NoBattle \cap Request = {}
  <2>1. DOMAIN on = {"family", "id1", "id2"} /\ DOMAIN NoBattle = {"family", "id1", "id2"}
    BY DEF NoBattle
  <2> HIDE DEF on
  <2>2. {"family", "id1", "id2"} \cap (Fixed \cup WinField \cup Request) = {}
    BY FixedNames DEF WinField, Request
  <2> QED BY <2>1, <2>2, OtherFields
<1> HIDE DEF on
<1>12. CASE "family" \in DOMAIN b /\ b.family = 1
  <2>1. m \in BattleModes
    BY <1>12 DEF Creatable
  <2> HIDE DEF m, Good
  <2>2. Fits(Battle(m), m) /\ DOMAIN Battle(m) \cap Request = {}
    BY <1>1, <2>1, BattleFits, BattleDomain
  <2>3. Good(With(With(set, on), Battle(m)))
    BY <1>7, <1>9, <1>11, <2>2
  <2> QED BY <1>3, <1>10, <1>12, <2>3
<1>13. CASE ~("family" \in DOMAIN b /\ b.family = 1)
  <2> HIDE DEF m, Good
  <2>1. Good(With(set, NoBattle))
    BY <1>7, <1>9, <1>11
  <2> QED BY <1>3, <1>10, <1>13, <2>1
<1> QED BY <1>12, <1>13

(***************************************************************************)
(* Steps that bring no block                                               *)
(***************************************************************************)

\* The mode, the switches and the win limit stay.
KeepsRules(s, t) ==
  /\ DOMAIN t = DOMAIN s
  /\ \A f \in DOMAIN s : f \in {"mode"} \cup Fixed \cup WinField => t[f] = s[f]

LEMMA KeptRulesFit ==
  ASSUME NEW s, NEW tested, RoomFits(s, tested), NEW t, KeepsRules(s, t)
  PROVE  RoomFits(t, tested)
<1>1. t.mode = s.mode
  BY DEF RoomFits, KeepsRules, Request
<1>2. Switches(t, s.mode) /\ (tested => Win(t, s.mode))
  BY DEF RoomFits, KeepsRules, Switches, Win
<1> QED BY <1>1, <1>2 DEF RoomFits, KeepsRules, Filled

LEMMA OtherNames == {"id1", "id2", "index", "map"} \cap ({"mode"} \cup Fixed \cup WinField) = {}
BY FixedNames DEF WinField, Request

\* What a succession, a user who leaves and the end of a match make of the settings.
LEMMA SucceedKeeps == ASSUME NEW s, NEW u PROVE KeepsRules(s, Succeed(s, u))
<1>1. /\ DOMAIN Succeed(s, u) = DOMAIN s
      /\ \A f \in DOMAIN s \ {"id1", "id2"} : Succeed(s, u)[f] = s[f]
  BY DEF Succeed
<1> QED BY <1>1, OtherNames DEF KeepsRules

LEMMA AdvancedKeeps == ASSUME NEW s, NEW forced PROVE KeepsRules(s, Advanced(s, forced))
<1>1. Advanced(s, forced) = s \/ \E a, i : Advanced(s, forced) = [s EXCEPT !.map = a, !.index = i]
  BY DEF Advanced
<1>2. /\ DOMAIN Advanced(s, forced) = DOMAIN s
      /\ \A f \in DOMAIN s \ {"map", "index"} : Advanced(s, forced)[f] = s[f]
  BY <1>1
<1> QED BY <1>2, OtherNames DEF KeepsRules

LEMMA ForgetKeeps == ASSUME NEW u PROVE KeepsRules(settings, Forget(u))
<1>1. Forget(u) \in {settings, [settings EXCEPT !.id1 = NoClan], [settings EXCEPT !.id2 = NoClan]}
  BY DEF Forget
<1>2. DOMAIN Forget(u) = DOMAIN settings /\ \A f \in DOMAIN settings \ {"id1", "id2"} : Forget(u)[f] = settings[f]
  BY <1>1
<1> QED BY <1>2, OtherNames DEF KeepsRules

LEMMA KeepsTwice ==
  ASSUME NEW s, NEW t, NEW u, KeepsRules(s, t), KeepsRules(t, u)
  PROVE  KeepsRules(s, u)
BY DEF KeepsRules

\* What is noted as astray, and for how long.
LEMMA Noted ==
  ASSUME NEW untested, Note(untested), IsRoom', "map" \notin astray'
  PROVE  /\ "map" \notin astray /\ ~MapAstray(settings')
         /\ untested = {"winLimit"} => "winLimit" \in astray'
         /\ "winLimit" \in astray /\ settings'.mode = settings.mode /\ settings'.winLimit = settings.winLimit
              => "winLimit" \in astray'
BY DEF Note

LEMMA RulesPrimed ==
  ASSUME RoomFits(settings', "winLimit" \notin astray'), ~MapAstray(settings')
  PROVE  RulesInv'
BY DEF RulesInv, RoomFits, Switches, Win, Filled, MapAstray

\* A step that brings no block.
LEMMA RulesStay ==
  ASSUME RulesInv, IsRoom, IsRoom' => KeepsRules(settings, settings'), Note({})
  PROVE  RulesInv'
<1>1. SUFFICES ASSUME IsRoom', "map" \notin astray' PROVE RulesInv'
  BY DEF RulesInv
<1>2. "map" \notin astray /\ ~MapAstray(settings')
  BY <1>1, Noted
<1>3. RoomFits(settings, "winLimit" \notin astray)
  BY <1>2 DEF RulesInv
<1>4. RoomFits(settings', "winLimit" \notin astray)
  BY <1>1, <1>3, KeptRulesFit
<1>5. RoomFits(settings', "winLimit" \notin astray')
  <2>1. CASE "winLimit" \in astray'
    BY <1>4, <2>1 DEF RoomFits
  <2>2. CASE "winLimit" \notin astray' /\ "winLimit" \notin Limit
    <3>1. WinField = {}
      BY <2>2 DEF WinField
    <3> QED BY <1>4, <3>1 DEF RoomFits, Win
  <2>3. CASE "winLimit" \notin astray' /\ "winLimit" \in Limit
    <3>1. {"mode", "winLimit"} \subseteq DOMAIN settings
      BY <1>3, <2>3 DEF RoomFits, Filled, WinField, Request
    <3>2. settings'.mode = settings.mode /\ settings'.winLimit = settings.winLimit
      BY <1>1, <2>3, <3>1 DEF KeepsRules, WinField
    <3>3. "winLimit" \notin astray
      BY <1>1, <2>3, <3>2, Noted
    <3> QED BY <1>4, <2>3, <3>3
  <2> QED BY <2>1, <2>2, <2>3
<1> QED BY <1>2, <1>5, RulesPrimed

LEMMA RemoveKeeps ==
  ASSUME RulesInv, IsRoom, NEW gone, NEW s, NEW k, KeepsRules(settings, s), RemoveUsers(gone, s, k)
  PROVE  RulesInv'
<1>1. \/ host' = NoUser
      \/ settings' = s
      \/ \E next : \E ends \in BOOLEAN : settings' = Succeed(IF ends THEN Advanced(s, TRUE) ELSE s, next)
  BY DEF RemoveUsers
<1>2. ASSUME NEW next, NEW ends \in BOOLEAN
      PROVE  KeepsRules(settings, Succeed(IF ends THEN Advanced(s, TRUE) ELSE s, next))
  <2>1. KeepsRules(settings, Advanced(s, TRUE))
    BY AdvancedKeeps, KeepsTwice
  <2>2. KeepsRules(settings, IF ends THEN Advanced(s, TRUE) ELSE s)
    BY <2>1
  <2> QED BY <2>2, SucceedKeeps, KeepsTwice
<1>3. IsRoom' => KeepsRules(settings, settings')
  BY <1>1, <1>2 DEF IsRoom
<1>4. Note({})
  BY DEF RemoveUsers
<1> QED BY <1>3, <1>4, RulesStay

(***************************************************************************)
(* The theorem                                                             *)
(***************************************************************************)

LEMMA NewRulesStep ==
  ASSUME TablesFit, NEW u \in User, NEW b, OnNewRoomRequest(u, b)
  PROVE  RulesInv'
<1>1. PICK known \in Slots(Known(b)) :
        Creatable(known) /\ settings' = Succeed(LoadDefaultSettings(known), u)
  BY DEF OnNewRoomRequest
<1>2. RoomFits(LoadDefaultSettings(known), TRUE)
  BY <1>1, LoadDefaultFits
<1>3. RoomFits(settings', TRUE)
  BY <1>1, <1>2, SucceedKeeps, KeptRulesFit
<1>4. RoomFits(settings', "winLimit" \notin astray')
  BY <1>3 DEF RoomFits
<1>5. Note({})
  BY DEF OnNewRoomRequest
<1>6. SUFFICES ASSUME IsRoom', "map" \notin astray' PROVE RulesInv'
  BY DEF RulesInv
<1> QED BY <1>4, <1>5, <1>6, Noted, RulesPrimed

LEMMA UpdateRulesStep ==
  ASSUME TablesFit, RulesInv, NEW b \in Update, OnRoomUpdateSettings(b)
  PROVE  RulesInv'
<1>1. IsRoom
  BY DEF OnRoomUpdateSettings
<1>2. PICK sent \in Slots(b) :
        /\ Taken(sent) /\ Note(Untested(sent))
        /\ \E second : settings' = UpdateSettings(CheckNewSettings(sent), second)
  BY DEF OnRoomUpdateSettings
<1>3. PICK second : settings' = UpdateSettings(CheckNewSettings(sent), second)
  BY <1>2
<1>4. SUFFICES ASSUME IsRoom', "map" \notin astray' PROVE RulesInv'
  BY DEF RulesInv
<1>5. "map" \notin astray /\ ~MapAstray(settings')
  BY <1>2, <1>4, Noted
<1>6. RoomFits(settings, "winLimit" \notin astray) /\ ~MapAstray(settings)
  BY <1>1, <1>5 DEF RulesInv
<1> DEFINE t == UpdateSettings(CheckNewSettings(sent), second)
<1>7. /\ RoomFits(t, FALSE)
      /\ \/ Win(t, t.mode)
         \/ Untested(sent) = {"winLimit"}
         \/ "winLimit" \in astray /\ t.mode = settings.mode /\ t.winLimit = settings.winLimit
  BY <1>2, <1>6, UpdatedFits
<1> HIDE DEF t
<1>8. settings' = t
  BY <1>3 DEF t
<1>9. Win(t, t.mode) \/ "winLimit" \in astray'
  BY <1>2, <1>4, <1>7, <1>8, Noted
<1>10. RoomFits(settings', "winLimit" \notin astray')
  BY <1>7, <1>8, <1>9 DEF RoomFits
<1> QED BY <1>5, <1>10, RulesPrimed

LEMMA RulesStep ==
  ASSUME TablesFit, BattleInv, RulesInv, [Next]_vars
  PROVE  RulesInv'
<1>1. ASSUME NEW u \in User, NEW b \in NewRoom, OnNewRoomRequest(u, b) PROVE RulesInv'
  BY <1>1, NewRulesStep
<1>2. ASSUME NEW u \in User, OnJoinRoomRequest(u) PROVE RulesInv'
  <2>1. settings' = settings \/ \E c : settings' = [settings EXCEPT !.id2 = c]
    BY <1>2 DEF OnJoinRoomRequest, BattleEntry
  <2>2. DOMAIN settings' = DOMAIN settings /\ \A f \in DOMAIN settings \ {"id2"} : settings'[f] = settings[f]
    BY <2>1
  <2>3. KeepsRules(settings, settings')
    BY <2>2, OtherNames DEF KeepsRules
  <2>4. IsRoom /\ Note({})
    BY <1>2 DEF OnJoinRoomRequest
  <2> QED BY <2>3, <2>4, RulesStay
<1>3. ASSUME NEW u \in Members, NEW s \in {settings, Forget(u)}, NEW gone, NEW k, RemoveUsers(gone, s, k)
      PROVE  RulesInv'
  <2>1. IsRoom
    BY MembersAreUsers DEF BattleInv
  <2>2. KeepsRules(settings, s)
    BY ForgetKeeps DEF KeepsRules
  <2> QED BY <1>3, <2>1, <2>2, RemoveKeeps
<1>4. ASSUME NEW u \in User, OnLeaveRoomRequest(u) \/ Disconnect(u) \/ OnRoomKickRequest(u) PROVE RulesInv'
  BY <1>3, <1>4 DEF OnLeaveRoomRequest, Disconnect, OnRoomKickRequest
<1>5. ASSUME OnRoomKickClanRequest PROVE RulesInv'
  <2>1. IsRoom /\ \E gone, k : RemoveUsers(gone, settings, k)
    BY <1>5 DEF OnRoomKickClanRequest
  <2>2. KeepsRules(settings, settings)
    BY DEF KeepsRules
  <2> QED BY <2>1, <2>2, RemoveKeeps
<1>6. ASSUME NEW b \in Update, OnRoomUpdateSettings(b) PROVE RulesInv'
  BY <1>6, UpdateRulesStep
<1>7. ASSUME OnGameStartRequest PROVE RulesInv'
  <2>1. PICK map : settings' = [settings EXCEPT !.map = map]
    BY <1>7 DEF OnGameStartRequest
  <2>2. DOMAIN settings' = DOMAIN settings /\ \A f \in DOMAIN settings \ {"map"} : settings'[f] = settings[f]
    BY <2>1
  <2>3. KeepsRules(settings, settings')
    BY <2>2, OtherNames DEF KeepsRules
  <2>4. IsRoom /\ Note({})
    BY <1>7 DEF OnGameStartRequest
  <2> QED BY <2>3, <2>4, RulesStay
<1>8. ASSUME NEW forced \in BOOLEAN, EndGame(forced) PROVE RulesInv'
  <2>1. settings' = Advanced(settings, forced) /\ host' = host /\ Note({})
    BY <1>8 DEF EndGame
  <2>2. CASE IsRoom
    BY <2>1, <2>2, AdvancedKeeps, RulesStay
  <2>3. CASE ~IsRoom
    BY <2>1, <2>3 DEF RulesInv, IsRoom
  <2> QED BY <2>2, <2>3
<1>9. ASSUME UNCHANGED <<settings, host, astray>> PROVE RulesInv'
  BY <1>9 DEF RulesInv, IsRoom, RoomFits, Switches, Win, Filled, MapAstray
<1>10. ASSUME NEW u \in User, NEW t \in {"T", "CT"}, OnSetTeamRequest(u, t) PROVE RulesInv'
  BY <1>9, <1>10 DEF OnSetTeamRequest
<1>11. UNCHANGED vars => UNCHANGED <<settings, host, astray>>
  BY DEF vars
<1> QED BY <1>1, <1>2, <1>4, <1>5, <1>6, <1>7, <1>8, <1>9, <1>10, <1>11 DEF Next

\* The tables in order, whatever blocks the host sends, in whatever order, and whatever lists of
\* maps the room plays: every switch of the room and its win limit are of the mode it plays,
\* unless the competitive map has strayed into a mode it is not valid in, and but for a win
\* limit that came with the end of a battle (roomsettings.cpp, LoadNewSettings and
\* CheckNewSettings; room.cpp, UpdateSettings).
THEOREM RulesAlwaysFit ==
  ASSUME TablesFit
  PROVE  Spec => []RulesFitMode
<1>1. Init => RulesInv
  BY DEF Init, RulesInv, IsRoom
<1>2. BattleInv /\ RulesInv /\ [Next]_vars => RulesInv'
  BY RulesStep
<1>3. RulesInv => RulesFitMode
  <2> SUFFICES ASSUME IsRoom, RoomFits(settings, "winLimit" \notin astray)
               PROVE  /\ \A r \in Fixed : Legal(r, settings.mode, settings[r])
                      /\ "winLimit" \in Limit \ astray => settings.winLimit \in WinLimits(settings.mode)
    BY DEF RulesInv, RulesFitMode
  <2>1. \A r \in Fixed : Legal(r, settings.mode, settings[r])
    BY DEF RoomFits, Switches, Filled
  <2>2. "winLimit" \in Limit \ astray => settings["winLimit"] \in WinLimits(settings.mode)
    BY DEF RoomFits, Win, Filled, WinField
  <2> QED BY <2>1, <2>2
<1> QED BY <1>1, <1>2, <1>3, BattleAlways, PTL DEF Spec
=============================================================================
