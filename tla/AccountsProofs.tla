---------------------------- MODULE AccountsProofs ----------------------------
(***************************************************************************)
(* Who is logged in, whose rows are whose and what the database file holds *)
(* when the server works with it: for all numbers of sockets, accounts and *)
(* players, all upgrades, and failing statements and crashes anywhere.     *)
(***************************************************************************)
EXTENDS Accounts, SequenceTheorems, TLAPS

-----------------------------------------------------------------------------
(* Lists of users *)

\* Where the elements of RemoveAt(s, i) come from.
LEMMA RemoveAtElements ==
  ASSUME NEW S, NEW s \in Seq(S), NEW i \in 1..Len(s)
  PROVE  /\ RemoveAt(s, i) \in Seq(S)
         /\ Len(RemoveAt(s, i)) = Len(s) - 1
         /\ \A k \in 1..(Len(s) - 1) : RemoveAt(s, i)[k] = IF k < i THEN s[k] ELSE s[k + 1]
<1> DEFINE a == SubSeq(s, 1, i - 1)
           b == SubSeq(s, i + 1, Len(s))
<1>1. Len(s) \in Nat /\ \A k \in 1..Len(s) : s[k] \in S
  BY LenProperties
<1>2. /\ a \in Seq(S) /\ Len(a) = i - 1
      /\ \A k \in 1..(i - 1) : a[k] = s[k]
  <2>1. \A k \in 1..(i - 1) : s[k] \in S
    BY <1>1
  <2>2. /\ a \in Seq(S)
        /\ Len(a) = IF 1 <= i - 1 THEN (i - 1) - 1 + 1 ELSE 0
        /\ \A k \in 1..((i - 1) - 1 + 1) : a[k] = s[1 + k - 1]
    BY <2>1, SubSeqProperties
  <2> QED BY <2>2
<1>3. /\ b \in Seq(S) /\ Len(b) = Len(s) - i
      /\ \A k \in 1..(Len(s) - i) : b[k] = s[i + k]
  <2>1. \A k \in (i + 1)..Len(s) : s[k] \in S
    BY <1>1
  <2>2. /\ b \in Seq(S)
        /\ Len(b) = IF i + 1 <= Len(s) THEN Len(s) - (i + 1) + 1 ELSE 0
        /\ \A k \in 1..(Len(s) - (i + 1) + 1) : b[k] = s[i + 1 + k - 1]
    BY <1>1, <2>1, SubSeqProperties
  <2> QED BY <1>1, <2>2
<1> DEFINE c == a \o b
<1>4. /\ c \in Seq(S) /\ Len(c) = Len(a) + Len(b)
      /\ \A k \in 1..(Len(a) + Len(b)) : c[k] = IF k <= Len(a) THEN a[k] ELSE b[k - Len(a)]
  BY <1>2, <1>3, ConcatProperties
<1>5. RemoveAt(s, i) = c
  BY DEF RemoveAt
<1> HIDE DEF a, b, c
<1>6. Len(a) + Len(b) = Len(s) - 1
  BY <1>1, <1>2, <1>3
<1>7. \A k \in 1..(Len(s) - 1) : c[k] = IF k <= i - 1 THEN a[k] ELSE b[k - (i - 1)]
  BY <1>2, <1>4, <1>6
<1>8. ASSUME NEW k \in 1..(Len(s) - 1)
      PROVE  c[k] = IF k < i THEN s[k] ELSE s[k + 1]
  <2>1. CASE k < i
    <3>1. k \in 1..(i - 1)
      BY <1>1, <2>1
    <3> QED BY <1>2, <1>7, <2>1, <3>1
  <2>2. CASE ~(k < i)
    <3> DEFINE n == k - (i - 1)
    <3>1. n \in 1..(Len(s) - i) /\ i + n = k + 1 /\ ~(k <= i - 1)
      BY <1>1, <2>2
    <3>2. c[k] = b[n]
      BY <1>7, <3>1
    <3> HIDE DEF n
    <3>3. b[n] = s[i + n]
      BY <1>3, <3>1
    <3> QED BY <2>2, <3>1, <3>2, <3>3
  <2> QED BY <2>1, <2>2
<1> QED BY <1>1, <1>2, <1>3, <1>4, <1>5, <1>6, <1>8

AUser == [id : Nat, sock : Sock]

\* No account and no connection is in the list twice.
Unique(us) ==
  \A j, k \in DOMAIN us : (us[j].id = us[k].id \/ us[j].sock = us[k].sock) => j = k

\* Erasing the user of a socket leaves all the others, once.
LEMMA EraseFacts ==
  ASSUME NEW us \in Seq(AUser), Unique(us), NEW s
  PROVE  /\ Erase(us, s) \in Seq(AUser)
         /\ Unique(Erase(us, s))
         /\ ToSet(Erase(us, s)) = {u \in ToSet(us) : u.sock # s}
         /\ Len(Erase(us, s)) <= Len(us)
  <1>0. DOMAIN us = 1 .. Len(us) /\ Len(us) \in Nat
    BY LenProperties
  <1>1. CASE \E k \in DOMAIN us : us[k].sock = s
    <2> DEFINE i == CHOOSE k \in DOMAIN us : us[k].sock = s
               e == RemoveAt(us, i)
    <2>1. i \in 1 .. Len(us) /\ us[i].sock = s
      BY <1>0, <1>1
    <2>2. Erase(us, s) = e
      BY <1>1 DEF Erase
    <2>3. /\ e \in Seq(AUser) /\ Len(e) = Len(us) - 1
          /\ \A k \in 1 .. (Len(us) - 1) : e[k] = IF k < i THEN us[k] ELSE us[k + 1]
      BY <2>1, RemoveAtElements
    <2> HIDE DEF i, e
    <2>4. DOMAIN e = 1 .. (Len(us) - 1)
      BY <2>3, LenProperties
    <2>5. \A j, k \in 1 .. Len(us) :
            (us[j].id = us[k].id \/ us[j].sock = us[k].sock) => j = k
      BY <1>0 DEF Unique
    <2>6. Unique(e)
      <3> DEFINE at(k) == IF k < i THEN k ELSE k + 1
      <3>1. \A k \in DOMAIN e : k \in Nat /\ at(k) \in 1 .. Len(us) /\ e[k] = us[at(k)]
        BY <1>0, <2>1, <2>3, <2>4
      <3>2. \A j, k \in Nat : at(j) = at(k) => j = k
        BY <1>0, <2>1
      <3> HIDE DEF at
      <3> QED BY <2>5, <3>1, <3>2 DEF Unique
    <2>7. ToSet(e) \subseteq {u \in ToSet(us) : u.sock # s}
      <3> SUFFICES ASSUME NEW k \in 1 .. (Len(us) - 1)
                   PROVE  e[k] \in ToSet(us) /\ e[k].sock # s
        BY <2>4 DEF ToSet
      <3> DEFINE j == IF k < i THEN k ELSE k + 1
      <3>1. j \in 1 .. Len(us) /\ j # i /\ e[k] = us[j]
        BY <1>0, <2>1, <2>3
      <3> HIDE DEF j
      <3> QED
        BY <1>0, <2>1, <2>5, <3>1 DEF ToSet
    <2>8. {u \in ToSet(us) : u.sock # s} \subseteq ToSet(e)
      <3> SUFFICES ASSUME NEW j \in 1 .. Len(us), us[j].sock # s
                   PROVE  us[j] \in ToSet(e)
        BY <1>0 DEF ToSet
      <3> DEFINE k == IF j < i THEN j ELSE j - 1
      <3>1. k \in 1 .. (Len(us) - 1) /\ e[k] = us[j]
        BY <1>0, <2>1, <2>3
      <3> HIDE DEF k
      <3> QED
        BY <2>4, <3>1 DEF ToSet
    <2> QED
      BY <1>0, <2>2, <2>3, <2>6, <2>7, <2>8
  <1>2. CASE ~ \E k \in DOMAIN us : us[k].sock = s
    <2>1. Erase(us, s) = us
      BY <1>2 DEF Erase
    <2> QED
      BY <1>0, <1>2, <2>1 DEF ToSet
  <1> QED
    BY <1>1, <1>2

\* A user of an account and a connection that are not in the list is added.
LEMMA AppendFacts ==
  ASSUME NEW us \in Seq(AUser), Unique(us), NEW u \in AUser,
         \A v \in ToSet(us) : v.id # u.id /\ v.sock # u.sock
  PROVE  /\ Append(us, u) \in Seq(AUser)
         /\ Unique(Append(us, u))
         /\ ToSet(Append(us, u)) = ToSet(us) \cup {u}
  <1> DEFINE t == Append(us, u)
  <1>1. /\ t \in Seq(AUser) /\ Len(t) = Len(us) + 1
        /\ \A i \in 1 .. Len(us) : t[i] = us[i]
        /\ t[Len(us) + 1] = u
    BY AppendProperties
  <1>2. DOMAIN t = 1 .. (Len(us) + 1) /\ DOMAIN us = 1 .. Len(us) /\ Len(us) \in Nat
    BY <1>1, LenProperties
  <1> HIDE DEF t
  <1>3. ToSet(t) = ToSet(us) \cup {u}
    BY <1>1, <1>2 DEF ToSet
  <1>4. Unique(t)
    BY <1>1, <1>2 DEF ToSet, Unique
  <1> QED
    BY <1>1, <1>3, <1>4 DEF t

-----------------------------------------------------------------------------
(* The effects of the handlers on the list of users, the connections, the  *)
(* sessions and the pool.                                                  *)

\* The users, the connections and the session rows agree.
Sound(m) ==
  /\ DOMAIN m = {"client", "users", "session", "pool"}
  /\ m.client \subseteq Sock
  /\ m.users \in Seq(AUser)
  /\ Unique(m.users)
  /\ \A u \in ToSet(m.users) : u.sock \in m.client /\ u.id \in m.session

NobodyAt(m, s) == \A u \in ToSet(m.users) : u.sock # s

\* A closed connection takes its user and the session of the user with it, no other.
LEMMA DisconnectedFacts ==
  ASSUME NEW m, Sound(m), NEW s
  PROVE  LET d == Disconnected(m, s) IN
         /\ Sound(d)
         /\ d.client = m.client \ {s}
         /\ ToSet(d.users) = {u \in ToSet(m.users) : u.sock # s}
         /\ Len(d.users) <= Len(m.users)
         /\ NobodyAt(m, s) => d.pool = m.pool \ {s}
         /\ ~NobodyAt(m, s) => d.pool = m.pool
  <1> DEFINE mine == {k \in DOMAIN m.users : m.users[k].sock = s}
             ids == {m.users[k].id : k \in mine}
             d == Disconnected(m, s)
  <1>1. /\ d.client = m.client \ {s}
        /\ d.users = Erase(m.users, s)
        /\ d.session = m.session \ ids
        /\ d.pool = IF mine = {} THEN m.pool \ {s} ELSE m.pool
        /\ DOMAIN d = {"client", "users", "session", "pool"}
    BY DEF Disconnected, DropSession, Sound
  <1>2. /\ Erase(m.users, s) \in Seq(AUser)
        /\ Unique(Erase(m.users, s))
        /\ ToSet(Erase(m.users, s)) = {u \in ToSet(m.users) : u.sock # s}
        /\ Len(Erase(m.users, s)) <= Len(m.users)
    BY EraseFacts DEF Sound
  <1>3. mine = {} <=> NobodyAt(m, s)
    BY DEF NobodyAt, ToSet
  <1>4. ASSUME NEW u \in ToSet(m.users), u.sock # s
        PROVE  u.sock \in m.client \ {s} /\ u.id \in m.session \ ids
    BY <1>4 DEF Sound, ToSet, Unique
  <1> HIDE DEF d, mine, ids
  <1>5. Sound(d)
    BY <1>1, <1>2, <1>4 DEF Sound
  <1> QED
    BY <1>1, <1>2, <1>3, <1>5 DEF d

\* Opening a session ends the older one of the account; a connection without a user stays.
LEMMA SessionOpenedFacts ==
  ASSUME NEW m, Sound(m), NEW id
  PROVE  LET o == SessionOpened(m, id) IN
         /\ Sound(o)
         /\ id \in o.session
         /\ ToSet(o.users) = {u \in ToSet(m.users) : u.id # id}
         /\ Len(o.users) <= Len(m.users)
         /\ o.pool = m.pool
         /\ \A s \in m.client : NobodyAt(m, s) => s \in o.client
  <1> DEFINE online == {k \in DOMAIN m.users : m.users[k].id = id}
             k0 == CHOOSE k \in online : TRUE
             closed == IF id \notin m.session THEN m
                       ELSE IF online = {} THEN DropSession(m, {id})
                       ELSE Disconnected(m, m.users[k0].sock)
             o == SessionOpened(m, id)
  <1>1. /\ Sound(closed)
        /\ ToSet(closed.users) = {u \in ToSet(m.users) : u.id # id}
        /\ Len(closed.users) <= Len(m.users)
        /\ closed.pool = m.pool
        /\ \A s \in m.client : NobodyAt(m, s) => s \in closed.client
    <2>0. Len(m.users) \in Nat
      BY LenProperties DEF Sound
    <2>1. CASE id \notin m.session
      <3>1. \A u \in ToSet(m.users) : u.id # id
        BY <2>1 DEF Sound
      <3> QED
        BY <2>0, <2>1, <3>1
    <2>2. CASE id \in m.session /\ online = {}
      <3>1. closed = [m EXCEPT !.session = @ \ {id}]
        BY <2>2 DEF DropSession
      <3>2. \A u \in ToSet(m.users) : u.id # id
        BY <2>2 DEF ToSet
      <3>3. /\ closed.client = m.client /\ closed.users = m.users /\ closed.pool = m.pool
            /\ closed.session = m.session \ {id}
            /\ DOMAIN closed = DOMAIN m
        BY <3>1 DEF Sound
      <3> HIDE DEF closed
      <3> QED
        BY <2>0, <3>2, <3>3 DEF Sound
    <2>3. CASE id \in m.session /\ online # {}
      <3> DEFINE u0 == m.users[k0]
      <3>1. closed = Disconnected(m, u0.sock)
        BY <2>3
      <3>2. u0 \in ToSet(m.users) /\ u0.id = id
        BY <2>3 DEF ToSet
      <3> HIDE DEF closed, u0
      <3>3. ~NobodyAt(m, u0.sock)
        BY <3>2 DEF NobodyAt
      <3>4. \A u \in ToSet(m.users) : u.sock = u0.sock <=> u.id = id
        BY <3>2 DEF Sound, Unique, ToSet
      <3>5. /\ Sound(closed)
            /\ closed.client = m.client \ {u0.sock}
            /\ ToSet(closed.users) = {u \in ToSet(m.users) : u.sock # u0.sock}
            /\ Len(closed.users) <= Len(m.users)
            /\ closed.pool = m.pool
        BY <3>1, <3>3, DisconnectedFacts
      <3> QED
        BY <3>3, <3>4, <3>5
    <2> QED
      BY <2>1, <2>2, <2>3
  <1>2. o = [closed EXCEPT !.session = @ \cup {id}]
    BY DEF SessionOpened
  <1> HIDE DEF closed, o
  <1>3. /\ o.client = closed.client /\ o.users = closed.users /\ o.pool = closed.pool
        /\ o.session = closed.session \cup {id}
        /\ DOMAIN o = DOMAIN closed
    BY <1>1, <1>2 DEF Sound
  <1>4. Sound(o)
    BY <1>1, <1>3 DEF Sound
  <1> QED
    BY <1>1, <1>3, <1>4 DEF o

\* A login on a connection without a user adds one user; it does when there is room.
LEMMA UserAddedFacts ==
  ASSUME NEW m, Sound(m), NEW s \in m.client, NobodyAt(m, s), NEW id \in Nat
  PROVE  LET a == UserAdded(m, s, id) IN
         /\ Sound(a)
         /\ ToSet(a.users) \subseteq ToSet(m.users) \cup {[id |-> id, sock |-> s]}
         /\ a.pool = m.pool
         /\ \A x \in m.client : NobodyAt(m, x) => x \in a.client
         /\ Len(m.users) < MaxPlayers => [id |-> id, sock |-> s] \in ToSet(a.users)
  <1> DEFINE o == SessionOpened(m, id)
             u == [id |-> id, sock |-> s]
             a == UserAdded(m, s, id)
  <1>1. /\ Sound(o)
        /\ id \in o.session
        /\ ToSet(o.users) = {v \in ToSet(m.users) : v.id # id}
        /\ Len(o.users) <= Len(m.users)
        /\ o.pool = m.pool
        /\ \A x \in m.client : NobodyAt(m, x) => x \in o.client
    BY SessionOpenedFacts
  <1>2. a = IF Refused(o, s, id) THEN o ELSE [o EXCEPT !.users = Append(@, u)]
    BY DEF UserAdded
  <1> HIDE DEF o, a
  <1>3. \A v \in ToSet(o.users) : v.id # u.id /\ v.sock # u.sock
    BY <1>1 DEF NobodyAt
  <1>4. u \in AUser
    BY DEF Sound, AUser
  <1>5. CASE Refused(o, s, id)
    <2>1. Len(o.users) >= MaxPlayers
      BY <1>3, <1>5 DEF Refused, ToSet
    <2>2. Len(o.users) \in Nat /\ Len(m.users) \in Nat
      BY <1>1, LenProperties DEF Sound
    <2>3. ~(Len(m.users) < MaxPlayers)
      BY <1>1, <2>1, <2>2, SizeAssumption
    <2> QED
      BY <1>1, <1>2, <1>5, <2>3 DEF a
  <1>6. CASE ~Refused(o, s, id)
    <2> HIDE DEF u
    <2>1. /\ a.client = o.client /\ a.session = o.session /\ a.pool = o.pool
          /\ a.users = Append(o.users, u)
          /\ DOMAIN a = DOMAIN o
      BY <1>1, <1>2, <1>6 DEF Sound
    <2>2. /\ a.users \in Seq(AUser)
          /\ Unique(a.users)
          /\ ToSet(a.users) = ToSet(o.users) \cup {u}
      BY <1>1, <1>3, <1>4, <2>1, AppendFacts DEF Sound
    <2>3. u.sock \in a.client /\ u.id \in a.session
      BY <1>1, <2>1 DEF u
    <2>4. Sound(a)
      BY <1>1, <2>1, <2>2, <2>3 DEF Sound
    <2> QED
      BY <1>1, <2>1, <2>2, <2>4 DEF a, u
  <1> QED
    BY <1>5, <1>6

\* Whatever becomes of a login, only an account that is not banned comes in, and on the
\* connection that asked.
LEMMA LoginResultsFacts ==
  ASSUME Sound(Live), NEW s \in client, NobodyAt(Live, s), NEW id \in Nat,
         NEW m \in LoginResults(s, id)
  PROVE  /\ Sound(m)
         /\ \A u \in ToSet(m.users) :
              u \in ToSet(users) \/ (u = [id |-> id, sock |-> s] /\ id \notin banned)
         /\ m.pool = pool
         /\ \A x \in client : NobodyAt(Live, x) => x \in m.client
  <1>0. /\ Live.client = client /\ Live.users = users /\ Live.pool = pool
        /\ Live.session = session
    BY DEF Live
  <1>1. CASE m = Live
    BY <1>0, <1>1
  <1>2. CASE m = UserAdded(Live, s, id) /\ id \notin banned
    <2>1. /\ Sound(m)
          /\ ToSet(m.users) \subseteq ToSet(users) \cup {[id |-> id, sock |-> s]}
          /\ m.pool = pool
          /\ \A x \in client : NobodyAt(Live, x) => x \in m.client
      BY <1>0, <1>2, UserAddedFacts
    <2> QED
      BY <1>2, <2>1
  <1>3. CASE m = DropSession(SessionOpened(Live, id), {id})
    <2> DEFINE o == SessionOpened(Live, id)
    <2>1. /\ Sound(o)
          /\ ToSet(o.users) = {u \in ToSet(users) : u.id # id}
          /\ o.pool = pool
          /\ \A x \in client : NobodyAt(Live, x) => x \in o.client
      BY <1>0, SessionOpenedFacts
    <2>2. m = [o EXCEPT !.session = @ \ {id}]
      BY <1>3 DEF DropSession
    <2> HIDE DEF o
    <2>3. /\ m.client = o.client /\ m.users = o.users /\ m.pool = o.pool
          /\ m.session = o.session \ {id}
          /\ DOMAIN m = DOMAIN o
      BY <2>1, <2>2 DEF Sound
    <2>4. Sound(m)
      BY <2>1, <2>3 DEF Sound
    <2> QED
      BY <2>1, <2>3, <2>4
  <1> QED
    BY <1>1, <1>2, <1>3 DEF LoginResults

-----------------------------------------------------------------------------
(* The database file.  While the scripts run, the call counts how far the  *)
(* tables are; the version in the file follows only when all have run.     *)

UpTo(n) == \A i \in 1 .. n : applied[i] = 1

SchemaInv ==
  /\ version \in 0 .. LastVersion /\ applied \in [1 .. LastVersion -> Nat]
  /\ UpTo(version)
  /\ up \in {"off", "upgrading", "serving"}
  /\ up = "off" => call.op = "idle"
  /\ up = "upgrading" => /\ call.op = "script" /\ DOMAIN call = {"op", "at"}
                         /\ call.at \in version .. LastVersion /\ UpTo(call.at)
  /\ up = "serving" => call.op # "script" /\ UpTo(LastVersion)

LEMMA SchemaInit == Init => SchemaInv
  BY VersionAssumption DEF Init, SchemaInv, UpTo, Idle

\* A handler of the server leaves the file alone.
Serving == up = "serving" /\ up' = up /\ UNCHANGED file /\ call'.op # "script"

LEMMA BootstrapServing ==
  ASSUME NEW s, BootstrapLocalUser(s), call.op # "script"
  PROVE  call'.op # "script"
  BY DEF BootstrapLocalUser, Insert, Idle

LEMMA HandlersServe ==
  ASSUME SchemaInv, [Next]_vars
  PROVE  Open \/ Serve \/ Crash \/ (\E i \in 1 .. LastVersion : Script(i)) \/ Serving
         \/ UNCHANGED vars
  <1> USE DEF Serving, Ready, Idle
  <1>1. CASE \E s \in Sock : Connect(s) \/ Hangup(s)
    BY <1>1 DEF Connect, Hangup
  <1>2. CASE KickAll \/ KickNext
    BY <1>2 DEF KickAll, KickNext, KickAt, SchemaInv
  <1>3. CASE \E s \in Sock, name \in Name : Register(s, name) \/ Login(s, name)
    BY <1>3 DEF Register, Login, Insert
  <1>4. CASE Advance
    BY <1>4 DEF Advance, SchemaInv
  <1>5. CASE LoginRegistered
    <2>1. call.op = "login" /\ up = "serving" /\ up' = up /\ UNCHANGED file
      BY <1>5 DEF LoginRegistered, SchemaInv
    <2> QED
      BY <1>5, <2>1, BootstrapServing DEF LoginRegistered
  <1>6. CASE \E s \in Sock : OnVersionPacket(s) \/ OnLoginPacket(s)
    <2> PICK s \in Sock : OnVersionPacket(s) \/ OnLoginPacket(s)
      BY <1>6
    <2>1. up = "serving" /\ up' = up /\ UNCHANGED file /\ call.op # "script"
      BY DEF OnVersionPacket, OnLoginPacket
    <2>2. call' = call \/ BootstrapLocalUser(s)
      BY DEF OnVersionPacket, OnLoginPacket
    <2> QED
      BY <2>1, <2>2, BootstrapServing
  <1>7. CASE \E s \in Sock, n \in Nick : CreateCharacter(s, n) \/ Rename(s, n)
    BY <1>7 DEF CreateCharacter, Rename
  <1>8. CASE \E id \in DOMAIN account : Ban(id) \/ Unban(id)
    <2> PICK id \in DOMAIN account : Ban(id) \/ Unban(id)
      BY <1>8
    <2>1. CASE Ban(id)
      BY <2>1 DEF Ban
    <2>2. CASE Unban(id)
      BY <2>2 DEF Unban
    <2> QED
      BY <2>1, <2>2
  <1>9. CASE \E ended \in SUBSET banned : OnMinuteTick(ended)
    BY <1>9 DEF OnMinuteTick
  <1>10. CASE \E s \in Sock : AddServer(s) \/ HostReady(s)
    BY <1>10 DEF AddServer, HostReady
  <1>11. CASE \E t \in timer : DelayEnds(t)
    BY <1>11 DEF DelayEnds
  <1>12. CASE \E t \in timer : BootstrapHost(t)
    <2> PICK t \in timer : BootstrapHost(t)
      BY <1>12
    <2>1. up = "serving" /\ up' = up /\ UNCHANGED file /\ call.op # "script"
      BY DEF BootstrapHost
    <2>2. call' = call \/ BootstrapLocalUser(t.sock)
      BY DEF BootstrapHost
    <2> QED
      BY <2>1, <2>2, BootstrapServing
  <1> QED
    BY <1>1, <1>2, <1>3, <1>4, <1>5, <1>6, <1>7, <1>8, <1>9, <1>10, <1>11, <1>12 DEF Next

LEMMA SchemaStep == SchemaInv /\ [Next]_vars => SchemaInv'
  <1> SUFFICES ASSUME SchemaInv, [Next]_vars
               PROVE  SchemaInv'
    OBVIOUS
  <1> USE VersionAssumption
  <1>1. CASE Open
    BY <1>1 DEF Open, SchemaInv, UpTo, file
  <1>2. CASE Serve
    BY <1>2 DEF Serve, SchemaInv, UpTo, Idle
  <1>3. CASE Crash
    BY <1>3 DEF Crash, SchemaInv, UpTo, Idle, file
  <1>4. ASSUME NEW i \in 1 .. LastVersion, Script(i)
        PROVE  SchemaInv'
    <2>1. CASE applied[i] = 0
      <3>1. /\ applied' = [applied EXCEPT ![i] = @ + 1]
            /\ call'.at = i /\ call'.op = "script" /\ DOMAIN call' = {"op", "at"}
            /\ up = "upgrading" /\ up' = up /\ version' = version /\ call.at = i - 1
        BY <1>4, <2>1 DEF Script, SchemaInv
      <3>2. UpTo(i)'
        BY <2>1, <3>1 DEF SchemaInv, UpTo
      <3>3. UpTo(version)'
        BY <2>1, <3>1 DEF SchemaInv, UpTo
      <3> QED
        BY <3>1, <3>2, <3>3 DEF SchemaInv
    <2>2. CASE applied[i] # 0
      BY <1>4, <2>2 DEF Script, SchemaInv, UpTo, Idle
    <2> QED
      BY <2>1, <2>2
  <1>5. CASE Serving
    BY <1>5 DEF Serving, SchemaInv, UpTo, file
  <1>6. CASE UNCHANGED vars
    BY <1>6 DEF SchemaInv, UpTo, vars, file
  <1> QED
    BY <1>1, <1>2, <1>3, <1>4, <1>5, <1>6, HandlersServe

LEMMA SchemaAlways == Spec => []SchemaInv
  BY SchemaInit, SchemaStep, PTL DEF Spec

\* The server works only on tables that got every upgrade, each once, whatever file it
\* found and wherever the process died in the upgrades before.
THEOREM SchemaIsComplete == Spec => []SchemaComplete
  <1>1. SchemaInv => SchemaComplete
    BY DEF SchemaInv, SchemaComplete, UpTo
  <1> QED
    BY <1>1, SchemaAlways, PTL

-----------------------------------------------------------------------------
(* Rows.  Between the two statements of a registration the new account has *)
(* the next ID itself.                                                     *)

IdInv ==
  /\ DOMAIN account \subseteq Nat /\ nextId \in Nat
  /\ ~torn => \A id \in DOMAIN account : id < nextId \/ (call.op = "advance" /\ id = nextId)
  /\ \A i, j \in DOMAIN account : account[i].name = account[j].name => i = j
  /\ \A i, j \in DOMAIN nick : nick[i] = nick[j] => i = j

LEMMA IdInit == Init => IdInv
  BY DEF Init, IdInv

\* A nickname nobody has may be given to any account.
LEMMA NickGiven ==
  ASSUME IdInv, NEW id, NEW n, \A i \in DOMAIN nick : nick[i] # n,
         nick' = Inserted(nick, id, n)
  PROVE  \A i, j \in DOMAIN nick' : nick'[i] = nick'[j] => i = j
  BY DEF IdInv, Inserted

LEMMA InsertIds ==
  ASSUME IdInv, call.op # "advance", NEW s, NEW name, NEW local,
         IdOf(name) = {}, Insert(s, name, local), UNCHANGED <<nextId, nick, torn>>
  PROVE  IdInv'
  <1>1. CASE nextId \in DOMAIN account
    BY <1>1 DEF Insert, IdInv
  <1>2. CASE nextId \notin DOMAIN account
    <2> DEFINE row == [name |-> name, address |-> Address[s]]
    <2>1. account' = Inserted(account, nextId, row) /\ call'.op = "advance"
      BY <1>2 DEF Insert
    <2>2. row.name = name
      OBVIOUS
    <2> HIDE DEF row
    <2>3. /\ DOMAIN account' = DOMAIN account \cup {nextId}
          /\ account'[nextId] = row
          /\ \A i \in DOMAIN account : account'[i] = account[i]
      BY <1>2, <2>1 DEF Inserted
    <2>4. \A i \in DOMAIN account : account[i].name # name
      BY DEF IdOf
    <2>5. \A i, j \in DOMAIN account' : account'[i].name = account'[j].name => i = j
      BY <2>2, <2>3, <2>4 DEF IdInv
    <2>6. ~torn' => \A id \in DOMAIN account' : id < nextId' \/ id = nextId'
      BY <2>3 DEF IdInv
    <2> QED
      BY <2>1, <2>3, <2>5, <2>6 DEF IdInv
  <1> QED
    BY <1>1, <1>2

LEMMA BootstrapIds ==
  ASSUME IdInv, call.op # "advance", NEW s, BootstrapLocalUser(s), UNCHANGED <<nextId, torn>>
  PROVE  IdInv'
  <1>1. CASE IdOf(LocalName) = {}
    BY <1>1, InsertIds DEF BootstrapLocalUser
  <1>2. CASE IdOf(LocalName) # {}
    <2>1. account' = account /\ call'.op = "idle"
      <3>1. account' = account /\ call' = Idle
        BY <1>2 DEF BootstrapLocalUser
      <3> QED BY <3>1 DEF Idle
    <2>2. \/ nick' = nick
          \/ /\ nick' = Inserted(nick, TheId(LocalName), LocalNick)
             /\ \A i \in DOMAIN nick : nick[i] # LocalNick
      BY <1>2 DEF BootstrapLocalUser
    <2>3. \A i, j \in DOMAIN nick' : nick'[i] = nick'[j] => i = j
      BY <2>2, NickGiven DEF IdInv
    <2> QED
      BY <2>1, <2>3 DEF IdInv
  <1> QED
    BY <1>1, <1>2

LEMMA IdStep == IdInv /\ SchemaInv /\ [Next]_vars => IdInv'
  <1> SUFFICES ASSUME IdInv, SchemaInv, [Next]_vars
               PROVE  IdInv'
    OBVIOUS
  <1> DEFINE Kept == UNCHANGED <<account, nextId, nick, torn>>
                     /\ call.op # "advance"
  <1>0. Kept => IdInv'
    BY DEF IdInv
  <1> USE DEF Ready, Idle
  <1>1. CASE Open \/ Serve \/ \E i \in 1 .. LastVersion : Script(i)
    BY <1>0, <1>1 DEF Open, Serve, Script, SchemaInv, tables
  <1>2. CASE Crash
    BY <1>2 DEF Crash, IdInv, tables
  <1>3. CASE \E s \in Sock : Connect(s) \/ Hangup(s)
    BY <1>0, <1>3 DEF Connect, Hangup, tables
  <1>4. CASE KickAll \/ KickNext
    BY <1>0, <1>4 DEF KickAll, KickNext, KickAt
  <1>5. ASSUME NEW s \in Sock, NEW name \in Name, Register(s, name)
        PROVE  IdInv'
    BY <1>5, InsertIds DEF Register, CanRegister
  <1>6. ASSUME NEW s \in Sock, NEW name \in Name, Login(s, name)
        PROVE  IdInv'
    BY <1>0, <1>6 DEF Login
  <1>7. CASE Advance
    <2>1. /\ call.op = "advance" /\ UNCHANGED <<account, nick>>
          /\ \/ nextId' = nextId + 1 /\ torn' = torn
             \/ nextId' = nextId /\ torn' = TRUE
      BY <1>7 DEF Advance
    <2> QED
      BY <2>1 DEF IdInv
  <1>8. CASE LoginRegistered
    BY <1>8, BootstrapIds DEF LoginRegistered
  <1>9. ASSUME NEW s \in Sock, OnVersionPacket(s) \/ OnLoginPacket(s)
        PROVE  IdInv'
    <2>1. call.op # "advance" /\ UNCHANGED <<nextId, torn>>
      BY <1>9 DEF OnVersionPacket, OnLoginPacket
    <2>2. UNCHANGED <<account, nick, call>> \/ BootstrapLocalUser(s)
      BY <1>9 DEF OnVersionPacket, OnLoginPacket
    <2> QED
      BY <1>0, <2>1, <2>2, BootstrapIds
  <1>10. ASSUME NEW s \in Sock, NEW n \in Nick, CreateCharacter(s, n)
         PROVE  IdInv'
    <2>1. /\ call.op # "advance" /\ UNCHANGED <<account, nextId, torn, call>>
          /\ \A i \in DOMAIN nick : nick[i] # n
          /\ nick' = nick \/ nick' = Inserted(nick, IdAt(s), n)
      BY <1>10 DEF CreateCharacter, FreeNick
    <2>2. \A i, j \in DOMAIN nick' : nick'[i] = nick'[j] => i = j
      BY <2>1, NickGiven DEF IdInv
    <2> QED
      BY <2>1, <2>2 DEF IdInv
  <1>11. ASSUME NEW s \in Sock, NEW n \in Nick, Rename(s, n)
         PROVE  IdInv'
    <2>1. /\ call.op # "advance" /\ UNCHANGED <<account, nextId, torn, call>>
          /\ \A i \in DOMAIN nick : nick[i] # n
          /\ nick' = [nick EXCEPT ![IdAt(s)] = n]
      BY <1>11 DEF Rename, FreeNick
    <2>2. \A i, j \in DOMAIN nick' : nick'[i] = nick'[j] => i = j
      BY <2>1 DEF IdInv
    <2> QED
      BY <2>1, <2>2 DEF IdInv
  <1>12. ASSUME NEW id \in DOMAIN account, Ban(id) \/ Unban(id)
         PROVE  IdInv'
    <2>1. CASE Ban(id)
      BY <1>0, <2>1 DEF Ban
    <2>2. CASE Unban(id)
      BY <1>0, <2>2 DEF Unban
    <2> QED
      BY <1>12, <2>1, <2>2
  <1>13. CASE \E ended \in SUBSET banned : OnMinuteTick(ended)
    BY <1>0, <1>13 DEF OnMinuteTick
  <1>14. CASE \E s \in Sock : AddServer(s) \/ HostReady(s)
    BY <1>0, <1>14 DEF AddServer, HostReady, tables
  <1>15. ASSUME NEW t \in timer, DelayEnds(t)
         PROVE  IdInv'
    BY <1>0, <1>15 DEF DelayEnds, tables
  <1>16. ASSUME NEW t \in timer, BootstrapHost(t)
         PROVE  IdInv'
    <2>1. call.op # "advance" /\ UNCHANGED <<nextId, torn>>
      BY <1>16 DEF BootstrapHost
    <2>2. UNCHANGED <<account, nick, call>> \/ BootstrapLocalUser(t.sock)
      BY <1>16 DEF BootstrapHost
    <2> QED
      BY <1>0, <2>1, <2>2, BootstrapIds
  <1>17. CASE UNCHANGED vars
    BY <1>17 DEF IdInv, vars, tables
  <1> QED
    BY <1>1, <1>2, <1>3, <1>4, <1>5, <1>6, <1>7, <1>8, <1>9, <1>10, <1>11, <1>12, <1>13,
       <1>14, <1>15, <1>16, <1>17 DEF Next

LEMMA IdAlways == Spec => []IdInv
  BY IdInit, IdStep, SchemaAlways, PTL DEF Spec

\* No registration writes into the row of another account, and no two accounts or characters
\* have one name, whatever statements fail and wherever the process dies.
THEOREM IdentitiesAreUnique == Spec => []IdentitiesUnique
  <1>1. IdInv => IdentitiesUnique
    BY DEF IdInv, IdentitiesUnique
  <1> QED
    BY <1>1, IdAlways, PTL

-----------------------------------------------------------------------------
(* Who is online.  A delayed bootstrap of a host and a registration that   *)
(* goes on as a login keep a socket while other handlers run: its          *)
(* connection has no user, and it is still there or the step is dropped.   *)

OnlineInv ==
  /\ Sound(Live)
  /\ \A u \in ToSet(users) : u.id \notin banned
  /\ up # "serving" => users = <<>>
  /\ pool \subseteq Host

TimerInv ==
  \A t \in timer : /\ HostBootstrap /\ t \in [sock : Host, left : {0, 1}]
                   /\ NobodyAt(Live, t.sock)
                   /\ t.sock \in pool => t.sock \in client
                   /\ \A u \in timer : u.sock = t.sock => u = t

CallInv ==
  call.op \in {"advance", "login"} => /\ call.sock \in client
                                      /\ NobodyAt(Live, call.sock)
                                      /\ \A t \in timer : t.sock # call.sock

LiveInv == OnlineInv /\ TimerInv /\ CallInv

LEMMA LiveFields ==
  /\ Live.client = client /\ Live.users = users /\ Live.pool = pool /\ Live.session = session
  /\ DOMAIN Live = {"client", "users", "session", "pool"}
  BY DEF Live

LEMMA EmptyLive ==
  /\ <<>> \in Seq(AUser) /\ Unique(<<>>) /\ ToSet(<<>>) = {}
  BY EmptySeq DEF Unique, ToSet

LEMMA LiveInit == Init => LiveInv
  BY EmptyLive, LiveFields
  DEF Init, LiveInv, OnlineInv, TimerInv, CallInv, Sound, NobodyAt, Idle

\* A handler that leaves the process in a sound state, without a user where a delayed
\* bootstrap waits.
LEMMA LiveSet ==
  ASSUME LiveInv, NEW m, SetLive(m), Sound(m), m.pool \subseteq pool,
         up = "serving", up' = up,
         \A u \in ToSet(m.users) : u.id \notin banned',
         timer' \subseteq timer,
         \A t \in timer' : NobodyAt(m, t.sock) /\ (t.sock \in m.pool => t.sock \in m.client),
         call'.op \notin {"advance", "login"}
  PROVE  LiveInv'
  <1>1. /\ client' = m.client /\ users' = m.users /\ session' = m.session /\ pool' = m.pool
    BY DEF SetLive
  <1>2. /\ Live'.client = m.client /\ Live'.users = m.users /\ Live'.pool = m.pool
        /\ Live'.session = m.session
        /\ DOMAIN Live' = {"client", "users", "session", "pool"}
    BY <1>1 DEF Live
  <1>3. OnlineInv'
    BY <1>1, <1>2 DEF LiveInv, OnlineInv, Sound
  <1>4. TimerInv'
    BY <1>1, <1>2 DEF LiveInv, TimerInv, NobodyAt
  <1> QED
    BY <1>3, <1>4 DEF LiveInv, CallInv

\* A connection is closed, with or without a user.
LEMMA LiveClosed ==
  ASSUME LiveInv, NEW s, SetLive(Disconnected(Live, s)),
         up = "serving", up' = up, timer' = timer, call'.op \notin {"advance", "login"},
         \A u \in ToSet(users) : u.sock # s => u.id \notin banned'
  PROVE  LiveInv'
  <1> DEFINE d == Disconnected(Live, s)
  <1>1. Sound(Live)
    BY DEF LiveInv, OnlineInv
  <1>2. /\ Sound(d)
        /\ d.client = client \ {s}
        /\ ToSet(d.users) = {u \in ToSet(users) : u.sock # s}
        /\ NobodyAt(Live, s) => d.pool = pool \ {s}
        /\ ~NobodyAt(Live, s) => d.pool = pool
    BY <1>1, DisconnectedFacts, LiveFields
  <1>3. SetLive(d)
    OBVIOUS
  <1> HIDE DEF d
  <1>4. ASSUME NEW t \in timer
        PROVE  NobodyAt(d, t.sock) /\ (t.sock \in d.pool => t.sock \in d.client)
    <2>1. NobodyAt(Live, t.sock) /\ (t.sock \in pool => t.sock \in client)
      BY DEF LiveInv, TimerInv
    <2>2. NobodyAt(d, t.sock)
      BY <1>2, <2>1, LiveFields DEF NobodyAt
    <2>3. CASE t.sock = s
      BY <1>2, <2>1, <2>2, <2>3
    <2>4. CASE t.sock # s
      BY <1>2, <2>1, <2>2, <2>4
    <2> QED
      BY <2>3, <2>4
  <1>5. d.pool \subseteq pool
    BY <1>2
  <1> QED
    BY <1>2, <1>3, <1>4, <1>5, LiveSet

\* An account logs in on a connection without a user, for which no bootstrap waits.
LEMMA LiveLogin ==
  ASSUME LiveInv, NEW s \in client, NobodyAt(Live, s), NEW id \in Nat,
         NEW m \in LoginResults(s, id), SetLive(m),
         up = "serving", up' = up, banned' = banned,
         timer' \subseteq timer, \A t \in timer' : t.sock # s,
         call'.op \notin {"advance", "login"}
  PROVE  LiveInv'
  <1>1. Sound(Live)
    BY DEF LiveInv, OnlineInv
  <1>2. /\ Sound(m)
        /\ \A u \in ToSet(m.users) :
             u \in ToSet(users) \/ (u = [id |-> id, sock |-> s] /\ id \notin banned)
        /\ m.pool = pool
        /\ \A x \in client : NobodyAt(Live, x) => x \in m.client
    BY <1>1, LoginResultsFacts
  <1>3. ASSUME NEW t \in timer'
        PROVE  NobodyAt(m, t.sock) /\ (t.sock \in m.pool => t.sock \in m.client)
    <2>1. NobodyAt(Live, t.sock) /\ (t.sock \in pool => t.sock \in client) /\ t.sock # s
      BY DEF LiveInv, TimerInv
    <2> QED
      BY <1>2, <2>1, LiveFields DEF NobodyAt
  <1>4. \A u \in ToSet(m.users) : u.id \notin banned'
    BY <1>2 DEF LiveInv, OnlineInv
  <1> QED
    BY <1>2, <1>3, <1>4, LiveSet

LEMMA BootstrapLive ==
  ASSUME LiveInv, IdInv, NEW s \in client, NobodyAt(Live, s), BootstrapLocalUser(s),
         up = "serving", up' = up, banned' = banned,
         timer' \subseteq timer, \A t \in timer' : t.sock # s,
         call.op \in {"advance", "login"} => call.sock = s
  PROVE  LiveInv'
  <1>1. CASE IdOf(LocalName) = {}
    <2>1. /\ UNCHANGED <<session, memory>>
          /\ call' = call \/ (call'.op = "advance" /\ call'.sock = s)
      BY <1>1 DEF BootstrapLocalUser, Insert
    <2>2. Live' = Live /\ UNCHANGED <<client, users, pool, session>>
      BY <2>1 DEF Live, memory
    <2>3. OnlineInv' /\ TimerInv'
      BY <2>2 DEF LiveInv, OnlineInv, TimerInv, NobodyAt
    <2>4. CallInv'
      BY <2>1, <2>2 DEF CallInv, NobodyAt
    <2> QED
      BY <2>3, <2>4 DEF LiveInv
  <1>2. CASE IdOf(LocalName) # {}
    <2>1. call' = Idle /\ \E m \in LoginResults(s, TheId(LocalName)) : SetLive(m)
      BY <1>2 DEF BootstrapLocalUser
    <2>2. TheId(LocalName) \in Nat
      BY <1>2 DEF TheId, IdOf, IdInv
    <2>3. call'.op \notin {"advance", "login"}
      BY <2>1 DEF Idle
    <2> QED
      BY <2>1, <2>2, <2>3, LiveLogin
  <1> QED
    BY <1>1, <1>2

\* Nothing about who is online changes.
LEMMA LiveSame ==
  ASSUME LiveInv, UNCHANGED <<memory, session, timer>>, banned' \subseteq banned,
         up # "serving" \/ up' = up, call' = call \/ call'.op \notin {"advance", "login"}
  PROVE  LiveInv'
  <1>1. Live' = Live /\ UNCHANGED <<client, users, pool, session, timer>>
    BY DEF Live, memory
  <1>2. OnlineInv' /\ TimerInv'
    BY <1>1 DEF LiveInv, OnlineInv, TimerInv, NobodyAt
  <1>3. CallInv'
    BY <1>1 DEF LiveInv, CallInv, NobodyAt
  <1> QED
    BY <1>2, <1>3 DEF LiveInv

LEMMA NobodyThere == ASSUME NEW s, UserAt(s) = {} PROVE NobodyAt(Live, s)
  BY LiveFields DEF UserAt, NobodyAt, ToSet

\* A login by name, of a client.
LEMMA LoginLive ==
  ASSUME LiveInv, IdInv, NEW s, NEW name, Login(s, name)
  PROVE  LiveInv'
  <1>1. /\ up = "serving" /\ up' = up /\ call' = call /\ call.op = "idle"
        /\ banned' = banned /\ timer' = timer
        /\ s \in client /\ s \in Player /\ NobodyAt(Live, s)
    BY NobodyThere DEF Login, Ready, Idle
  <1>2. TheId(name) \in Nat
    BY DEF Login, TheId, IdOf, IdInv
  <1>3. \A t \in timer : t.sock # s
    BY <1>1, RoleAssumption DEF LiveInv, TimerInv
  <1>4. CASE SetLive(Disconnected(Live, s))
    BY <1>1, <1>4, LiveClosed DEF LiveInv, OnlineInv
  <1>5. CASE \E m \in LoginResults(s, TheId(name)) : SetLive(m)
    BY <1>1, <1>2, <1>3, <1>5, LiveLogin
  <1> QED
    BY <1>4, <1>5 DEF Login

\* The packets of a client that may log it in as the local user.
LEMMA PacketLive ==
  ASSUME LiveInv, IdInv, NEW s, OnVersionPacket(s) \/ OnLoginPacket(s)
  PROVE  LiveInv'
  <1>1. /\ up = "serving" /\ up' = up /\ call.op = "idle"
        /\ banned' = banned /\ timer' = timer
        /\ s \in client /\ s \in Player
    BY DEF OnVersionPacket, OnLoginPacket, Ready, Idle
  <1>2. \/ SetLive(Disconnected(Live, s)) /\ call' = call
        \/ UserAt(s) = {} /\ BootstrapLocalUser(s)
    BY DEF OnVersionPacket, OnLoginPacket
  <1>3. CASE SetLive(Disconnected(Live, s)) /\ call' = call
    BY <1>1, <1>3, LiveClosed DEF LiveInv, OnlineInv
  <1>4. CASE UserAt(s) = {} /\ BootstrapLocalUser(s)
    <2>1. NobodyAt(Live, s)
      BY <1>4, NobodyThere
    <2>2. \A t \in timer : t.sock # s
      BY <1>1, RoleAssumption DEF LiveInv, TimerInv
    <2> QED
      BY <1>1, <1>4, <2>1, <2>2, BootstrapLive
  <1> QED
    BY <1>2, <1>3, <1>4

LEMMA BanLive ==
  ASSUME LiveInv, NEW id, Ban(id)
  PROVE  LiveInv'
  <1>1. /\ up = "serving" /\ up' = up /\ call' = call /\ call.op = "idle" /\ timer' = timer
        /\ banned' = banned \cup {id}
    BY DEF Ban, Ready, Idle, UpdateUserBan
  <1>2. CASE LoggedIn(id) # {}
    <2>1. SetLive(Disconnected(Live, SockOf(id)))
      BY <1>2 DEF Ban
    <2>2. PICK k \in LoggedIn(id) : SockOf(id) = users[k].sock
      BY <1>2 DEF SockOf
    <2>3. \A u \in ToSet(users) : u.sock # SockOf(id) => u.id # id
      BY <2>2, LiveFields DEF LoggedIn, LiveInv, OnlineInv, Sound, Unique, ToSet
    <2>4. \A u \in ToSet(users) : u.sock # SockOf(id) => u.id \notin banned'
      BY <1>1, <2>3 DEF LiveInv, OnlineInv
    <2> QED
      BY <1>1, <2>1, <2>4, LiveClosed
  <1>3. CASE LoggedIn(id) = {}
    <2>1. SetLive(Live)
      BY <1>3 DEF Ban
    <2>2. \A u \in ToSet(users) : u.id \notin banned'
      BY <1>1, <1>3 DEF LoggedIn, ToSet, LiveInv, OnlineInv
    <2>3. \A t \in timer : NobodyAt(Live, t.sock) /\ (t.sock \in Live.pool => t.sock \in Live.client)
      BY LiveFields DEF LiveInv, TimerInv
    <2>4. Sound(Live) /\ Live.pool \subseteq pool
      BY LiveFields DEF LiveInv, OnlineInv
    <2> QED
      BY <1>1, <2>1, <2>2, <2>3, <2>4, LiveFields, LiveSet
  <1> QED
    BY <1>2, <1>3

LEMMA CreateCharacterLive ==
  ASSUME LiveInv, NEW s, NEW n, CreateCharacter(s, n)
  PROVE  LiveInv'
  <1>1. /\ up = "serving" /\ up' = up /\ call' = call /\ call.op = "idle" /\ timer' = timer
        /\ banned' = banned
    BY DEF CreateCharacter, Ready, Idle
  <1>2. SetLive(Disconnected(Live, s)) \/ UNCHANGED <<memory, session>>
    BY DEF CreateCharacter
  <1>3. CASE SetLive(Disconnected(Live, s))
    BY <1>1, <1>3, LiveClosed DEF LiveInv, OnlineInv
  <1>4. CASE UNCHANGED <<memory, session>>
    BY <1>1, <1>4, LiveSame
  <1> QED
    BY <1>2, <1>3, <1>4

\* A connection comes, or one of a host joins the pool.
LEMMA GrownLive ==
  ASSUME LiveInv, NEW s \in Sock, Connect(s) \/ AddServer(s)
  PROVE  LiveInv'
  <1>1. /\ up' = up /\ call' = call /\ UNCHANGED <<users, session, timer, banned>>
        /\ client \subseteq client' /\ client' \subseteq client \cup {s}
        /\ pool' = pool \/ (pool' = pool \cup {s} /\ s \in client \cap Host)
    BY DEF Connect, AddServer, tables
  <1>2. /\ Live'.client = client' /\ Live'.users = users /\ Live'.session = session
        /\ DOMAIN Live' = {"client", "users", "session", "pool"}
    BY <1>1 DEF Live
  <1>3. Sound(Live)'
    BY <1>1, <1>2, LiveFields DEF LiveInv, OnlineInv, Sound
  <1>4. OnlineInv'
    BY <1>1, <1>3 DEF LiveInv, OnlineInv
  <1>5. TimerInv'
    BY <1>1, <1>2, LiveFields DEF LiveInv, TimerInv, NobodyAt
  <1>6. CallInv'
    BY <1>1, <1>2, LiveFields DEF LiveInv, CallInv, NobodyAt
  <1> QED
    BY <1>4, <1>5, <1>6 DEF LiveInv

\* A delay begins, or ends.
LEMMA DelayLive ==
  ASSUME LiveInv, (\E s \in Sock : HostReady(s)) \/ (\E t \in timer : DelayEnds(t))
  PROVE  LiveInv'
  <1>1. UNCHANGED <<up, client, users, session, pool, banned, call>> /\ call.op = "idle"
    BY DEF HostReady, DelayEnds, memory, tables, Ready, Idle
  <1>2. Live' = Live
    BY <1>1 DEF Live
  <1>3. TimerInv'
    <2>1. ASSUME NEW s \in Sock, HostReady(s)
          PROVE  TimerInv'
      <3> DEFINE new == [sock |-> s, left |-> 1]
      <3>1. /\ HostBootstrap /\ s \in client /\ s \in pool /\ NobodyAt(Live, s)
            /\ \A t \in timer : t.sock # s
            /\ timer' = timer \cup {new}
        BY <2>1, NobodyThere DEF HostReady
      <3>2. new \in [sock : Host, left : {0, 1}] /\ new.sock = s
        BY <3>1 DEF LiveInv, OnlineInv
      <3> HIDE DEF new
      <3> QED
        BY <1>1, <1>2, <3>1, <3>2 DEF LiveInv, TimerInv
    <2>2. ASSUME NEW t \in timer, DelayEnds(t)
          PROVE  TimerInv'
      <3> DEFINE new == [t EXCEPT !.left = @ - 1]
      <3>1. /\ timer' \subseteq (timer \ {t}) \cup {new}
            /\ t.left > 0
        BY <2>2 DEF DelayEnds
      <3>2. t \in [sock : Host, left : {0, 1}]
        BY DEF LiveInv, TimerInv
      <3>3. new \in [sock : Host, left : {0, 1}] /\ new.sock = t.sock
        BY <3>1, <3>2
      <3> HIDE DEF new
      <3> QED
        BY <1>1, <1>2, <3>1, <3>3 DEF LiveInv, TimerInv
    <2> QED
      BY <2>1, <2>2
  <1> QED
    BY <1>1, <1>2, <1>3 DEF LiveInv, OnlineInv, CallInv

LEMMA BootstrapHostLive ==
  ASSUME LiveInv, IdInv, NEW t \in timer, BootstrapHost(t)
  PROVE  LiveInv'
  <1>1. /\ up = "serving" /\ up' = up /\ call.op = "idle" /\ banned' = banned
        /\ timer' = timer \ {t}
    BY DEF BootstrapHost, Ready, Idle
  <1>2. \A u \in timer' : u.sock # t.sock
    BY <1>1 DEF LiveInv, TimerInv
  <1>3. CASE t.sock \in pool /\ UserAt(t.sock) = {}
    <2>1. BootstrapLocalUser(t.sock) /\ t.sock \in client /\ NobodyAt(Live, t.sock)
      BY <1>3, NobodyThere DEF BootstrapHost, LiveInv, TimerInv
    <2> QED
      BY <1>1, <1>2, <2>1, BootstrapLive
  <1>4. CASE ~(t.sock \in pool /\ UserAt(t.sock) = {})
    <2>1. UNCHANGED <<client, users, session, pool, call>>
      BY <1>4 DEF BootstrapHost, memory
    <2>2. Live' = Live
      BY <2>1 DEF Live
    <2> QED
      BY <1>1, <2>1, <2>2 DEF LiveInv, OnlineInv, TimerInv, CallInv
  <1> QED
    BY <1>3, <1>4

LEMMA KickLive ==
  ASSUME LiveInv, SchemaInv, KickAll \/ KickNext
  PROVE  LiveInv'
  <1>1. PICK slots, at : KickAt(slots, at)
    BY DEF KickAll, KickNext
  <1>2. /\ up = "serving" /\ call.op \notin {"advance", "login"}
    BY DEF KickAll, KickNext, SchemaInv, Ready, Idle
  <1>3. up' = up /\ UNCHANGED <<timer, banned>>
    BY <1>1 DEF KickAt
  <1>4. call'.op \notin {"advance", "login"}
    BY <1>1 DEF KickAt, Idle
  <1>5. SetLive(Disconnected(Live, slots[at].sock)) \/ UNCHANGED <<session, memory>>
    BY <1>1 DEF KickAt
  <1>6. CASE SetLive(Disconnected(Live, slots[at].sock))
    BY <1>2, <1>3, <1>4, <1>6, LiveClosed DEF LiveInv, OnlineInv
  <1>7. CASE UNCHANGED <<session, memory>>
    BY <1>2, <1>3, <1>4, <1>7, LiveSame
  <1> QED
    BY <1>5, <1>6, <1>7

LEMMA LiveStep == LiveInv /\ IdInv /\ SchemaInv /\ [Next]_vars => LiveInv'
  <1> SUFFICES ASSUME LiveInv, IdInv, SchemaInv, [Next]_vars
               PROVE  LiveInv'
    OBVIOUS
  <1>1. CASE Open \/ \E i \in 1 .. LastVersion : Script(i)
    <2>1. UNCHANGED <<memory, session, timer, banned>> /\ up # "serving"
      BY <1>1 DEF Open, Script, tables
    <2>2. call'.op \notin {"advance", "login"}
      BY <1>1 DEF Open, Script, Idle, SchemaInv
    <2> QED
      BY <2>1, <2>2, LiveSame
  <1>2. CASE Serve
    <2>1. /\ users = <<>> /\ users' = <<>> /\ session' = {} /\ up' = "serving"
          /\ UNCHANGED <<client, pool, timer, banned>> /\ call'.op = "idle"
      BY <1>2 DEF Serve, memory, LiveInv, OnlineInv, Idle
    <2>2. Live' = [client |-> client, users |-> users, session |-> {}, pool |-> pool]
      BY <2>1 DEF Live
    <2>3. OnlineInv'
      BY <2>1, <2>2, EmptyLive, LiveFields DEF LiveInv, OnlineInv, Sound
    <2>4. TimerInv'
      BY <2>1, <2>2, LiveFields DEF LiveInv, TimerInv, NobodyAt
    <2> QED
      BY <2>1, <2>3, <2>4 DEF LiveInv, CallInv
  <1>3. CASE Crash
    <2>1. /\ client' = {} /\ users' = <<>> /\ pool' = {} /\ timer' = {} /\ call'.op = "idle"
      BY <1>3 DEF Crash, Idle
    <2>2. Live' = [client |-> {}, users |-> <<>>, session |-> session', pool |-> {}]
      BY <2>1 DEF Live
    <2>3. OnlineInv'
      BY <2>1, <2>2, EmptyLive DEF OnlineInv, Sound
    <2> QED
      BY <2>1, <2>3 DEF LiveInv, TimerInv, CallInv
  <1>4. CASE \E s \in Sock : Connect(s) \/ AddServer(s)
    BY <1>4, GrownLive
  <1>5. ASSUME NEW s \in Sock, Hangup(s)
        PROVE  LiveInv'
    <2>1. /\ up = "serving" /\ up' = up /\ call' = call /\ call.op = "idle"
          /\ SetLive(Disconnected(Live, s)) /\ timer' = timer /\ banned' = banned
      BY <1>5 DEF Hangup, Ready, Idle
    <2> QED
      BY <2>1, LiveClosed DEF LiveInv, OnlineInv
  <1>6. CASE KickAll \/ KickNext
    BY <1>6, KickLive
  <1>7. ASSUME NEW s \in Sock, NEW name \in Name, Register(s, name)
        PROVE  LiveInv'
    <2>1. /\ UNCHANGED <<session, banned, up, memory, timer>>
          /\ call.op = "idle" /\ s \in client /\ s \in Player /\ NobodyAt(Live, s)
          /\ call' = call \/ (call'.op = "advance" /\ call'.sock = s)
      BY <1>7, NobodyThere DEF Register, Insert, Ready, Idle
    <2>2. \A t \in timer : t.sock # s
      BY <2>1, RoleAssumption DEF LiveInv, TimerInv
    <2>3. Live' = Live /\ UNCHANGED <<client, users, pool>>
      BY <2>1 DEF Live, memory
    <2> QED
      BY <2>1, <2>2, <2>3 DEF LiveInv, OnlineInv, TimerInv, CallInv, NobodyAt
  <1>8. CASE \E s \in Sock, name \in Name : Login(s, name)
    BY <1>8, LoginLive
  <1>9. CASE Advance
    <2>1. /\ UNCHANGED <<session, banned, up, memory, timer>>
          /\ call.op = "advance"
          /\ call' = IF call.local THEN [op |-> "login", sock |-> call.sock] ELSE Idle
      BY <1>9 DEF Advance
    <2>2. call'.op = "idle" \/ (call'.op = "login" /\ call'.sock = call.sock)
      BY <2>1 DEF Idle
    <2>3. Live' = Live /\ UNCHANGED <<client, users, pool>>
      BY <2>1 DEF Live, memory
    <2> QED
      BY <2>1, <2>2, <2>3 DEF LiveInv, OnlineInv, TimerInv, CallInv, NobodyAt
  <1>10. CASE LoginRegistered
    <2>1. /\ call.op = "login" /\ BootstrapLocalUser(call.sock)
          /\ UNCHANGED <<banned, up, timer>>
      BY <1>10 DEF LoginRegistered
    <2>2. up = "serving"
      BY <2>1 DEF SchemaInv
    <2>3. call.sock \in client /\ NobodyAt(Live, call.sock) /\ \A t \in timer : t.sock # call.sock
      BY <2>1 DEF LiveInv, CallInv
    <2> QED
      BY <2>1, <2>2, <2>3, BootstrapLive
  <1>11. CASE \E s \in Sock : OnVersionPacket(s) \/ OnLoginPacket(s)
    BY <1>11, PacketLive
  <1>12. CASE \E s \in Sock, n \in Nick : CreateCharacter(s, n)
    BY <1>12, CreateCharacterLive
  <1>13. CASE \E s \in Sock, n \in Nick : Rename(s, n)
    <2>1. UNCHANGED <<session, banned, up, memory, timer, call>>
      BY <1>13 DEF Rename
    <2> QED
      BY <2>1, LiveSame
  <1>14. ASSUME NEW id \in DOMAIN account, Ban(id) \/ Unban(id)
         PROVE  LiveInv'
    <2>1. CASE Ban(id)
      BY <2>1, BanLive
    <2>2. CASE Unban(id)
      <3>1. UNCHANGED <<session, up, memory, timer, call>> /\ banned' \subseteq banned
        BY <2>2 DEF Unban, UpdateUserBan
      <3> QED
        BY <3>1, LiveSame
    <2> QED
      BY <1>14, <2>1, <2>2
  <1>15. CASE \E ended \in SUBSET banned : OnMinuteTick(ended)
    <2>1. UNCHANGED <<session, up, memory, timer, call>> /\ banned' \subseteq banned
      BY <1>15 DEF OnMinuteTick
    <2> QED
      BY <2>1, LiveSame
  <1>16. CASE (\E s \in Sock : HostReady(s)) \/ \E t \in timer : DelayEnds(t)
    BY <1>16, DelayLive
  <1>17. CASE \E t \in timer : BootstrapHost(t)
    BY <1>17, BootstrapHostLive
  <1>18. CASE UNCHANGED vars
    <2>1. UNCHANGED <<session, banned, up, memory, timer, call>>
      BY <1>18 DEF vars, tables
    <2> QED
      BY <2>1, LiveSame
  <1> QED
    BY <1>1, <1>2, <1>3, <1>4, <1>5, <1>6, <1>7, <1>8, <1>9, <1>10, <1>11, <1>12, <1>13,
       <1>14, <1>15, <1>16, <1>17, <1>18 DEF Next

LEMMA LiveAlways == Spec => []LiveInv
  BY LiveInit, LiveStep, IdAlways, SchemaAlways, PTL DEF Spec

\* Nobody is online twice, and every user has a connection of its own that is alive and its
\* session row, however accounts move between connections.
THEOREM SessionsDoAgree == Spec => []SessionsAgree
  <1>1. LiveInv => SessionsAgree
    <2> SUFFICES ASSUME Sound(Live)
                 PROVE  SessionsAgree
      BY DEF LiveInv, OnlineInv
    <2> QED
      BY LiveFields DEF Sound, Unique, ToSet, SessionsAgree
  <1> QED
    BY <1>1, LiveAlways, PTL

\* As long as there is room, every account that is not banned could log in on every
\* connection that has no user: no session row left behind locks it out.
THEOREM LoginAlwaysSucceeds == Spec => []LoginSucceeds
  <1>1. LiveInv /\ IdInv => LoginSucceeds
    <2> SUFFICES ASSUME LiveInv, IdInv, Len(users) < MaxPlayers,
                        NEW id \in DOMAIN account, NEW s \in client, UserAt(s) = {}
                 PROVE  LET m == UserAdded(Live, s, id) IN
                        \E k \in DOMAIN m.users : m.users[k] = [id |-> id, sock |-> s]
      BY DEF LoginSucceeds
    <2>1. Sound(Live) /\ NobodyAt(Live, s) /\ id \in Nat
      BY NobodyThere DEF LiveInv, OnlineInv, IdInv
    <2>2. [id |-> id, sock |-> s] \in ToSet(UserAdded(Live, s, id).users)
      BY <2>1, UserAddedFacts, LiveFields
    <2> QED
      BY <2>2 DEF ToSet
  <1> QED
    BY <1>1, LiveAlways, IdAlways, PTL

\* A banned account is not online, whatever logs in while bans come and go.
THEOREM BannedDoStayOut == Spec => []BannedStayOut
  <1>1. LiveInv => BannedStayOut
    BY DEF LiveInv, OnlineInv, BannedStayOut, ToSet
  <1> QED
    BY <1>1, LiveAlways, PTL

=============================================================================
