------------------------------- MODULE Accounts -------------------------------
(***************************************************************************)
(* Accounts, characters, sessions and bans: the tables of the user         *)
(* database, the list of users in memory, the connections they belong to   *)
(* and the pool of dedicated servers that a closed connection also leaves. *)
(* A handler runs to its end before another starts, so that only a crash   *)
(* or a failing statement can separate two of its writes; the writes that  *)
(* are not one statement or transaction are steps of their own.            *)
(***************************************************************************)
EXTENDS Integers, FiniteSets, SequencesExt

CONSTANTS
  Sock,           \* socket objects: a closed one's address is taken by a later connection
  Player,         \* sockets of game clients
  Host,           \* sockets from the dedicated server whitelist
  Name,           \* user names that pass RegisterUser's tests
  Nick,           \* nicknames that pass ChangeUserNickname's tests
  LocalName,      \* "localuser"
  LocalNick,      \* "LocalPlayer"
  Address,        \* Sock -> address
  MaxPlayers, MaxPerAddress,
  LastVersion,    \* LAST_DB_VERSION
  FirstVersion,   \* version of the database file found, 0 when there is none
  HostBootstrap,  \* CSNZ_DEDI_USER_BOOTSTRAP
  DbErrors,       \* may a statement fail
  MaxId           \* bound: user IDs

ASSUME LocalAssumption == LocalName \in Name /\ LocalNick \in Nick
ASSUME SizeAssumption == MaxPlayers \in Nat /\ MaxPerAddress \in Nat /\ MaxId \in Nat
ASSUME VersionAssumption == FirstVersion \in 0 .. LastVersion /\ LastVersion \in Nat

\* A dedicated server is another program than the client; the diagnostics that log a user in
\* on its connection rely on it.
ASSUME RoleAssumption == HostBootstrap => Player \cap Host = {}

VARIABLES
  version,   \* PRAGMA user_version
  applied,   \* i -> how often the tables were taken to version i
  account,   \* User: userID -> name and address
  nextId,    \* UserDist.userIDNext
  nick,      \* UserCharacter: userID -> nickname
  session,   \* UserSession
  banned,    \* UserBan
  up,        \* the process: off, upgrading, serving
  client,    \* connected sockets
  users,     \* CUserManager::m_Users: account and socket
  pool,      \* sockets of CDedicatedServerManager's pool
  timer,     \* delayed host bootstraps: socket and how many delays are left
  call,      \* the handler between two of its writes
  torn       \* history: an account was stored without the advance of userIDNext

file == <<version, applied>>
tables == <<account, nextId, nick, session, banned>>
memory == <<client, users, pool>>
vars == <<file, tables, up, memory, timer, call, torn>>

Idle == [op |-> "idle"]
Ready == up = "serving" /\ call = Idle

IdOf(name) == {id \in DOMAIN account : account[id].name = name}
TheId(name) == CHOOSE id \in IdOf(name) : TRUE
UserAt(s) == {k \in DOMAIN users : users[k].sock = s}
LoggedIn(id) == {k \in DOMAIN users : users[k].id = id}
SockOf(id) == users[CHOOSE k \in LoggedIn(id) : TRUE].sock
IdAt(s) == users[CHOOSE k \in UserAt(s) : TRUE].id

\* A row is inserted into a table.
Inserted(t, id, row) == [i \in DOMAIN t \cup {id} |-> IF i = id THEN row ELSE t[i]]

\* The user of a socket is erased from the list.
Erase(us, s) ==
  IF \E k \in DOMAIN us : us[k].sock = s
    THEN RemoveAt(us, CHOOSE k \in DOMAIN us : us[k].sock = s)
    ELSE us

-----------------------------------------------------------------------------
(* Connections and sessions.  A handler may close several connections and  *)
(* add a user: its effect is computed on a record of what it changes.      *)

Live == [client |-> client, users |-> users, session |-> session, pool |-> pool]
SetLive(m) == /\ client' = m.client /\ users' = m.users
              /\ session' = m.session /\ pool' = m.pool

\* Mutant: the socket is looked up among the dedicated servers first.
DisconnectedM(m, s) ==
  [client |-> m.client \ {s},
   users |-> IF s \in m.pool THEN m.users ELSE Erase(m.users, s),
   session |-> IF s \in m.pool THEN m.session
               ELSE m.session \ {m.users[k].id : k \in {j \in DOMAIN m.users : m.users[j].sock = s}},
   pool |-> m.pool \ {s}]

DropSession(m, ids) == [m EXCEPT !.session = @ \ ids]

\* OnTCPConnectionClosed removes the user of the socket, whose destructor drops the
\* session; only a socket without a user is looked up among the dedicated servers.
Disconnected(m, s) ==
  LET mine == {k \in DOMAIN m.users : m.users[k].sock = s} IN
  [DropSession(m, {m.users[k].id : k \in mine}) EXCEPT
     !.client = @ \ {s},
     !.users = Erase(@, s),
     !.pool = IF mine = {} THEN @ \ {s} ELSE @]

\* Mutant: the older connection of an account is not closed.
SessionOpenedM(m, id) == [m EXCEPT !.session = @ \cup {id}]

\* CUserDatabaseSQLite::Login: the older session of the account ends, then a row is inserted.
SessionOpened(m, id) ==
  LET online == {k \in DOMAIN m.users : m.users[k].id = id}
      closed == IF id \notin m.session THEN m
                ELSE IF online = {} THEN DropSession(m, {id})
                ELSE Disconnected(m, m.users[CHOOSE k \in online : TRUE].sock)
  IN [closed EXCEPT !.session = @ \cup {id}]

Refused(m, s, id) ==
  \/ \E k \in DOMAIN m.users : m.users[k].id = id \/ m.users[k].sock = s
  \/ Len(m.users) >= MaxPlayers

\* CUserManager::LoginUser: the tests that refuse a user come after the session.
UserAdded(m, s, id) ==
  LET opened == SessionOpened(m, id) IN
  IF Refused(opened, s, id) THEN opened
  ELSE [opened EXCEPT !.users = Append(@, [id |-> id, sock |-> s])]

\* What the account may do with a login: refused by a ban, or by a failing statement
\* after the older connection was closed.
LoginResults(s, id) ==
  IF id \in banned THEN {Live}
  ELSE {UserAdded(Live, s, id)}
         \cup (IF DbErrors THEN {Live, DropSession(SessionOpened(Live, id), {id})}
                           ELSE {})

-----------------------------------------------------------------------------
(* The process and the database file *)

\* Mutant: the new version is written before the scripts are executed.
OpenM ==
  /\ up = "off"
  /\ version' = LastVersion
  /\ applied' = [i \in DOMAIN applied |-> IF version = 0 THEN 1 ELSE applied[i]]
  /\ up' = "upgrading"
  /\ call' = [op |-> "script", at |-> IF version = 0 THEN LastVersion ELSE version]
  /\ UNCHANGED <<tables, memory, timer, torn>>

\* Without a file the main script creates everything in one transaction.
Open ==
  /\ up = "off"
  /\ IF version = 0
       THEN /\ version' = LastVersion
            /\ applied' = [i \in DOMAIN applied |-> 1]
       ELSE UNCHANGED file
  /\ up' = "upgrading"
  /\ call' = [op |-> "script", at |-> version']
  /\ UNCHANGED <<tables, memory, timer, torn>>

\* Each script is a transaction; what it adds to the tables cannot be added again: a
\* second attempt fails and the server does not start.
Script(i) ==
  /\ up = "upgrading" /\ call.op = "script" /\ call.at = i - 1 /\ i <= LastVersion
  /\ IF applied[i] = 0
       THEN /\ applied' = [applied EXCEPT ![i] = @ + 1]
            /\ call' = [call EXCEPT !.at = i]
            /\ UNCHANGED up
       ELSE /\ up' = "off" /\ call' = Idle
            /\ UNCHANGED applied
  /\ UNCHANGED <<version, tables, memory, timer, torn>>

\* The version is written when all scripts have been executed; then old sessions go.
Serve ==
  /\ up = "upgrading" /\ call.op = "script" /\ call.at = LastVersion
  /\ version' = LastVersion
  /\ session' = {}
  /\ up' = "serving" /\ call' = Idle
  /\ UNCHANGED <<applied, account, nextId, nick, banned, memory, timer, torn>>

\* The process ends, at any step; what the statements before have written stays.
Crash ==
  /\ up # "off"
  /\ up' = "off" /\ call' = Idle
  /\ client' = {} /\ users' = <<>> /\ pool' = {} /\ timer' = {}
  /\ torn' = (torn \/ call.op = "advance")
  /\ UNCHANGED <<file, tables>>

-----------------------------------------------------------------------------
(* Connections *)

\* A new socket object may lie where an older one was.
Connect(s) ==
  /\ Ready /\ s \notin client
  /\ client' = client \cup {s}
  /\ UNCHANGED <<file, tables, up, users, pool, timer, call, torn>>

\* The peer hangs up, or a command of the console or of a game master disconnects it.
Hangup(s) ==
  /\ Ready /\ s \in client
  /\ SetLive(Disconnected(Live, s))
  /\ UNCHANGED <<file, account, nextId, nick, banned, up, timer, call, torn>>

\* The console command kickall walks m_Users while every disconnection shifts it: slots is
\* the memory of the vector, at the position reached, the last one is that of the beginning.
\* A freed user that is read may end the process (Crash) or end the walk.
KickAt(slots, at) ==
  /\ IF \E k \in DOMAIN users : users[k] = slots[at]
       THEN /\ SetLive(Disconnected(Live, slots[at].sock))
            /\ call' = IF at = Len(slots) THEN Idle
                       ELSE [op |-> "kick", at |-> at + 1,
                             slots |-> users' \o SubSeq(slots, Len(users') + 1, Len(slots))]
       ELSE call' = Idle /\ UNCHANGED <<session, memory>>
  /\ UNCHANGED <<file, account, nextId, nick, banned, up, timer, torn>>

KickAll == Ready /\ users # <<>> /\ KickAt(users, 1)

KickNext == call.op = "kick" /\ KickAt(call.slots, call.at)

-----------------------------------------------------------------------------
(* Registration and login *)

CanRegister(s, name) ==
  /\ IdOf(name) = {}
  /\ Cardinality({id \in DOMAIN account : account[id].address = Address[s]}) < MaxPerAddress

\* The account is inserted under userIDNext; if that row exists the statement fails.
Insert(s, name, local) ==
  IF nextId \in DOMAIN account THEN UNCHANGED <<account, call>>
  ELSE /\ account' = Inserted(account, nextId, [name |-> name, address |-> Address[s]])
       /\ call' = [op |-> "advance", sock |-> s, local |-> local]

\* The command /register of a client that has not logged in.
Register(s, name) ==
  /\ Ready /\ s \in client \cap Player /\ UserAt(s) = {}
  /\ CanRegister(s, name)
  /\ nextId <= MaxId
  /\ Insert(s, name, FALSE)
  /\ UNCHANGED <<file, nextId, nick, session, banned, up, memory, timer, torn>>

\* A second statement advances userIDNext; whether it fails or not, the local client's
\* login goes on.
Advance ==
  /\ call.op = "advance"
  /\ \/ nextId' = nextId + 1 /\ torn' = torn
     \/ DbErrors /\ nextId' = nextId /\ torn' = TRUE
  /\ call' = IF call.local THEN [op |-> "login", sock |-> call.sock] ELSE Idle
  /\ UNCHANGED <<file, account, nick, session, banned, up, memory, timer>>

\* The command /login; a banned account's client is disconnected.
Login(s, name) ==
  /\ Ready /\ s \in client \cap Player /\ UserAt(s) = {}
  /\ IdOf(name) # {}
  /\ IF TheId(name) \in banned THEN SetLive(Disconnected(Live, s))
     ELSE \E m \in LoginResults(s, TheId(name)) : SetLive(m)
  /\ UNCHANGED <<file, account, nextId, nick, banned, up, timer, call, torn>>

\* BootstrapLocalUser logs a client in as the local user, which is registered when the
\* account does not exist, and creates its character when the nickname is free.
BootstrapLocalUser(s) ==
  IF IdOf(LocalName) = {}
    THEN /\ CanRegister(s, LocalName) /\ nextId <= MaxId
         /\ Insert(s, LocalName, TRUE)
         /\ UNCHANGED <<nick, session, memory>>
    ELSE \E m \in LoginResults(s, TheId(LocalName)) :
           /\ SetLive(m)
           /\ IF /\ \E k \in DOMAIN m.users : m.users[k] = [id |-> TheId(LocalName), sock |-> s]
                 /\ TheId(LocalName) \notin DOMAIN nick
                 /\ \A id \in DOMAIN nick : nick[id] # LocalNick
                THEN nick' = Inserted(nick, TheId(LocalName), LocalNick)
                ELSE nick' = nick
           /\ call' = Idle
           /\ UNCHANGED account

\* A connection without a user tells its version: an old client is turned away.  The flag
\* that makes this happen once is not kept, since the login packet does it at any time.
OnVersionPacket(s) ==
  /\ Ready /\ s \in client \cap Player /\ UserAt(s) = {}
  /\ \/ SetLive(Disconnected(Live, s)) /\ UNCHANGED <<account, nick, call>>
     \/ BootstrapLocalUser(s)
  /\ UNCHANGED <<file, nextId, banned, up, timer, torn>>

\* Banned hardware is turned away, whoever has logged in on the connection.
OnLoginPacket(s) ==
  /\ Ready /\ s \in client \cap Player
  /\ \/ SetLive(Disconnected(Live, s)) /\ UNCHANGED <<account, nick, call>>
     \/ UserAt(s) = {} /\ BootstrapLocalUser(s)
  /\ UNCHANGED <<file, nextId, banned, up, timer, torn>>

LoginRegistered ==
  /\ call.op = "login"
  /\ BootstrapLocalUser(call.sock)
  /\ UNCHANGED <<file, nextId, banned, up, timer, torn>>

-----------------------------------------------------------------------------
(* Characters *)

\* Mutant: the nickname is compared with the names of accounts, not of characters.
FreeNickM(n) == n \notin {account[id].name : id \in DOMAIN account}
FreeNick(n) == \A id \in DOMAIN nick : nick[id] # n

\* A user that has a character already fails on the primary key and is disconnected.
CreateCharacter(s, n) ==
  /\ Ready /\ s \in client /\ UserAt(s) # {}
  /\ FreeNick(n)
  /\ IF IdAt(s) \in DOMAIN nick
       THEN SetLive(Disconnected(Live, s)) /\ UNCHANGED nick
       ELSE \/ nick' = Inserted(nick, IdAt(s), n) /\ UNCHANGED <<memory, session>>
            \/ DbErrors /\ SetLive(Disconnected(Live, s)) /\ UNCHANGED nick
  /\ UNCHANGED <<file, account, nextId, banned, up, timer, call, torn>>

\* The nickname changer.
Rename(s, n) ==
  /\ Ready /\ s \in client /\ UserAt(s) # {} /\ IdAt(s) \in DOMAIN nick
  /\ FreeNick(n)
  /\ nick' = [nick EXCEPT ![IdAt(s)] = n]
  /\ UNCHANGED <<file, account, nextId, session, banned, up, memory, timer, call, torn>>

-----------------------------------------------------------------------------
(* Bans *)

\* Mutant: the user is disconnected only when it has a character.
BanM(id) ==
  /\ Ready
  /\ SetLive(IF LoggedIn(id) # {} /\ id \in DOMAIN nick THEN Disconnected(Live, SockOf(id))
                                                         ELSE Live)
  /\ banned' = banned \cup {id}
  /\ UNCHANGED <<file, account, nextId, nick, up, timer, call, torn>>

UpdateUserBan(id, ban) == banned' = IF ban THEN banned \cup {id} ELSE banned \ {id}

\* The command /ban disconnects the user, then stores the ban.
Ban(id) ==
  /\ Ready
  /\ SetLive(IF LoggedIn(id) # {} THEN Disconnected(Live, SockOf(id)) ELSE Live)
  /\ UpdateUserBan(id, TRUE)
  /\ UNCHANGED <<file, account, nextId, nick, up, timer, call, torn>>

Unban(id) ==
  /\ Ready
  /\ UpdateUserBan(id, FALSE)
  /\ UNCHANGED <<file, account, nextId, nick, session, up, memory, timer, call, torn>>

\* The minute tick ends the bans whose term is over.
OnMinuteTick(ended) ==
  /\ Ready
  /\ banned' = banned \ ended
  /\ UNCHANGED <<file, account, nextId, nick, session, up, memory, timer, call, torn>>

-----------------------------------------------------------------------------
(* Dedicated servers *)

\* A host registers: its connection joins the pool once.
AddServer(s) ==
  /\ Ready /\ s \in client \cap Host /\ s \notin pool
  /\ pool' = pool \cup {s}
  /\ UNCHANGED <<file, tables, up, client, users, timer, call, torn>>

\* A host that is ready is logged in as the local user two delays later: the threads that
\* wait keep the pointer of its socket.  A host is taken to report once.
HostReady(s) ==
  /\ Ready /\ HostBootstrap /\ s \in client \cap pool /\ UserAt(s) = {}
  /\ \A t \in timer : t.sock # s
  /\ timer' = timer \cup {[sock |-> s, left |-> 1]}
  /\ UNCHANGED <<file, tables, up, memory, call, torn>>

\* Each delay ends with a test that the pointer is still in the pool.
DelayEnds(t) ==
  /\ Ready /\ t.left > 0
  /\ timer' = (timer \ {t}) \cup (IF t.sock \in pool THEN {[t EXCEPT !.left = @ - 1]} ELSE {})
  /\ UNCHANGED <<file, tables, up, memory, call, torn>>

BootstrapHost(t) ==
  /\ Ready /\ t.left = 0
  /\ timer' = timer \ {t}
  /\ IF t.sock \in pool /\ UserAt(t.sock) = {}
       THEN BootstrapLocalUser(t.sock)
       ELSE UNCHANGED <<account, nick, session, memory, call>>
  /\ UNCHANGED <<file, nextId, banned, up, torn>>

-----------------------------------------------------------------------------
Init ==
  /\ version = FirstVersion
  /\ applied = [i \in 1 .. LastVersion |-> IF i <= FirstVersion THEN 1 ELSE 0]
  /\ account = <<>> /\ nextId = 1 /\ nick = <<>> /\ session = {} /\ banned = {}
  /\ up = "off"
  /\ client = {} /\ users = <<>> /\ pool = {} /\ timer = {}
  /\ call = Idle /\ torn = FALSE

Next ==
  \/ Open \/ Serve \/ Crash
  \/ \E i \in 1 .. LastVersion : Script(i)
  \/ \E s \in Sock : Connect(s) \/ Hangup(s)
  \/ KickAll \/ KickNext
  \/ \E s \in Sock, name \in Name : Register(s, name) \/ Login(s, name)
  \/ Advance \/ LoginRegistered
  \/ \E s \in Sock : OnVersionPacket(s) \/ OnLoginPacket(s)
  \/ \E s \in Sock, n \in Nick : CreateCharacter(s, n) \/ Rename(s, n)
  \/ \E id \in DOMAIN account : Ban(id) \/ Unban(id)
  \/ \E ended \in SUBSET banned : OnMinuteTick(ended)
  \/ \E s \in Sock : AddServer(s) \/ HostReady(s)
  \/ \E t \in timer : DelayEnds(t) \/ BootstrapHost(t)

Spec == Init /\ [][Next]_vars

-----------------------------------------------------------------------------
(* Properties *)

TypeOK ==
  /\ version \in 0 .. LastVersion /\ applied \in [1 .. LastVersion -> Nat]
  /\ DOMAIN account \subseteq 1 .. MaxId /\ nextId \in 1 .. MaxId + 1
  /\ \A id \in DOMAIN account : account[id].name \in Name
  /\ DOMAIN nick \subseteq DOMAIN account /\ \A id \in DOMAIN nick : nick[id] \in Nick
  /\ session \subseteq DOMAIN account /\ banned \subseteq DOMAIN account
  /\ up \in {"off", "upgrading", "serving"}
  /\ client \subseteq Sock /\ Len(users) <= MaxPlayers /\ pool \subseteq Host
  /\ \A t \in timer : t.sock \in Host /\ t.left \in {0, 1}
  /\ call.op \in {"idle", "script", "advance", "login", "kick"} /\ torn \in BOOLEAN

\* The users in memory, the session rows and the connections tell the same story, however
\* accounts move between connections: nobody is online twice, every user has a live
\* connection of its own and its session row.  The refusals LOGIN_USER_ALREADY_LOGGED_IN_*
\* are unreachable because of it.
SessionsAgree ==
  /\ \A k \in DOMAIN users : users[k].sock \in client /\ users[k].id \in session
  /\ \A j, k \in DOMAIN users :
       (users[j].id = users[k].id \/ users[j].sock = users[k].sock) => j = k

\* A session opened for a login that was then refused, or left by whatever ended a user,
\* locks nobody out: as long as there is room, every account could log in on every
\* connection that has no user.
LoginSucceeds ==
  up = "serving" /\ Len(users) < MaxPlayers =>
    \A id \in DOMAIN account \ banned : \A s \in client :
      UserAt(s) = {} => LET m == UserAdded(Live, s, id) IN
                        \E k \in DOMAIN m.users : m.users[k] = [id |-> id, sock |-> s]

\* The server never works on tables that miss an upgrade or got one twice, wherever the
\* process died in the upgrades before.
SchemaComplete == up = "serving" => \A i \in 1 .. LastVersion : applied[i] = 1

\* Registrations do not end up in the row of another account: the next ID is above all,
\* but for an insertion whose second statement was lost, and names and nicknames are unique.
IdentitiesUnique ==
  /\ ~torn /\ call.op # "advance" => \A id \in DOMAIN account : id < nextId
  /\ \A i, j \in DOMAIN account : account[i].name = account[j].name => i = j
  /\ \A i, j \in DOMAIN nick : nick[i] = nick[j] => i = j

\* A banned account is not online, whatever logs in while bans come and go.
BannedStayOut == \A k \in DOMAIN users : users[k].id \notin banned

\* "clean up user/dedicated server" (serverinstance.cpp:191): no server of the pool has a
\* socket that was closed.
PoolIsConnected == pool \subseteq client

\* "Kick all users" (servercommands.h:558): the command leaves no user.
AllKicked == [][(KickAll \/ KickNext) /\ call' = Idle => users' = <<>>]_vars

=============================================================================
