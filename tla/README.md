# A verification development of the CSNZ master server

The master server is a C++ program (`src/src/`): game clients and dedicated game
servers connect over TCP, log in, gather in a channel, open rooms and play matches;
UDP carries hole punching. This directory holds TLA+ modules of its core, the TLC
configurations that check them, and TLAPS proofs about them.

    tlc -config MCLobby_dedicated.cfg MCLobby      # any run of PROJECT.json
    tlapm LobbyProofs.tla                          # any proof module

`PROJECT.json` maps every definition to the source lines it stands for, and lists the
runs, the mutant that each property catches, findings, hazards and theorems. Paths
below are relative to `src/src/`.

## 1. The system

### Threads and locking

| thread | code | what it does |
|---|---|---|
| listen | `net/tcpserver.cpp` `Listen` | polls sockets without a lock; then, inside `g_ServerCriticalSection`, accepts, reads, sends, disconnects |
| event | `serverinstance.cpp` `EventThread`, `OnEvent` | waits for a signal, takes events one at a time, runs each handler inside the critical section |
| udp | `net/udpserver.cpp` | receives datagrams, looks users up inside the critical section |
| console | `serverinstance.cpp` `ReadConsoleThread` | queues commands |
| main | `main.cpp` | a tick per second, then the orderly shutdown |
| GUI, close handler | `main.cpp` | may end the server at any time |

Every change of users, rooms and servers happens inside one critical section, so a
handler is atomic. What is concurrent is everything around it: the poll, the queue, the
wake-up of the event thread, disconnections from two threads, and the shutdown.

### Components

| component | state | operations | what makes it correct | module |
|---|---|---|---|---|
| event queue (`event.h`) | list of events, signal | add, take, remove a socket's events | order kept, nothing lost, no event of a deleted socket, no lost wake-up | `EventQueue` |
| server instance, main | active flag, threads | start, tick, commands, shutdown | shutdown in an order in which nobody uses what is destroyed, and which ends | `EventQueue` |
| TCP server | poll array, clients | accept, pass over the poll results, disconnect | array and clients agree; each client is served and dropped for a reason | `TcpServer`, `EventQueue` |
| packet stream (`extendedsocket`) | partial message, send queue, sequence, ciphers | read, send | a stream cut anywhere gives the packets that were sent | `TcpServer` |
| UDP server | socket | receive | locked access to users | `EventQueue` (locking) |
| users and sessions | users by socket and ID, channel, room | register, log in, log out, kick, ban | one account, one connection, one session row; nobody locked out, nobody banned online | `Accounts`, `Lobby` |
| channels | users, rooms | join, leave, list | users of the channel and users' channel agree | `Lobby` |
| rooms | users, host, ready status, kick list, server, match | create, join, leave, kick, ready, start, end, host change | one place per user, a host who is there, flags and match agree | `Lobby`, `RoomContract` |
| room settings, family battles | a block of a hundred settings, two clans, sides | create, change, start, join | settings fit the mode, two clans and no third, a side for each | `RoomSettings` |
| matches | statistics with user pointers | connect, disconnect, end, kills | pointers are users of the room; progress, experience, items and letters arrive once | `Lobby`, `Quests`, `MiniGames` |
| host manager | none | reports of hosts and servers | reports act on the right room | `Lobby`, `Quests` |
| dedicated servers | pool, room of each server, delayed bootstraps | register, assign, release, lose | server and room agree | `Lobby`, `Accounts` |
| items, shop, rewards, boxes | `UserInventory`, costume and nameplate, points, reward notices | buy, reward, use, wear, extend, expire, give | a slot is one row, what is owned for good stays, the limit holds, no reward is lost | `Inventory` |
| enhancement, paints, parts | the same rows: level, experience, attributes, paint, parts | enhance, clean, paint, fit | attributes within the table, the draw ends, nothing multiplied | `Enhancement` |
| mini games | letters, words, gachapon counter, bingo desk | kill, place a letter, lay out a desk | letters spent once, a weapon once, a desk whole | `MiniGames` |
| quests | task progress in the database and in the match | events, rewards, resets | each reward once between resets, no progress lost | `Quests` |
| clans | clan and member rows, requests, invitations, storage | found, join, approve, leave, kick, grade, store, lend | the member count, the members' characters and the rows agree; lending multiplies nothing | `Clans` |
| user database | SQLite tables | open and upgrade, and the statements of all of the above | a crash between two statements leaves what the next start can work on | `Accounts`, `Inventory`, `Quests`, `Clans`, `MiniGames` |
| packet manager, ranking, voxel, configuration, logger, GUI | none of the protocol | serialise, answer, read files, draw | | not modelled |

Interactions: the listen thread reads a packet and queues an event; the event thread runs
`CServerInstance::OnPackets`, which dispatches to a manager; managers call each other's
global objects, `CRoom`, `CGameMatch` and `CUser` directly; any of them may call
`DisconnectClient`, which synchronously removes the user (out of room, match and channel)
or the dedicated server, and the queued events of that socket. Managers call the user
database, whose calls are one or several SQL statements each, rarely in a transaction.

### What is hard

*In memory.* Facts are kept twice, as plain pointers (user and room, room and server, match
and users, poll array and clients); a disconnection may come between any two packets and
runs through all of them; `EndGame` is called from five places, some in the middle of
another operation; the ready status and the in-game flag of a user move separately; poll
results are used after the array they index has changed; a popped event is no longer
protected from the removal of its socket; threads are joined, woken and terminated in a
fixed order.

*In the database.* A handler reads rows, computes, and writes them with several statements
whose results are often ignored. The process may end between any two of them, a statement
may fail, and the next handler works on what is left. The same fact is in several tables or
in a table and in memory: the next free ID and the rows that have IDs, the number of
members and the member rows, the clan a character names, the level of a weapon and its
attributes, the session row and the user, the progress of a match and the stored one.

`PROJECT.json` lists these hazards at their lines with the properties that cover them, or
the reason why none does.

## 2. The modules

### 2.1 `Lobby`

Users, the channel, rooms, matches and dedicated servers. One action is one handler with
everything it calls: `OnLeaveRoomRequest` is the request, `CRoom::RemoveUser`, the match's
`Disconnect`, `UpdateHost`, perhaps `EndGame` and the release of the server. A room is a
record (`RoomState`); methods of `CRoom` are operators from a record to a record
(`AddUser`, `RemoveUser`, `UpdateHost`, `NewHost`, `StartMatch`, `EndGame`), and
`SetRoom`, `Release` and `LeaveCurrentRoom` write the result back with the pointers
held elsewhere (`current`, `serving`).

| variables | code |
|---|---|
| `loggedIn`, `inChannel`, `lobby` | `CUserManager::m_Users`, `CUser::m_pCurrentChannel`, `CChannel::m_Users` |
| `current`, `rooms` | `CUser::m_pCurrentRoom`, the `CRoom`, `CRoomUser`, `CGameMatch` objects |
| `pool`, `serving` | `CDedicatedServerManager::m_vServerPools`, `CDedicatedServer::m_pRoom` |

Abstracted: a room number is a room object; of a hundred settings only the status, the
capacity, the map and its playlist are kept, with their validation; passwords and other
refusals that read only what is left out are refusals that may come at any time, which is
a step not taken. Teams, family battles (rooms of two clans), chat and in-game commands,
scores and rewards are left out. `/addgroom`, a debug command in chat, is left out.

`RoomContract` is what the lobby promises about rooms: where each user is, who owns a
room, whether a match runs. `Lobby` implements it under `where <- current`,
`owner <- host`, `running <- match` (`ImplementsContract`).

### 2.2 `EventQueue`

The six threads as program counters, `CEvents`, its signal, the critical section and the
two builds: on Windows a thread is terminated alone, with POSIX threads
`CThread::Terminate` kills the process (`common/thread.cpp:99`). A step is a stretch of
code under one lock. `mutex` is the `m_Mutex` of `CEvents`: the calls that take and release it within
one step leave it free, but the console thread may be terminated inside `AddEvent`, so its
command is two steps, `ReadCommand`, which takes the mutex, and `AddCommand`; what
`TerminateThread` leaves behind is `MutexAbandoned`, and every other call of `CEvents` waits for
`MutexFree`. A handler may disconnect clients and may shut the server down. The queue
without a socket's events is given by `Rests` of module `Subsequence`: the entries at the positions that
are kept, in their order.
`running` is the popped event, `received` and `executed` count the packets of each client.

### 2.3 `TcpServer`

`CTCPServer::Listen` and the streams it serves: `StartPoll` and `PollReturns` without the
lock, a pass as one step per client and stage (read, write, drop) with its restarts,
`Accept`, `DisconnectClient` from the pass and from handlers, and per client the partial
message, the send queue and the packet that has been deleted but not removed from it; a client
in `Faulty` ends with a packet that `Read` rejects. A packet is `Header` units
and `Body` units, and units arrive one by one, or whole packets at a time
(`WholePackets`). The network may deliver, close and reset during a pass.

Accepted sockets are non-blocking in the model, as on Windows, where they inherit the mode
of the listening socket. Elsewhere `tcpserver.cpp:98-100` leaves them blocking: a read that fails
in the model then waits inside the critical section, and every client with it. Packets
without a body, packets over the size limit, partial sends, ciphers and TLS are left out. A poll
always reports a writable client, so with a client connected it returns at once, as in the
code.

### 2.4 `RoomSettings`

One room seen from its settings: what a host sends, what `roomsettings.cpp` leaves of it, and
the family battle, a match of two clans. Settings are a function from fields to values, a
block is a function on the fields its flags name, and clearing a flag takes the field out of
the domain; `LoadNewSettings`, `CheckNewSettings`, `CheckSettings` and
`LoadDefaultSettings` are operators from blocks to blocks, in the order of the code. The
tables of modes and maps are constants, the lists of modes that the code spells out are in the module.

| variables | code |
|---|---|
| `settings`, `host`, `users`, `kicked`, `match` | `CRoom::m_pSettings`, `m_pHostUser`, `m_Users`, `m_KickedUsers`, `m_pGameMatch` |
| `team`, `battleUsers` | `CRoomUser::m_Team`, `m_FamilyBattleUsers` |
| `clan` | the clan of each user's character, fixed here; module `Clans` changes it |
| `astray` | history: the ways past the tests of a block that the room has been through (section 4) |

The module has the fields that are validated, and of those a configuration names the ones
it wants (`Rule`, `Limit`). Left out: fields without a rule, bots and their difficulty, item lists,
passwords and names, the compact format of a new room (`LooksLikeCompactNewRoomSettings`),
the commands typed into the chat of a room (`room.cpp:585-736`), which set fields without any
validation, and the option `validateSettings = false`, under which nothing is checked.

### 2.5 `Accounts`

The process, the database file and who is logged in. Opening the file runs the upgrade
scripts one by one (`Open`, `Script`, `Serve`); `Crash` may come at any step. A handler that
closes connections and adds a user is computed on a record of what it changes (`Live`,
`Disconnected`, `SessionOpened`, `UserAdded`), because `LoginUser` first opens a session,
which closes the account's older connection, and only then tests whether the user is refused.
The command `kickall` is two steps, `KickAll` and `KickNext` for each turn of its loop, since
the list it walks shrinks under it; a disconnection takes one place out of a list with `Erase`.
The game master's bans are bounded to one account at a time (`OneBan`).

| variables | code |
|---|---|
| `version`, `applied` | `PRAGMA user_version`, what the scripts did to the tables |
| `account`, `nextId`, `nick`, `session`, `banned` | `User`, `UserDist.userIDNext`, `UserCharacter`, `UserSession`, `UserBan` |
| `client`, `users`, `pool`, `timer` | connections, `CUserManager::m_Users`, the server pool, `ScheduleHostUserBootstrap`'s threads |
| `call` | the handler between two statements that are no transaction |

Socket objects are re-used: a connection that closes and another that opens may have the
same address, which the delayed bootstrap of a host and the pool cannot tell apart.
`RoleAssumption` says that a connection is a game client's or a dedicated server's and never
both: they are different programs, and the bootstrap, which logs a user in on a server's
connection, is a diagnostic behind `CSNZ_DEDI_USER_BOOTSTRAP`. Without it the pool keeps a
closed socket (section 4, `MCAccounts_pool`). A user's
password, settings and survey are left out, and so are the lists of banned addresses
and hardware: they are read when a client connects or logs in and stop nobody who is
online. Two things about them are worth knowing: the local user logs in with an empty
hardware ID, which is what `/hban` of that account bans, and `/unban` lifts the last address only. Of failing
statements those that write are modelled: `Login` ignores the result of `GetUserBan`
(`userdatabase_sqlite.cpp:291`), so if that read fails a banned account gets in, which `BannedStayOut` does not cover.

### 2.6 `Inventory`

The inventory of one user. Each database call is a step, the locals of the running handler
are in `call`, and `saved` holds the tables at the last `BEGIN`, to which a crash goes back.
Rows are in rowid order, because queries take the first that fits: which row is extended,
promoted or re-used is decided by it.

| variables | code |
|---|---|
| `rows`, `next`, `due` | `UserInventory`, `UserDist.nextInventorySlot`, the statement that advances it still to come |
| `worn`, `effect`, `points` | costume of the loadout, nameplate and points of the character |
| `pending`, `stored`, `redeemed` | `UserRewardNotice`; history: what was stored and what was given |
| `torn` | history: a crash or an error separated a new row, of one item or of a batch, from the advance of the slot |

Actions are the shop (`BuyProduct`, `DeliverGood`, `Charge`), rewards (`GiveReward`, the
batch, notices at login), use (tickets, boxes, the extender, terms), wearing, disassembly, the
minute tick, and the commands of a game master, which change the same rows without their tests.

A single item is two steps, `AddInventoryItem` and `AdvanceSlot`. In a batch
`AddInventoryItems` takes the free rows for the first of the list, inserts the others, advances the slot by
their number and then writes the free rows, a statement each; here every row is a step of its
own (`PlaceNew`, `PlaceFree`), which the transaction hides from a crash. Any of them
may fail (`PlaceTears` between the rows and the advance, `PlaceFails`, `StackFails`), and
`AddItems` then commits what there is and returns (`itemmanager.cpp:1318-1324`). A commit may fail
as well and goes back to `BEGIN` (`Restore`), as a crash does; points and the rest of the handler follow all the same.
Dates are
minutes in small numbers; `MaxDays` is the 999 days above which an item becomes
permanent. A new nameplate given to an absent owner, and one that expires in his absence, is
looked up through a null pointer: the step is missing and `Crash` is what is left.

### 2.7 `Enhancement` and `MiniGames`

What a user makes of the items: `Enhance`, `Decrease`, paints, parts and the lock, as in
`CItemManager::OnEnhancementRequest` and its neighbours; `MiniGames` extends it with the
letters that kills bring, the words of the weapon release, the gachapon counter and the
bingo desk, since a complete word puts a weapon into the same rows. Random draws are
choices: `Drawn` is the set of results with which the loop of `rand()` can end, so that an
empty set is a loop that never ends.

The code's details that matter are kept: damage and accuracy are in one order in the table
and in the other in the item (`Swap`); a material is looked up by slot and its count of
the time it was read is written back; the sum of experience is doubled as a whole when a material is the
same weapon; `ENH_ANTI` resets the level and writes the attributes back as they were, and
`ENH_ANIT1GRADE` clears an attribute before it takes it off the level. Opening the
numbers of a bingo desk is commented out in the code.

`count` has the letters the user has a row of, also those whose count has come down to 0. What
`LettersSpent` and `AppliedOnce` compare are sizes of sets of pairs (`Pairs`): one for each letter
of a row, one for each copy of an item, so that nothing has to be summed.

The client names the slot of a letter, and nothing compares it with the length of the word
(`minigamemanager.cpp:391`, `416-421`). A slot past the end shifts by a negative number: in memory
any bit may come of it, in SQL none, so that a letter is taken, no position filled, and the word perhaps opened.
`SetCharacter` offers it as the slot 0, `Bits` is what the shift may give, and `lost` counts the
letters taken that way. Left out is a slot equal to the number of rows of the weapon table
(`weaponSlot`), which reads past the end of it.

### 2.8 `Quests`

Event quests: conditions of tasks see events of a match (`OnMatchCondition`), of the login and of
a new level (`OnUserCondition`); `IncrementTempCount` counts in the match (`IncrementTemp`),
`IncrementCount` in the database (`Increment`); a task at its
goal is rewarded (`GiveReward`), its reward may bring a new level (`UpdateExp`), and the new level is
announced to the tasks before the character is stored (`UpdateCharacter`). `todo` is the call stack of
the running handler, innermost call first; a crash drops it. What is put on it is in the order of the
conditions or of the tasks (`Notify`, `WrittenBack`), given by `Ascending` and `Rests` of module
`Subsequence`. Leaving a match writes back what it counted
(`LeaveMatch`, `Leave`, `ApplyProgress`), and the minute tick resets daily and weekly tasks. `paid` and
`counted` are history. Ordinary quests have no conditions in this version; `OnMatchMinuteTick`,
`OnMatchEndEvent` and `UpdateQuestEventProgress` are never called.

### 2.9 `Clans`

Members, grades, requests, invitations, marks, the join method and the storage. `todo` is
the rest of a handler's statements (`UpdateCount`, `InsertMember`, `UpdateName`,
`DemoteMaster`); when a statement fails or the process ends it is given up, and `torn`
notes the clans and users it was about. `names` is the clan in each user's character,
which the managers write and the clan chat reads. Lent copies last a day; the date of a
stored item overflows, so whether the tick removes it is a choice (`Due`). Chat, notices,
scores and the gate are left out. `MaxClan`, `MaxItems`, `Wealth`, `Method`, `Grade` and `PageGrade` are bounds.

### How the modules meet

`Lobby` is the room without its settings, `RoomSettings` the settings without channels,
ready states and servers; both have `OnUserRemoved` and the host's succession, and
`MCRoomSettings` sees a match as `Lobby` does: it exists or not. `Accounts` ends with a
user who is logged in, `Lobby` starts with one. `Inventory` and `Enhancement` share the rows of
`UserInventory` but none of the columns they write, except that both free a row whose
last copy is used. `EventQueue` justifies the atomic handlers of all of them: one handler at a
time holds the critical section, and the end of the process is the only thing
that comes in between.

## 3. The runs

| run | what it asks | instance | distinct states |
|---|---|---|---|
| `lobby_dedicated` | users, rooms and servers agree; the lobby keeps its contract | 3 users, 2 rooms, 1 server, 2 maps in the playlist and 1 outside | 103,026 |
| `room_settings` | settings fit the mode; a battle has two clans, a side each, the host's clan first | 3 users of 1 to 3 clans, 3 modes, 2 maps, 1 switch, 1 limit; every block, also those past the tests | 112,349 |
| `event_queue` | safety of queue and shutdown, POSIX build | 2 clients, 2 packets each, 1 tick or command | 1,244,284 |
| `event_progress` | liveness of both, Windows build | 1 client, 2 packets, 1 tick or command | 126,055 |
| `tcp_server` | poll array and streams | 2 clients, one sends 2 packets of 1 + 2 units, the other listens only; 1 packet waiting to be sent | 87,145 |
| `accounts` | users, sessions and connections agree; bans, identities, upgrades | 3 clients and 1 dedicated server, 3 names, 2 nicknames, room for 2 players, 2 upgrades, one account banned at a time | 438,708 |
| `inventory_worn` | slots are rows, permanent items stay | costume, nameplate and rifle, room for 2, game master, crashes and failing statements | 962,464 |
| `inventory_stock` | the limit, stored rewards | ticket, box, extender and rifle, room for 3, crashes and failing statements | 1,624,760 |
| `mini_games` | attributes within the table, draws that end, nothing multiplied, letters accounted for, desks whole | 2 weapons, 4 starting inventories of 4 rows, 2 kills, 1 word of 2 letters, 1 letter for a slot past its end | 638,866 |
| `quests` | rewards once, no progress lost | 3 tasks of 1 user: lasting with a streak, daily, weekly | 393,226 |
| `clans` | counts, characters and rows agree; lending | 2 users, 1 clan, 1 item, 1 slot, failing statements and restarts | 1,642,469 |
| `event_deleted` | a comment of the code against the code | 1 client | violated |

Why the bounds are enough.

*Lobby.* Host migration needs a host, a successor who plays and a member who does not, and
a third user to be kicked and to return: three users. The server is contended by two rooms.
A playlist of two maps has a first place and one that is not. Three users also let a battle
have a third clan in front of the door, and two of one clan on a side (`room_settings`, whose
three modes are one that has every kind of field, one without battles, and one with battles
and other defaults). The blocks include those that the tests let through: a win limit with
the end of a battle, a playlist with the competitive map, a refused playlist with a mode. While
the room has a playlist, is `astray`, or has rules that are neither its mode's own nor those
of a battle, the run follows a host who is alone in it and always was (`CONSTRAINT Alone`):
what a block makes of the settings does not depend on who else is there.

*Threads.* In the queue two clients with two packets each give every order of two packets of
one client around one of another; one call is one event that belongs to no socket. In the
TCP server two clients are the least with which the pass restarts in front of somebody and
places in the array shift; a body of two units is the least that arrives in parts; the
second packet follows the first without a gap or is cut in front.

*Accounts.* Three clients let an account move from one connection to another while a third
holds the last place of two; a host's connection makes the fourth, and its user, taken from a
list of three names, is one that clients can register first. Two upgrade scripts have a first that succeeded and a second that has not begun.

*Inventory.* The numbers are small but each threshold is inside: two (three) places fill up
within a batch of two; `MaxDays` is two days, so that two extensions make an item permanent;
the horizon lets a term of one day pass; two tickets are used at once and their reward
contains tickets; two boxes are asked for with one in stock. Both runs stop at a state in which
`torn` holds (`CONSTRAINT Whole`; the state itself is checked): `SlotsUnique`, `PermanentKept` and
`NotOverfull` say nothing of what follows, as rows are found by slot. `RewardsKept` does, and there the theorem covers it.

*Quests and clans.* Goals of two with points of one and two reach, miss and pass the goal;
the reward of the level task brings the next level. One clan of two members has a
master and somebody to be approved, graded, kicked and delegated to; `MCClans_two.cfg` has two clans.

*Mini games.* `Finished` is 3 for 9, so that the attribute above the ninth level is reached in three
steps; the rifle has two ordinary attributes and that one, the pistol has one. A statement fails at most once per behaviour, and the games are played only
with what they bring (`CONSTRAINT Apart`), since they share the rows with the rest but no other state.

Every bound is a constant in a guard (`MaxPackets`, `MaxCalls`, `Packets`, `MaxQueue`,
`Expelled`, `NextMax`, `Horizon`, `MaxUse`, `MaxNotices`, `MaxClan`, `Wealth`, `MaxId`,
`MaxMaterials`, `MaxKills`, `MaxLost`, ...), marked as such where it is declared; `Lobby` and
`RoomSettings` have none, their state spaces are finite. Deadlock is checked except where the
system really may stop: `EventQueue`, after the shutdown, and `MiniGames`, whose materials
run out. Symmetry is used where identities are told apart by their place in lists only, and never
with liveness.

### What the properties say

*Lobby.* `MembershipAgrees`, `HostIsMember`, `StatsAreMembers`: the copies of who is in a
room, who is host and who is in the match agree at all times. `MatchFlagsAgree`: nobody stays in a
match that does not exist. `IndexOnPlaylist`: the index that locks settings and keeps a
server can always come back to its start. `ServersAgree`, `ServerHeld`: room and server
refer to each other, and a server is freed only together with the end of its match.
`ImplementsContract`: every handler is a step of `RoomContract`. Two of these hold under the
configuration `ValidateSettings` only, and say so (`MatchFlagsAgree` in part,
`IndexOnPlaylist`): without it a host may send any status and index.

*RoomSettings.* `RulesFitMode`: what a mode brings fits the mode the room ends up with, but for the two
ways past the tests that `astray` records (section 4); the run reaches both, and without either exception it fails.
`TwoClans`, `HostsClanFirst`: who is let into a battle and whom the host's clan follows.
`SidesStay`: once clans and sides agree, nothing a user does mixes them.

*EventQueue.* `QueuedPacketsLive`, `InOrder`, `NoLostWakeup`, `OrderlyShutdown`,
`PacketsAreHandled`. `ShutdownCompletes`: main reaches its end, but for the two ways out that are the
code's, the killed POSIX process and, with clients connected, the abandoned mutex. *TcpServer.* `PollSetIsClients`, `PacketsArrive`.

*Accounts.* `SessionsAgree`: no account and no connection twice, each user with a live
connection and a session row. `LoginSucceeds`: no leftover locks an account out.
`SchemaComplete`: no server on half-upgraded tables. `IdentitiesUnique`, `BannedStayOut`.

*Inventory.* `SlotsUnique`: two rows never share a slot, as long as a new row and the advance of
the next slot are not separated, which the code does not prevent and `torn` records.
There are three ways to get there: a crash or a failing statement after the row of a single
item, and in a batch an advance, or a later statement of many rows, that fails and is committed.
`PermanentKept`: no path dates or removes what is owned for good. `NotOverfull`,
`RewardsKept`.

*Enhancement, MiniGames.* `WithinTable`, `DrawEnds`, `AppliedOnce`, `DeskComplete`.
`LettersSpent`: every letter is in hand, in one position of one word, or lost to a slot past its end; a full word
is opened, an opened one has taken as many letters as it is long, and its weapon comes at most once.

*Quests.* `RewardOnce`: one reward between two resets for a task of one kind, that is, one that counts in
matches or one that counts logins and levels (section 4 says what a mixed one does). `NothingLost`: outside a match
every point counted is stored, or the write that carried it failed. *Clans.* `CountAgrees`, `MembersKnow`, `ItemsNotDuplicated`, the first two for clans
and users of which no handler was cut short.

### Fairness

`EventQueue`: weak fairness of each thread, as the operating system schedules it, and
strong fairness of entering the critical section, because its mutex is free again and again and threads that
wait for it get it in time; weak fairness of `AddCommand`, as a console thread inside `AddEvent` is scheduled like any
other while it lives. Nothing is assumed of clients, of the input of the console, of the
closer: they may do nothing for ever. `TcpServer`: weak fairness of `Listen`, which
`ListenThread` calls in a loop; whoever holds the lock meanwhile runs for one step. The other
modules have no fairness: users and clients owe nothing. That a handler ends is
then a safety property of its loops where it is not plain: `DrawEnds`.

## 4. Where the code and what is said of it differ

The run `event_deleted` ends in a violation and is the finding of `PROJECT.json`: a popped event
escapes `RemoveEventsBySocket`, so that a handler can get a deleted socket.

The following configurations are not in the list of runs. They show, when run by hand, what
else the code does that a line of it, or common sense, says otherwise:

| configuration | property | what happens |
|---|---|---|
| `MCEventQueue_terminate` | `TerminateIsSafe` | `main.cpp:133` calls terminating the console thread safe: the POSIX build kills itself (`common/thread.cpp:99`), and the Windows build (`Posix = FALSE`) may leave the mutex of the queue with a thread that is no more, at which the shutdown then waits for good; the same may befall the heap's lock, which is not modelled |
| `MCEventQueue_stop` | `ListenerCalledUnderLock` | `CTCPServer::Stop` calls the listener outside the critical section while the UDP thread runs |
| `MCTcpServer_drop` | `DropsAreJustified` | a pass that starts again reads clients twice and disconnects those with nothing more to read |
| `MCTcpServer_free` | `PacketsDeletedOnce` | a packet that cannot be sent is deleted twice |
| `MCAccounts_kickall` | `AllKicked` | `kickall` skips users, or reads a freed one, because the list shrinks under the loop |
| `MCAccounts_pool` | `PoolIsConnected` | a host connection that also logged a user in stays in the pool when it closes |
| `MCInventory_dates` | `NewDatesRun` | a costume bought while another is worn is dated but not in use |
| `MCClans_stored` | `LastingStayStored` | the tick removes stored items that have no date (`userdatabase_sqlite.cpp:4665`) |
| `MCQuests_finished` | `FinishedStays` | progress written back after a match clears the finished flag of a task another path finished |
| `MCRoomSettings_sides` | `SidesSet` | turning a battle on sorts users by the clan the room had before |
| `MCRoomSettings_opponents` | `OpponentsKnown` | the second place of a battle may be empty or reserved for a clan that is not there |
| `MCRoomSettings_map` | `MapFitsMode` | a refused playlist takes the map out of the block but leaves the mode |
| `MCRoomSettings_rules` | `EveryRuleFits` | switches that a change of mode leaves alone do not fit the new one |
| `MCRoomSettings_bombs` | `BombsFit` | fire bombs and the zombie item limit are each tested against the old settings |
| `MCMiniGames_found` (with `-continue`) | `LevelsAgree`, `NoLetterOwed`, `OpenedFull`, `WeaponGiven`, `FullReset`, `LockedKept` | the level of the row and of the attributes part ways; a letter of count 0 is taken instead of the joker; a slot past the end of a word takes a letter, fills nothing and may open it with a position missing; a full inventory swallows the weapon of a word; `ENH_ANTI` leaves the attributes; the lock stops nothing |

`MCClans_two` and `MCLobby_peer` pass: two clans and their marks,
and the default configuration with peers as hosts (`PeerMatchHasHost`).

Further disagreements, seen while modelling and without a configuration: the clients of a
room are sent the block as the host sent it, not what the validation left; a join that is
refused because a battle is running still takes the second place for its clan, and a kicked
clan keeps it; the raw value of a dropped family battle flag still rearranges the
teams; a former member who was offline when kicked can still address the clan's chat;
`TotalMaxLv` counts the attribute above the ninth level once, and its cap (10 to 30) does not fit the four bits it is
packed into; a material named twice in a request counts twice and is used once; cleaning may make
the level of a row negative, and the next enhancement then throws out of the handler.

Two ways past the tests of `roomsettings.cpp` are in the run `room_settings` and are exceptions of `RulesFitMode`.
In the modes 0 and 3 a block that turns the family battle off, or says again that it is, brings any win limit with
it, as `CheckNewSettings` tests the limit only of blocks without that flag (`roomsettings.cpp:2737`): `astray` has `"winLimit"`
until the limit or the mode changes. And the competitive map gets into modes it is not valid in: off
a playlist, by the forced end of a match after the mode has changed, or with a playlist that is refused after the
mode was taken; a block that names it there loads the rules of a zombie match into that mode: `astray` has `"map"` for as long as the room is open.

One more needs the instance changed. A task whose conditions count logins and events of a match can be
rewarded twice: the login that brings it to its goal is taken back when the match ends and writes its older
count over it (`CONSTANT Conditions <- Mixed` and the invariant `EveryRewardOnce` in `MCQuests`, after
a few steps more than a match takes). It is why `RewardOnce` and the theorem about it state what they do.

## 5. The proofs

`tlapm` proves every step of the modules below; nothing is left open or assumed but the
constants' assumptions. A theorem holds for every value of the constants: any users, rooms, items,
lengths, limits and tables, where a run has two or three.

| module | theorem | says |
|---|---|---|
| `LobbyProofs` | `TypeCorrect`, `Invariance` | `TypeOK`; the inductive invariant `Inv` |
| | `MembershipCorrect`, `HostCorrect`, `StatsCorrect` | `MembershipAgrees`, `HostIsMember`, `StatsAreMembers` |
| | `FlagsCorrect`, `IndexCorrect` | `MatchFlagsAgree`, `IndexOnPlaylist` |
| | `PeerMatchHosted` | `PeerMatchHasHost`: who takes over a match plays in it (checked by `MCLobby_peer`) |
| | `ServersCorrect`, `ServersAreHeld` | `ServersAgree`, `ServerHeld` |
| | `ContractImplemented` | `Lobby` implements `RoomContract` |
| `EventQueueProofs` | `MutualExclusion` | whoever is inside the critical section owns it |
| | `ShutdownOrdered` | `OrderlyShutdown` |
| | `QueueIsLive`, `PacketsInOrder`, `WakeupsAreKept` | `QueuedPacketsLive`, `InOrder`, `NoLostWakeup` |
| `TcpServerProofs` | `PollSetCorrect` | `PollSetIsClients` |
| | `StreamsAreExact` | `StreamPosition`: what was sent is what waits, what is being received and what was handed over |
| `AccountsProofs` | `SchemaIsComplete`, `IdentitiesAreUnique` | `SchemaComplete`, `IdentitiesUnique` |
| | `SessionsDoAgree`, `LoginAlwaysSucceeds`, `BannedDoStayOut` | `SessionsAgree`, `LoginSucceeds`, `BannedStayOut` |
| `InventoryProofs` | `SlotsAreUnique`, `NeverOverfull` | `SlotsUnique`, `NotOverfull` |
| | `RewardsAreKept`, `PermanentItemsAreKept` | `RewardsKept`, `PermanentKept` |
| `RewardProofs` | `EnhancedWithinTable`, `DrawingEnds` | `WithinTable`, `DrawEnds` |
| | `DeskInPlayComplete`, `LettersAccounted` | `DeskComplete`, `LettersSpent` |
| | `NothingMultiplied` | the action property `AppliedOnce` |
| | `RewardedOnce`, `PointsAreKept` | `RewardOnce`, `NothingLost` |
| | `QuestInvariant` | the inductive invariant `QuestInv` behind both |
| `ClansProofs` | `CountsDoAgree`, `MembersDoKnow` | `CountAgrees`, `MembersKnow` |
| | `ItemsAreNotDuplicated` | `ItemsNotDuplicated` |
| `RoomSettingsProofs` | `BattlesHaveTwoClans`, `HostsClanIsFirst` | `TwoClans`, `HostsClanFirst` |
| | `SidesStayClans` | the action property `SidesStay` |
| | `RulesAlwaysFit` | `RulesFitMode`, under `TablesFit` |

Every safety property of the runs is a theorem.

### From which assumptions

Each is named in the module that declares the constant, and TLC evaluates it in the runs.
*Lobby*: null values are outside their sets, finitely many accounts, limits are numbers, a
capacity is at least 1, playlists are not empty, the configuration is one of the code's.
*EventQueue*, *TcpServer*: bounds are numbers, threads and events are told apart from their null
values, lengths are positive, a client with an invalid packet sends one.
*Accounts*: the local user has a name that exists, sizes are numbers, the file found has one of the
versions, and `RoleAssumption` (section 2.5). *Inventory*: the limit is a number and "no item" is no
item; nothing is assumed of products, rewards or rows. *Enhancement*: `TableAssumption`, which
says of `ReinforceMaxLv` what makes the loop of `rand()` end and a finished item possible (it is
true of the table in the repository), and the process starts with items that nothing was done
to; places are finitely many, paints and parts are items (`SlotAssumption`, `PaintAssumption`).
*MiniGames*: a word is made of letters and has one at least (`LetterAssumption`). *Quests*: users are
finitely many, tasks and conditions are sequences as the configuration file gives them, with points
and goals that are numbers, match events are none of the server's own (`UserAssumption`, `TaskAssumption`, `ConditionAssumption`,
`LevelAssumption`). *RoomSettings*: no user is the null user, limits and switches are fields the module knows
(`RoomAssumption`, `RuleAssumption`); of modes, maps, tables and what a host sends nothing is assumed,
except by `RulesAlwaysFit`, whose hypothesis `TablesFit` is in its statement: what a mode starts with is allowed
in it, and the competitive map is valid in zombie modes only. It is true of the `GameModeList.csv` and
`MapList.csv` in the repository, whose map 282 is one of the modes 14 and 45, and `MCRoomSettings` evaluates it on the
tables of the run. Of the blocks nothing is assumed.
*Clans*: users and slots are finite, bounds are numbers, grades and methods are those of the code.

### Along which argument

No property is inductive by itself. Each module states the strengthening that is, and why:

*Lobby.* That the new host is a member after a user leaves a match needs that statistics belong to
members, since `NewHost` takes the first of them; that statistics belong to members needs
that whoever reports a match is in its room, that is, that user and room pointers agree;
that they agree when a room empties needs that no user is listed twice, since `Erase`
removes one place. `Inv` is their conjunction: types, well-formed rooms, agreeing pointers, room
within channel within login. Lemmas say what each method of `CRoom` does to a room
(`EndGameFacts`, `RemoveUserFacts`, ...); few facts per action suffice because nearly every
action leaves the members of all rooms alone (`SameMembersStep`), changes one room
(`OneRoomStep`), or is a user's leaving or entering. For the match, `RoomsMove` shows once
that every handler takes a room through one method or leaves it alone (`RoomStep`), and
`MatchOK` is then an invariant of one room: `EndGame` clears the flags of members only, so the
flags must be theirs. Servers need `ServersInv` over all rooms, as pointers go both ways, and
`ServerHeld` falls out of the same case analysis. The refinement maps every action to a
step of `RoomContract` or a stutter; `Inv` says that the users in a room's list are the contract's occupants.

*EventQueue.* `LockOwned` relates program counters and the lock; the queue's mutex matters to liveness only. The shutdown needs the growing set
of threads that main has waited for (`ShutdownInv`). Order in the queue is a statement
about gaps: what is queued of a client is exactly the packets after the last executed, in order;
a disconnection takes all of a client's packets out and leaves the rest as they are
(`DisconnectThins`). It needs that a client not yet accepted has received nothing,
or an accepted connection could find packets it never sent.

*TcpServer.* `PollInv`: the array that `poll` was called with is at least as long as `m_fds`,
because handlers only take places away while it runs; places are told apart by socket.
`StreamInv` keeps the accounts of each stream, and that a packet in reception is
valid from its header on.

`std::remove_if` is `Rests` in module `Subsequence`, the entries at certain positions in
their order, and not `SelectSeq`, whose recursion the provers cannot unfold;
`RestFacts` says what it returns. It is a set with one element, so that no proof has to
show first that positions can be put in order.

*RoomSettings.* The two IDs of a battle are not simply the clans of its users, and `BattleOK` says what they
are: the first is the host's; the second is free while all are of that clan; otherwise
everyone is of one of the two, or, when the host handed over to a user of his own clan, both IDs are
that clan and any one other clan may still be there. It survives whatever a host sends, because
what the validation leaves of a block names the IDs only together with the battle
(`CheckedDecided`, through each operator of `LoadNewSettings`). `RulesFitMode` goes the same way
through the same operators: `RoomFits` adds to it that every rule is there, and `RulesInv` that the competitive map is
played in its modes, unless `astray` says that it strayed. A block with a mode brings every switch and the win limit of that mode (`Filled`, so that nothing of
the old mode is left), one without only what is legal in the mode there is; in the modes 0 and 3 the win limit is
legal only after `WinLimit` (`WinYet`), or came past it (`Escapes`); and what a refused playlist takes out of the block is the map, which is why the map that was tested must
be the map the room gets (`CheckedFits`). `SidesStay` follows from it: of two
clans, who is not of the one is of the other, and so is the side.

*Accounts.* The call in progress completes what the tables lack: while the scripts run it counts
how far they are (`SchemaInv`), between the two statements of a registration the new account has the
next ID itself (`IdInv`). Who is online is a property of the record `Live` which the
helpers transform (`Sound`), so that a login that first closes another connection of the
account is two steps of a lemma; delayed bootstraps and registrations that go on as logins keep a
socket, and `TimerInv` and `CallInv` say that nobody else got a user on it.

*Inventory.* Rows are found by slot, so if two rows shared one, a write could grow the inventory: the
limit rests on the slots (`TableInv`). A crash in a batch, or a commit that fails, brings back what `BEGIN` saved, so the
saved tables must be as good as the current ones, and what is still to be inserted must fit together with
what is there. `NoticeInv`: while notices are given, each is a choice, given, or among those still
to give. `HeldInv`: a handler that uses up an item works on a copy of a row it read earlier; the
copy is of a countable kind and its item is still in its place, which is why what is
removed in the end is not something owned for good.

*Enhancement, MiniGames.* The same copy of a row: `TableInv` demands of the row in a handler's locals what it
demands of the bag. That a draw has an attribute to end with is arithmetic on the table: a level is the sum
of six attributes and one, each below its cap. `DeskInv`: what is stored of a desk
and what is left to store make up the whole desk. `LettersInv`: SetCharacter takes one letter from the hand, or owes one, and puts it into a position or
to those lost, each a pair that comes or goes (`PlaceRow`); a set that one bit completes is short of one position at most (`OneShort`); and a weapon on its way belongs to an open word that has none yet. For `AppliedOnce`,
`BagInv` says that the copies in a handler's locals are those of the bag: of an item about to be applied or a
material about to be used the row is unchanged since it was read, so that writing its count back takes a copy and never brings one. `Potential`,
the copies in the bag and on weapons less the one that is due, then never grows, request by request.

*Quests.* Reward and loss are about what a handler still has to do, so `QuestInv` says which calls may be on the stack together: no
event after a leaving, no write-back of a user who is in a match, one value for two write-backs
of one task (`OneAfterAnother`, `InMatch`), a reward only on top (`RewardIsNext`). For a task of matches the stored units never exceed what the match
or a write-back holds (`OnlyGrows`), so that a write-back never lowers them; what was counted is in the
table, in the match or in a write-back to come (`NothingMissing`); and a reward has been given only if the stored units are at the
goal, where no condition counts any more (`PaidAtGoal`). `QuestInv` was checked by TLC before it was proved.

*Clans.* Between two requests the books are balanced; within one, what is wrong is what the statements
left will put right. `Books` says for each rest of statements what it owes (`Entering`: the
count is one short and the character not named; `Leaving`; ...), and a handler that is cut short leaves its
debt to the clans and users in `torn`.

### What is only model-checked

* Liveness: `PacketsAreHandled`, `ShutdownCompletes`, `PacketsArrive`. Fairness and `ENABLED` are
  out of the provers' reach.
* Some invariants that no run of `PROJECT.json` asks for: `NestingBounded` of `Quests` (a reward enters `UpdateExp` again only as often as
  there are rewarded level-up tasks) and the `TypeOK` of modules whose invariant does not contain it.
* The properties of section 4 that hold of some instances only, and the two configurations that pass, but for `PeerMatchHasHost`.

## 6. What is not modelled, and what is left

Serialisation of packets (`packetmanager.cpp`), configuration and tables, the GUI, ranking and
voxel requests, logging, the TCP client of the tests, third-party code and game data: they keep
no state of the protocol. Time is not measured: a delay is a step that comes later.

Left out of the modules, each named in its section: the opening of bingo numbers (commented out
in the code), the quest events that are never raised, chat and the room commands of a game
master, lists of banned addresses, reload, loadouts of weapons, mileage, TLS, ciphers and partial
writes, and a server with `validateSettings = false` beyond `Lobby`.

Next: a bound on the nesting of `UpdateExp` as a theorem, and the option `validateSettings = false` in `RoomSettings`.
