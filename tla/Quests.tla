-------------------------------- MODULE Quests --------------------------------
(***************************************************************************)
(* Event quests: the progress of every user in every task, as stored in    *)
(* the user database and as counted in a running match; the rewards and    *)
(* the experience a finished task gives, which may finish further tasks;   *)
(* and the daily and weekly resets.  Everything runs on one thread, but a  *)
(* handler writes to the database many times, and counting one event may   *)
(* start counting another: "todo" is what the running handler still has to *)
(* do, innermost call first, and a crash drops it.                         *)
(***************************************************************************)
EXTENDS Integers, Sequences, FiniteSets, SequencesExt, Subsequence

CONSTANTS
  User,
  Task,          \* tasks of the active quests, in one sequence
  QuestID,       \* task -> ID of its quest
  Goal,          \* task -> units that finish it
  Conditions,    \* the conditions of all tasks, in the order of the tasks
  RewardExp,     \* task -> experience among its reward, 0 for none
  Event,         \* what a host reports of a match, "kill" among it
  How,           \* the ways of a kill: weapon, teams, kind of kill and of victim
  Mode,          \* game modes
  MatchExp,      \* experience a match may give
  ExpToLvlUp,    \* the level table
  MaxExp,
  UpdatesFail    \* may an UPDATE fail

ASSUME UserAssumption == IsFiniteSet(User)
ASSUME TaskAssumption ==
  /\ Task \in Seq(STRING)
  /\ \A t \in Range(Task) : Goal[t] \in Nat \ {0} /\ QuestID[t] \in Nat /\ RewardExp[t] \in Nat
ASSUME ConditionAssumption ==
  /\ Conditions \in Seq([task : Range(Task), event : STRING, modes : SUBSET Mode,
                         points : Nat, streak : Nat, how : SUBSET How])
  /\ "kill" \in Event /\ Event \cap {"login", "levelup"} = {}
  /\ How # {}
ASSUME LevelAssumption ==
  ExpToLvlUp \in Seq(Nat) /\ MaxExp \in Nat /\ MatchExp \subseteq Nat

VARIABLES
  row,      \* UserQuestEventTaskProgress: user and task -> units and finished
  char,     \* UserCharacter: user -> experience and level, NoChar before it is created
  due,      \* resets whose time in TimeConfig has come
  online,   \* users logged in
  match,    \* user -> mode of the match that has a statistic of the user
  temp,     \* user -> task -> progress counted in the match: m_TempQuestEventProgress
  todo,     \* what the running handler still has to do
  paid,     \* history: rewards given for a task since its last reset
  counted   \* history: points of the events counted since, unless a write was lost

tables == <<row, char, due>>
memory == <<online, match, temp, todo>>
questVars == <<tables, memory, paid, counted>>

Tasks == Range(Task)
NoMatch == "none"
NoTemp == [t \in {} |-> 0]
NoChar == [exp |-> -1, level |-> 0]
NoProgress == [units |-> 0, finished |-> FALSE]
Ready == todo = <<>>
First == Head(todo)
Least(a, b) == IF a < b THEN a ELSE b

\* The code's bounds of the quest IDs that a day or a week resets.
Covers(period, t) == IF period = "day" THEN QuestID[t] > 2000 /\ QuestID[t] < 4000
                                       ELSE QuestID[t] > 4000 /\ QuestID[t] < 6000

\* CheckForLvlUp
LevelOf(exp) == 1 + Cardinality({k \in DOMAIN ExpToLvlUp : exp >= ExpToLvlUp[k]})

-----------------------------------------------------------------------------
(* Progress of a task *)

\* GetQuestEventTaskProgress: a task that never counted has no row, which reads as zero.
Progress(u, t) == row[u][t]

\* Mutant: events go on counting when the goal is reached.
OpenM(u, t) == TRUE

\* Event_Internal: a task counts events until its stored progress has reached the goal.
Open(u, t) == Progress(u, t).units < Goal[t]

\* An UPDATE or INSERT of a progress; when it fails the points it carries are lost.
Stored(u, t, progress) ==
  /\ row' = [row EXCEPT ![u][t] = progress]
  /\ UNCHANGED counted
NotStored(u, t) ==
  /\ UpdatesFail
  /\ counted' = [counted EXCEPT ![u][t] = Least(@, row[u][t].units)]
  /\ UNCHANGED row

\* IncrementCount.  A count without force replaces the units, and 0 adds one.
Counted(u, t, count, force) ==
  LET units == IF count = 0 THEN Progress(u, t).units + 1
               ELSE IF force THEN Progress(u, t).units + count ELSE count
  IN IF units >= Goal[t] THEN [units |-> Goal[t], finished |-> TRUE]
                         ELSE [Progress(u, t) EXCEPT !.units = units]

Rest == Tail(todo)
Reward(u, t) == [do |-> "reward", user |-> u, task |-> t]

\* The increment is stored, and a task that reached its goal is rewarded next.
Increment(u, t, count, force) ==
  \/ LET progress == Counted(u, t, count, force) IN
     /\ Stored(u, t, progress)
     /\ todo' = (IF progress.units >= Goal[t] THEN <<Reward(u, t)>> ELSE <<>>) \o Rest
  \/ NotStored(u, t) /\ todo' = Rest

\* The copy of the progress that the match counts on, read when it is first needed.
Temp(u, t) == IF t \in DOMAIN temp[u] THEN temp[u][t]
              ELSE [units |-> Progress(u, t).units, finished |-> Progress(u, t).finished,
                    streak |-> 0]
SetTemp(u, t, progress) ==
  temp' = [temp EXCEPT ![u] = [k \in DOMAIN @ \cup {t} |-> IF k = t THEN progress ELSE @[k]]]

\* IncrementTempCount: the database hears of it only when the goal is reached.  Units
\* beyond the goal are alike.  A kill that completes a streak starts another.
IncrementTemp(u, t, c) ==
  LET units == Least(Temp(u, t).units + c.points, Goal[t])
      streak == IF c.event = "kill" /\ c.streak > 0 THEN 0 ELSE Temp(u, t).streak IN
  /\ SetTemp(u, t, [Temp(u, t) EXCEPT !.units = units, !.streak = streak])
  /\ IF units = Goal[t] THEN Increment(u, t, Goal[t], TRUE)
     ELSE /\ counted' = [counted EXCEPT ![u][t] = Least(@ + c.points, Goal[t])]
          /\ todo' = Rest /\ UNCHANGED row

-----------------------------------------------------------------------------
(* One condition of one task sees an event of a match *)

Cond == Conditions[First.cond]

\* Event_Internal of a match condition: open, and in one of the modes asked for, if any.
Applies(u, t, c) == Open(u, t) /\ (c.modes = {} \/ match[u] \in c.modes)

\* A kill of another kind ends a streak.
WrongKill(u, t, c) ==
  /\ IF c.streak > 0 THEN SetTemp(u, t, [Temp(u, t) EXCEPT !.streak = 0]) ELSE UNCHANGED temp
  /\ todo' = Rest
  /\ UNCHANGED <<row, counted>>

\* A kill that only lengthens the streak the condition asks for.
LongerStreak(u, t, c) ==
  /\ SetTemp(u, t, [Temp(u, t) EXCEPT !.streak = @ + 1])
  /\ todo' = Rest
  /\ UNCHANGED <<row, counted>>

OnMatchCondition ==
  /\ ~Ready /\ First.do = "event"
  /\ LET u == First.user  t == Cond.task  c == Cond IN
     IF ~Applies(u, t, c) THEN todo' = Rest /\ UNCHANGED <<row, temp, counted>>
     ELSE IF c.event = "kill" /\ First.how \notin c.how THEN WrongKill(u, t, c)
     ELSE IF c.event = "kill" /\ c.streak > Temp(u, t).streak THEN LongerStreak(u, t, c)
     ELSE IncrementTemp(u, t, c)
  /\ UNCHANGED <<char, due, online, match, paid>>

\* A login or a level-up counts in the database at once.
OnUserCondition ==
  /\ ~Ready /\ First.do \in {"login", "levelup"}
  /\ LET u == First.user  t == First.task IN
     IF Open(u, t) THEN Increment(u, t, First.count, FALSE)
     ELSE todo' = Rest /\ UNCHANGED <<row, counted>>
  /\ UNCHANGED <<char, due, online, match, temp, paid>>

\* The places of the conditions that wait for an event, in their order: one sequence.
Waiting(event) == Ascending({k \in DOMAIN Conditions : Conditions[k].event = event})

\* The calls an event makes, one for each condition that waits for it: one sequence.
Notify(u, event, how) ==
  {[k \in DOMAIN w |-> [do |-> "event", user |-> u, cond |-> w[k], how |-> how]] :
     w \in Waiting(event)}
NotifyUser(u, event, count) ==
  {[k \in DOMAIN w |-> [do |-> event, user |-> u, task |-> Conditions[w[k]].task, count |-> count]] :
     w \in Waiting(event)}

-----------------------------------------------------------------------------
(* Rewards and experience *)

\* OnQuestEventTaskFinished: the reward of the task.  That every task of the quest is
\* finished is noted in a local variable only.
GiveReward ==
  /\ ~Ready /\ First.do = "reward"
  /\ paid' = [paid EXCEPT ![First.user][First.task] = Least(@ + 1, 2)]
  /\ todo' = (IF RewardExp[First.task] = 0 THEN <<>>
              ELSE <<[do |-> "exp", user |-> First.user, exp |-> RewardExp[First.task]]>>) \o Rest
  /\ UNCHANGED <<tables, online, match, temp, counted>>

\* UpdateExp: a new level is announced to the level-up tasks before the character is
\* stored, so that the experience of their rewards is computed from the old character.
UpdateExp ==
  /\ ~Ready /\ First.do = "exp"
  /\ LET u == First.user
         old == char[u]
         exp == Least(old.exp + First.exp, MaxExp)
         level == IF LevelOf(exp) > old.level THEN LevelOf(exp) ELSE old.level
         announced == IF level = old.level THEN {<<>>}
                      ELSE NotifyUser(u, "levelup", level - old.level)
         store == [do |-> "store", user |-> u, char |-> [exp |-> exp, level |-> level]]
     IN IF old.exp >= MaxExp THEN todo' = Rest
        ELSE \E announce \in announced : todo' = announce \o <<store>> \o Rest
  /\ UNCHANGED <<tables, online, match, temp, paid, counted>>

UpdateCharacter ==
  /\ ~Ready /\ First.do = "store"
  /\ \/ char' = [char EXCEPT ![First.user] = First.char]
     \/ UpdatesFail /\ UNCHANGED char
  /\ todo' = Rest
  /\ UNCHANGED <<row, due, online, match, temp, paid, counted>>

-----------------------------------------------------------------------------
(* Users and matches *)

\* OnUserLogin, which every packet that goes on with the login of a user calls again.
OnUserLogin(u) ==
  /\ Ready
  /\ online' = online \cup {u}
  /\ IF char[u] = NoChar THEN todo' = <<>> ELSE todo' \in NotifyUser(u, "login", 0)
  /\ UNCHANGED <<tables, match, temp, paid, counted>>

\* The first level is announced when the character is stored, and the login goes on.
CreateCharacter(u) ==
  /\ Ready /\ u \in online /\ char[u] = NoChar
  /\ char' = [char EXCEPT ![u] = [exp |-> 0, level |-> 1]]
  /\ \E levelup \in NotifyUser(u, "levelup", 0), login \in NotifyUser(u, "login", 0) :
       todo' = levelup \o login
  /\ UNCHANGED <<row, due, online, match, temp, paid, counted>>

\* CGameMatch::Connect
Connect(u, mode) ==
  /\ Ready /\ u \in online /\ char[u] # NoChar /\ match[u] = NoMatch
  /\ match' = [match EXCEPT ![u] = mode]
  /\ UNCHANGED <<tables, online, temp, todo, paid, counted>>

\* The host reports something the user did in the match.
OnMatchEvent(u, event, how) ==
  /\ Ready /\ match[u] # NoMatch
  /\ todo' \in Notify(u, event, how)
  /\ UNCHANGED <<tables, online, match, temp, paid, counted>>

\* Some of the tasks that the match counted are written back, one after another.
WrittenBack(u, tasks) ==
  {[k \in DOMAIN c |-> [do |-> "apply", user |-> u, task |-> c[k],
                        progress |-> [units |-> temp[u][c[k]].units,
                                      finished |-> temp[u][c[k]].finished]]] :
     c \in Rests(Task, {k \in DOMAIN Task : Task[k] \in tasks})}

\* Mutant: only a finished task is written back.
LeaveM(u) == WrittenBack(u, {t \in DOMAIN temp[u] : temp[u][t].finished})

\* What the match counted is written back, but for finished tasks.
Leave(u) == WrittenBack(u, {t \in DOMAIN temp[u] : ~temp[u][t].finished})

\* OnGameMatchLeave, and the end of the statistic of the user.
LeaveMatch ==
  /\ ~Ready /\ First.do = "leave"
  /\ \E applied \in Leave(First.user) : todo' = applied \o Rest
  /\ match' = [match EXCEPT ![First.user] = NoMatch]
  /\ temp' = [temp EXCEPT ![First.user] = NoTemp]
  /\ UNCHANGED <<tables, online, paid, counted>>

ApplyProgress ==
  /\ ~Ready /\ First.do = "apply"
  /\ \/ Stored(First.user, First.task, First.progress)
     \/ NotStored(First.user, First.task)
  /\ todo' = Rest
  /\ UNCHANGED <<char, due, online, match, temp, paid>>

\* CGameMatch::Disconnect: a user leaves the room, and may leave the server as well.
Disconnect(u) ==
  /\ Ready /\ u \in online
  /\ match[u] # NoMatch
  /\ todo' = <<[do |-> "leave", user |-> u]>>
  /\ online' \in {online, online \ {u}}
  /\ UNCHANGED <<tables, match, temp, paid, counted>>

Logout(u) ==
  /\ Ready /\ u \in online /\ match[u] = NoMatch
  /\ online' = online \ {u}
  /\ UNCHANGED <<tables, match, temp, todo, paid, counted>>

\* EndGame: everyone in the match is given experience, best score first, then the
\* match is deleted and what it counted is written back.
EndGame(mode) ==
  /\ Ready
  /\ LET users == {u \in User : match[u] = mode} IN
     /\ users # {}
     /\ \E order \in SetToSeqs(users), exp \in [users -> MatchExp] :
          todo' = [k \in DOMAIN order |->
                     [do |-> "exp", user |-> order[k], exp |-> exp[order[k]]]]
                  \o [k \in DOMAIN order |-> [do |-> "leave", user |-> order[k]]]
  /\ UNCHANGED <<tables, online, match, temp, paid, counted>>

-----------------------------------------------------------------------------
(* Daily and weekly resets, and the process *)

TimeComes(period) ==
  /\ due' = due \cup {period}
  /\ UNCHANGED <<row, char, memory, paid, counted>>

\* OnMinuteTick: the next time of a reset is stored before the reset is done.
OnMinuteTick ==
  /\ Ready /\ due # {}
  /\ LET Renewal(period) ==
           IF period \in due
           THEN <<[do |-> "next", period |-> period], [do |-> "reset", period |-> period]>> ELSE <<>>
     IN todo' = Renewal("day") \o Renewal("week")
  /\ UNCHANGED <<tables, online, match, temp, paid, counted>>

NextResetTime ==
  /\ ~Ready /\ First.do = "next"
  /\ \/ due' = due \ {First.period} /\ todo' = Rest
     \/ UpdatesFail /\ todo' = <<>> /\ UNCHANGED due
  /\ UNCHANGED <<row, char, online, match, temp, paid, counted>>

\* OnDayTick and OnWeekTick; they catch the error of a failing DELETE themselves.
Reset ==
  /\ ~Ready /\ First.do = "reset"
  /\ LET Clear(f, value) ==
           [u \in User |-> [t \in Tasks |-> IF Covers(First.period, t) THEN value ELSE f[u][t]]]
     IN \/ row' = Clear(row, NoProgress) /\ paid' = Clear(paid, 0) /\ counted' = Clear(counted, 0)
        \/ UpdatesFail /\ UNCHANGED <<row, paid, counted>>
  /\ todo' = Rest
  /\ UNCHANGED <<char, due, online, match, temp>>

\* The process ends and is started again: what was not stored is gone.
Restart ==
  /\ online' = {} /\ todo' = <<>>
  /\ match' = [u \in User |-> NoMatch] /\ temp' = [u \in User |-> NoTemp]
  /\ counted' = [u \in User |-> [t \in Tasks |-> Least(counted[u][t], row[u][t].units)]]
  /\ UNCHANGED <<tables, paid>>

QuestInit ==
  /\ row = [u \in User |-> [t \in Tasks |-> NoProgress]]
  /\ char = [u \in User |-> NoChar]
  /\ due = {"day", "week"}
  /\ online = {}
  /\ match = [u \in User |-> NoMatch]
  /\ temp = [u \in User |-> NoTemp]
  /\ todo = <<>>
  /\ paid = [u \in User |-> [t \in Tasks |-> 0]]
  /\ counted = [u \in User |-> [t \in Tasks |-> 0]]

Handle == \/ OnMatchCondition \/ OnUserCondition \/ GiveReward \/ UpdateExp \/ UpdateCharacter
          \/ LeaveMatch \/ ApplyProgress \/ NextResetTime \/ Reset

UserNext(u) ==
  \/ OnUserLogin(u) \/ CreateCharacter(u) \/ Disconnect(u) \/ Logout(u)
  \/ \E mode \in Mode : Connect(u, mode)
  \/ \E how \in How : OnMatchEvent(u, "kill", how)
  \/ \E event \in Event \ {"kill"} : OnMatchEvent(u, event, CHOOSE how \in How : TRUE)

QuestNext ==
  \/ Handle
  \/ \E u \in User : UserNext(u)
  \/ \E mode \in Mode : EndGame(mode)
  \/ \E period \in {"day", "week"} : TimeComes(period)
  \/ OnMinuteTick
  \/ Restart

QuestSpec == QuestInit /\ [][QuestNext]_questVars

-----------------------------------------------------------------------------
(* Properties *)

\* What the variables hold: a stored or counted progress is a known task's, nothing is
\* counted for a user who is in no match, and no stored progress passes its goal.
TypeOK ==
  /\ row \in [User -> [Tasks -> [units : Nat, finished : BOOLEAN]]]
  /\ \A u \in User, t \in Tasks : row[u][t].units <= Goal[t]
  /\ char \in [User -> {NoChar} \cup [exp : 0 .. MaxExp, level : 1 .. Len(ExpToLvlUp) + 1]]
  /\ due \subseteq {"day", "week"}
  /\ online \subseteq User
  /\ match \in [User -> Mode \cup {NoMatch}]
  /\ \A u \in User : DOMAIN temp[u] \subseteq Tasks /\ (match[u] = NoMatch => temp[u] = NoTemp)
  /\ paid \in [User -> [Tasks -> 0 .. 2]] /\ counted \in [User -> [Tasks -> Nat]]

MatchOnly(t) == \A c \in Range(Conditions) : c.task = t => c.event \in Event
UserOnly(t) == \A c \in Range(Conditions) : c.task = t => c.event \notin Event

\* A task is rewarded at most once between two of its resets, whatever the matches left
\* and entered again, the writes that fail and the restarts (CQuestEventTask::Done rewards
\* every time it is called; only the stored units stop it from being called).  It takes a
\* task of one kind: what a match leaves behind takes the units of logins back.
RewardOnce == \A u \in User, t \in Tasks : MatchOnly(t) \/ UserOnly(t) => paid[u][t] <= 1

\* When a handler is done and the user is in no match, every point a task has counted
\* since its last reset is in the database, or the task is at its goal, whichever way the
\* match ended: what OnGameMatchLeave writes back replaces what is stored.
NothingLost ==
  Ready => \A u \in User : match[u] = NoMatch =>
    \A t \in Tasks : MatchOnly(t) => row[u][t].units >= counted[u][t]

\* The rewards of level-up tasks may raise the level again, from within the announcement
\* of the last level, and the old level is what they start from: each such task makes
\* UpdateExp enter itself once at most, so that the recursion ends.
NestingBounded ==
  \A u \in User :
    Cardinality({k \in DOMAIN todo : todo[k].do = "store" /\ todo[k].user = u})
      <= 1 + Cardinality({t \in Tasks : RewardExp[t] > 0 /\
                            \E c \in Range(Conditions) : c.task = t /\ c.event = "levelup"})

\* A finished task stays finished until its reset: "skip finished tasks", says
\* CQuestEvent::ApplyProgress of the progress a match leaves behind.
FinishedStays ==
  [][(Ready \/ First.do # "reset") =>
       \A u \in User, t \in Tasks : row[u][t].finished => row'[u][t].finished]_questVars
=============================================================================
