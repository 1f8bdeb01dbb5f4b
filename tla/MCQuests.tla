------------------------------- MODULE MCQuests -------------------------------
(* Three tasks: kills on a streak and of another kind, for ever; bombs, daily; and the  *)
(* levels and logins of a user, weekly, rewarded with experience for another level.     *)
EXTENDS Quests, TLC

TaskList == <<"kill", "bomb", "grow">>
IDs == "kill" :> 1 @@ "bomb" :> 2001 @@ "grow" :> 4001
Goals == "kill" :> 2 @@ "bomb" :> 2 @@ "grow" :> 2
Rewards == "kill" :> 0 @@ "bomb" :> 1 @@ "grow" :> 2
Condition(task, event, modes, points, streak, how) ==
  [task |-> task, event |-> event, modes |-> modes, points |-> points, streak |-> streak,
   how |-> how]
Conds == <<Condition("kill", "kill", {}, 1, 1, {"knife"}),
           Condition("kill", "kill", {"bots"}, 2, 0, {"gun"}),
           Condition("bomb", "bomb", {}, 1, 0, {}),
           Condition("grow", "levelup", {}, 1, 0, {}),
           Condition("grow", "login", {}, 1, 0, {})>>
\* A task that counts in a match and at a login.
Mixed == <<Conds[1], Conds[2], Conds[3], Condition("bomb", "login", {}, 1, 0, {}),
           Conds[4], Conds[5]>>
EveryRewardOnce == \A u \in User, t \in Tasks : paid[u][t] <= 1
Levels == <<1, 2>>
=============================================================================
