SPECIFICATION QuestSpec
CONSTANTS
  User = {u1}
  Task <- TaskList
  QuestID <- IDs
  Goal <- Goals
  Conditions <- Conds
  RewardExp <- Rewards
  Event = {"kill", "bomb"}
  How = {"knife", "gun"}
  Mode = {"bots"}
  MatchExp = {0, 2}
  ExpToLvlUp <- Levels
  MaxExp = 2
  UpdatesFail = TRUE

PROPERTY FinishedStays
