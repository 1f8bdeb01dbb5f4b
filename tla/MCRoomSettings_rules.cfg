SPECIFICATION Spec
CONSTANTS
  u1 = u1
  u2 = u2
  u3 = u3
  User = {u1, u2, u3}
  Clans <- ClanChoices
  NoClan = NoClan
  NoUser = NoUser
  Mode <- Modes
  Offered <- Modes
  Map = {4, 282}
  ModesOf <- ModesOfDef
  MapMax <- MapMaxDef
  Restricted = {}
  Drawn = {4}
  SlotMode = {}
  ModeMin <- ModeMinDef
  ModeMax <- ModeMaxDef
  Rule = {"leagueRule", "zbRebalance"}
  Limit = {"winLimit"}
  Allowed <- AllowedDef
  Usual <- UsualDef
  NewRoom <- NewRooms
  Update <- Updates
INVARIANT EveryRuleFits
