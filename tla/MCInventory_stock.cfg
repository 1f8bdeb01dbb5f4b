SPECIFICATION Spec
CONSTANTS
  Hat = Hat
  Plate = Plate
  Rifle = Rifle
  Ticket = Ticket
  Box = Box
  Extender = Extender
  None = None
  Item = {Ticket, Box, Rifle, Extender}
  Kind <- KindDef
  Drops <- StockDrops
  RewardOf <- StockRewardOf
  Product <- Stock
  Reward <- StockRewards
  Fixed = {}
  InventoryMax = 3
  Day = 1
  MaxDays = 2
  DbErrors = TRUE
  GameMaster = FALSE
  NextMax = 7
  Horizon = 2
  MaxDate = 4
  MaxPoints = 1
  MaxNotices = 1
  MaxUse = 2
CONSTRAINT
  Whole
INVARIANTS
  NotOverfull
  RewardsKept
