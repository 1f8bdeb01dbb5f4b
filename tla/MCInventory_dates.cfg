SPECIFICATION Spec
CONSTANTS
  Hat = Hat
  Plate = Plate
  Rifle = Rifle
  Ticket = Ticket
  Box = Box
  Extender = Extender
  None = None
  Item = {Hat, Plate, Rifle}
  Kind <- KindDef
  Drops <- NoDrops
  RewardOf <- NoRewards
  Product <- Lent
  Reward <- WardrobeRewards
  Fixed = {}
  InventoryMax = 2
  Day = 1
  MaxDays = 2
  DbErrors = FALSE
  GameMaster = FALSE
  NextMax = 5
  Horizon = 3
  MaxDate = 4
  MaxPoints = 0
  MaxNotices = 1
  MaxUse = 1
PROPERTIES
  NewDatesRun
