SPECIFICATION Spec
CONSTANTS
  Rifle = Rifle
  Pistol = Pistol
  Powder = Powder
  ENH_ANTI = ENH_ANTI
  ENH_ANIT1GRADE = ENH_ANIT1GRADE
  Solvent = Solvent
  Red = Red
  Remover = Remover
  Sight = Sight
  None = None
  Slot = {1, 2, 3, 4}
  Item = {Rifle, Pistol, Powder, ENH_ANTI, ENH_ANIT1GRADE, Solvent, Red, Remover, Sight}
  Reinforceable = {Rifle, Pistol}
  Cap <- CapOf
  TotalMax <- TotalMaxOf
  ExpMax <- ExpMaxOf
  Worth <- WorthOf
  Clears <- ClearsOf
  Paints <- PaintsOf
  Armed = {Rifle, Pistol}
  Parts = {Sight}
  Lockable = {4}
  Finished = 3
  Stock <- Stocks
  DbErrors = TRUE
  MaxMaterials = 2
  A = A
  Joker = Joker
  Char = {A, Joker}
  Word = {1}
  Letters <- Spelled
  WordItem <- ItemOf
  Gachapon = {Sight}
  KillsPerItem = 2
  DeskSize = 1
  PrizeCount = 1
  PrizeItems = 1
  MaxKills = 2
  MaxLost = 1
INVARIANTS
  LevelsAgree
  NoLetterOwed
  OpenedFull
  WeaponGiven
PROPERTIES
  FullReset
  LockedKept
CONSTRAINT Apart
CHECK_DEADLOCK FALSE
