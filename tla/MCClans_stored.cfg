SPECIFICATION Spec
CONSTANTS
  User = {u1, u2}
  Item = {"costume", "weapon"}
  Lasting = {"costume"}
  Slot = {1, 2}
  Mark = {}
  MaxClan = 1
  MaxMembers = 2
  MaxItems = 2
  Wealth = 1
  Method = {}
  Grade = {}
  PageGrade = {1}
  DbErrors = FALSE
PROPERTY LastingStayStored
