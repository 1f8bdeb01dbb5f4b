SPECIFICATION Spec
CONSTANTS
  User = {u1, u2}
  Item = {"costume"}
  Lasting = {}
  Slot = {1}
  Mark = {"skull"}
  MaxClan = 1
  MaxMembers = 2
  MaxItems = 2
  Wealth = 1
  Method = {2}
  Grade = {1}
  PageGrade = {1}
  DbErrors = TRUE
SYMMETRY Users
INVARIANTS CountAgrees MembersKnow ItemsNotDuplicated
