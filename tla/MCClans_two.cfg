SPECIFICATION Spec
CONSTANTS
  User = {u1, u2}
  Item = {}
  Lasting = {}
  Slot = {}
  Mark = {"skull"}
  MaxClan = 2
  MaxMembers = 2
  MaxItems = 2
  Wealth = 1
  Method = {2}
  Grade = {1}
  PageGrade = {}
  DbErrors = TRUE
SYMMETRY Users
INVARIANTS CountAgrees MembersKnow MarksDiffer
