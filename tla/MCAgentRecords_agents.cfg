SPECIFICATION Spec
CONSTANTS
  c1 = c1
  c2 = c2
  Agents <- Three
  Devices = {d1, d2}
  Customers = {cu1}
  Clerks = {c1, c2}
  Serves <- ServesSome
  Overlap <- Together
  Careful = TRUE
  MaxTopUps = 2
CHECK_DEADLOCK FALSE
INVARIANTS
  AssignmentsAgree
  MoneyKept
PROPERTIES
  NobodyIsLost
