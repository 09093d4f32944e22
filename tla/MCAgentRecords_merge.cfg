SPECIFICATION Spec
CONSTANTS
  c1 = c1
  c2 = c2
  Agents <- Sellers
  Devices = {d1}
  Customers = {cu1}
  Clerks = {c1}
  Serves <- ServesAll
  Overlap = {}
  Careful = FALSE
  MaxTopUps = 2
CHECK_DEADLOCK FALSE
INVARIANTS
  MoneyKept
