SPECIFICATION Spec
CONSTANTS
  plan = plan
  oneOff = oneOff
  online = online
  d1 = d1
  d2 = d2
  Sales = {plan, oneOff, online}
  AgentSales = {plan, oneOff}
  Instalment = {plan}
  Quantity <- QuantityOf
  DevicesOf <- DevicesIn
  Amount <- AmountOf
  Devices = {d1, d2}
  NoSale = NoSale
  Operators = {op1, op2}
  NumBatches = 2
  InitialStock <- TwoBatches
  InitialBalance = 4
  Racing = FALSE
  MaxFailures = 1
CHECK_DEADLOCK FALSE
INVARIANTS
  TypeOK
  StockAccounted
  ChargedIsRecorded
  NeverRefundedTwice
