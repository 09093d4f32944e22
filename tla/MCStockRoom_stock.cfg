SPECIFICATION StockSpec
CONSTANTS
  lamp = lamp
  kit = kit
  c1 = c1
  c2 = c2
  Products = {lamp, kit}
  Uses <- OneEach
  Warehouses = {main, branch}
  Items = {panel}
  Prices = {100}
  SaleIds = {s1}
  Orders <- Orderings
  Clerks = {c1, c2}
  Serves <- ServedBy
  Overlap <- Together
  Deliveries = {2}
  Quantities = {1, 3}
  MaxInventories = 2
  MaxBatches = 3
  MaxTransfers = 1
CHECK_DEADLOCK FALSE
INVARIANTS
  StockConserved
  TransferMovesOnce
  WarehousesInOrder
