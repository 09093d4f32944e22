SPECIFICATION Spec
CONSTANTS
  k1 = k1
  k2 = k2
  r1 = r1
  r2 = r2
  g1 = g1
  g2 = g2
  g3 = g3
  Customers = {c1, c2}
  Emails = {e1}
  NoEmail = NoEmail
  CustomerClerks = {k1, k2}
  CustomerServes <- ServesTwo
  CustomerOverlap <- Together
  MaxRejections = 2
  Rows = {r1, r2}
  RowData <- TwoRows
  KnownDevices = {"known"}
  KnownCustomers <- TheFirst
  RowAttempts = 3
  MaxStalls = 1
  CodeDevices = {g1, g2, g3}
  SoldIn <- TwoSales
  CodesOf <- TwoOrThree
  CorrectionAttempts = 3
  PayMeanwhile = FALSE
  MaxCorrectionFailures = 2
  BatchRows = {d1, d2}
  BatchAttempts = 3
  MaxThrows = 2
  MaxBatchDeaths = 1
  Units = {u1, u2}
  SaleIds = {s1, s2}
  Sellers = {q1, q2}
  MaxVersion = 3
CHECK_DEADLOCK FALSE
INVARIANTS
  CustomersInOrder
  ImportsInOrder
  PaymentsInOrder
  BatchInOrder
  SalesInOrder
PROPERTIES
  NeverOverpaid
