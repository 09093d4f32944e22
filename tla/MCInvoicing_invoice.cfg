SPECIFICATION InvoiceSpec
CONSTANTS
  c1 = c1
  c2 = c2
  Price = 3
  TaxRate = 0
  Amounts = {1, 2}
  Clerks = {c1, c2}
  Serves <- ServesAll
  Overlap <- Together
  Careful = TRUE
  MaxInvoices = 3
  MaxInvoicePayments = 3
CHECK_DEADLOCK FALSE
INVARIANTS
  InvoicesAddUp
  CacheAgrees
PROPERTIES
  VoidIsFinal
