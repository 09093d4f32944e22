SPECIFICATION SalesSpec
CONSTANTS
  Units = {u1}
  SaleIds = {s1}
  Sellers = {q1, q2}
  MaxVersion = 3
CHECK_DEADLOCK FALSE
PROPERTIES
  EditsWhatItSaw
