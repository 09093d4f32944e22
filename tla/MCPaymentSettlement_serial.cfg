SPECIFICATION Spec
CONSTANTS
  paystack = paystack
  ogaranya = ogaranya
  next1 = next1
  next2 = next2
  direct = direct
  invoice = invoice
  Payments = {paystack, ogaranya, next1, direct, invoice}
  Kind <- KindOf
  Requests = {r1}
  Worker = worker
  NoPayment = NoPayment
  Attempts = 2
  Concurrent = FALSE
  LateFailures = FALSE
  Crashable = {worker}
  MaxFailures = 2
CHECK_DEADLOCK FALSE
INVARIANTS
  QuietMeansSettled
  IssuedOnce
