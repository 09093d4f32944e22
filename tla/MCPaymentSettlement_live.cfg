SPECIFICATION FairSpec
CONSTANTS
  paystack = paystack
  ogaranya = ogaranya
  next1 = next1
  next2 = next2
  direct = direct
  invoice = invoice
  Payments = {paystack, direct, next1}
  Kind <- KindOf
  Requests = {r1}
  Worker = worker
  NoPayment = NoPayment
  Attempts = 3
  Concurrent = TRUE
  LateFailures = FALSE
  Crashable = {worker}
  MaxFailures = 2
CHECK_DEADLOCK FALSE
INVARIANTS
  OnlyCompletedCounted
  NextPaymentIsKept
  IssuedOnce
PROPERTY
  NextPaymentIsSettled
