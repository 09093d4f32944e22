SPECIFICATION FairSpec
CONSTANTS
  Terms <- LongPlans
  MaxAttempts = 3
  CompletionAmount = 3
  FaultModels <- FaultSets
  RestoreAmounts <- OneRestore
  MaxPayments = 3
  MaxReruns = 1
CHECK_DEADLOCK FALSE
INVARIANTS
  SettledTotal
  CompletedMeansPaid
PROPERTIES
  CompletedIsFinal
  CongratulatedOnlyWhenPaid
  PaidUpIsCompleted
