SPECIFICATION FairSpec
CONSTANTS
  p1 = p1
  o1 = o1
  TopUps = {p1, o1}
  OgaranyaTopUps = {o1}
  Amount <- AmountOf
  CreditAmounts <- SmallCredits
  DebitAmounts <- SmallDebits
  CompletionAmount = 2
  Handlers = {h1, h2}
  NoTopUp = NoTopUp
  Overlap = FALSE
  LateFailures = FALSE
  Completions = TRUE
  VerifyAttempts = 2
  MaxBalance = 5
  MaxCrashes = 2
CHECK_DEADLOCK FALSE
INVARIANTS
  PostedAtMostOnce
  OverdraftBounded
  LedgerAgrees
PROPERTIES
  IdealSpec
  CollectedIsPosted
