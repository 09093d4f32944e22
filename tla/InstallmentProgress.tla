------------------------ MODULE InstallmentProgress ------------------------
(***************************************************************************)
(* The arithmetic of an instalment sale, without state: how the progress   *)
(* of a sale follows from what has been paid                                *)
(* (DeviceService.calculateInstallmentProgress), and which amount the next *)
(* payment must have (PaymentService.validateInstallmentPayment).          *)
(*                                                                         *)
(* Amounts are integers in the smallest unit the office uses.  The code    *)
(* has floats and compares with a tolerance of 0.01, which on such amounts *)
(* is equality.                                                            *)
(***************************************************************************)
EXTENDS Integers

\* What createSale fixes for a sale.  A sale of ONE_OFF items only has no
\* monthly payment, no starting price and no duration.  totalAmountToPay is
\* what the initial payment must be: the starting price of the INSTALLMENT
\* items plus the full price of the ONE_OFF items.
TermsType ==
  [ totalPrice               : Nat,
    totalAmountToPay         : Nat,
    totalMiscellaneousPrice  : Nat,
    totalMonthlyPayment      : Nat,
    installmentStartingPrice : Int,   \* restoreSaleOverpayment lowers it
    totalInstallmentDuration : Nat ]

SalesStatus == {"UNPAID", "IN_INSTALLMENT", "COMPLETED"}

hasInstallmentItems(terms) == terms.totalInstallmentDuration > 0

-----------------------------------------------------------------------------

\* Only the first payment makes the total equal to the starting price.
AtLeastStartingPrice(terms, totalPaid) ==   \* mutant of AtStartingPrice
  terms.installmentStartingPrice > 0 /\ totalPaid >= terms.installmentStartingPrice
AtStartingPrice(terms, totalPaid) ==
  terms.installmentStartingPrice > 0 /\ totalPaid = terms.installmentStartingPrice

ExceedsPrice(terms, totalPaid) ==           \* mutant of PaysPrice
  totalPaid > terms.totalPrice
PaysPrice(terms, totalPaid) == totalPaid >= terms.totalPrice

\* Months of the plan that the money paid so far covers.
MonthsStarted(terms, totalPaid) ==          \* mutant of MonthsCovered
  (totalPaid + terms.totalMonthlyPayment - 1) \div terms.totalMonthlyPayment
MonthsCovered(terms, totalPaid) == totalPaid \div terms.totalMonthlyPayment

\* The last branch of calculateInstallmentProgress: the plan is longer than
\* what is covered, and a balance of at most one monthly payment is one
\* instalment whatever the division says.
RemainingByBalance(terms, totalPaid) ==
  LET uncovered == terms.totalInstallmentDuration - MonthsCovered(terms, totalPaid)
      duration  == IF uncovered > 0 THEN uncovered ELSE 0
      balance   == terms.totalPrice - totalPaid
  IN  IF balance <= terms.totalMonthlyPayment /\ balance > 0 /\ duration > 1
      THEN 1 ELSE duration

\* The early returns are the branches of the conditional, in their order.
calculateInstallmentProgress(terms, totalPaid, remainingInstallments, paymentAmount) ==
  IF terms.totalMonthlyPayment = 0 /\ paymentAmount >= terms.totalPrice
    THEN [status |-> "COMPLETED", remainingInstallments |-> 0]
  ELSE IF AtStartingPrice(terms, totalPaid)
    THEN [status |-> "IN_INSTALLMENT",
          remainingInstallments |-> remainingInstallments - 1]
  ELSE IF PaysPrice(terms, totalPaid)
    THEN [status |-> "COMPLETED", remainingInstallments |-> 0]
  ELSE IF terms.totalMonthlyPayment <= 0
    THEN [status |-> "UNPAID", remainingInstallments |-> remainingInstallments]
  ELSE LET left == RemainingByBalance(terms, totalPaid)
       IN  [status |-> IF left = 0 THEN "COMPLETED" ELSE "IN_INSTALLMENT",
            remainingInstallments |-> left]

-----------------------------------------------------------------------------

\* validateFirstInstallmentPayment / validateMonthlyInstallmentPayment: the
\* first payment is the starting price, every other one the monthly payment;
\* a sale without instalment items, or without a monthly amount, is refused.
ValidInstallmentAmount(terms, isFirstPayment, amount) ==
  /\ hasInstallmentItems(terms)
  /\ IF isFirstPayment
       THEN amount = terms.installmentStartingPrice
       ELSE terms.totalMonthlyPayment # 0 /\ amount = terms.totalMonthlyPayment

-----------------------------------------------------------------------------

\* A plan whose monthly payments alone reach the price.
CoversPrice(terms) ==
  terms.totalMonthlyPayment > 0 =>
    terms.totalInstallmentDuration * terms.totalMonthlyPayment >= terms.totalPrice

=============================================================================
