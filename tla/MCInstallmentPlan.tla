------------------------- MODULE MCInstallmentPlan -------------------------
(***************************************************************************)
(* The plans and failures the model checker explores InstallmentPlan with. *)
(***************************************************************************)
EXTENDS InstallmentPlan

\* 10 to pay: 4 at once, then 2 a month for 5 months.
monthlyPlan == [totalPrice |-> 10, totalAmountToPay |-> 4, totalMiscellaneousPrice |-> 0,
                totalMonthlyPayment |-> 2, installmentStartingPrice |-> 4,
                totalInstallmentDuration |-> 5]

\* A 3 ONE_OFF item beside an INSTALLMENT item of 6; the starting price 3
\* includes a miscellaneous charge of 1.
mixedPlan == [totalPrice |-> 9, totalAmountToPay |-> 6, totalMiscellaneousPrice |-> 1,
              totalMonthlyPayment |-> 2, installmentStartingPrice |-> 3,
              totalInstallmentDuration |-> 5]

\* A ONE_OFF sale.
oneOff == [totalPrice |-> 6, totalAmountToPay |-> 6, totalMiscellaneousPrice |-> 0,
           totalMonthlyPayment |-> 0, installmentStartingPrice |-> 0,
           totalInstallmentDuration |-> 0]

\* Plans longer than the attempts a job gets, those of an operator included.
LongPlans == {monthlyPlan, mixedPlan, oneOff}

ASSUME \A t \in LongPlans : CoversPrice(t)

FaultSets == {PostPaymentFailure, {"notification"}}
OneRestore == {5}

=============================================================================
