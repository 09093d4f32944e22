-------------------------- MODULE InstallmentPlan --------------------------
(***************************************************************************)
(* The life of one instalment sale from the point of view of its money:    *)
(* the payments recorded for it, the background jobs that post-process     *)
(* each payment (PaymentService.handlePostPayment), and the columns of the *)
(* sale those jobs keep up to date: totalPaid, remainingInstallments and   *)
(* status.                                                                 *)
(*                                                                         *)
(* A job runs here without interruption but may fail at any of its writes, *)
(* be retried by the queue, and be retried again by an operator after its  *)
(* attempts are used up.  Two handlers of the same sale at the same time   *)
(* are the subject of PaymentSettlement.                                   *)
(*                                                                         *)
(* The rows of the payment table are summarised by their number and by     *)
(* `collected', the sum of the COMPLETED ones, which is all the code ever  *)
(* asks of them.                                                           *)
(***************************************************************************)
EXTENDS InstallmentProgress, FiniteSets

CONSTANTS
  Terms,             \* the plans a sale may be created with
  MaxAttempts,       \* `attempts' of a process-next-payment job
  CompletionAmount,  \* PAYMENT_AMOUNT of completeSalePayment
  RestoreAmounts,    \* amounts given to restoreSaleOverpayment
  FaultModels,       \* the sets of places where handlePostPayment may fail
  MaxPayments,       \* bound: payments recorded for the sale
  MaxReruns          \* bound: failed jobs retried by an operator

\* "read": nothing written yet; "progress": totalPaid written, progress not;
\* "notification": everything written, sending tokens or messages fails.
PostPaymentFailure == {"read", "progress", "notification"}

ASSUME TermsAssumption ==
  /\ Terms \subseteq TermsType
  /\ \A t \in Terms : t.installmentStartingPrice \in Nat
ASSUME AttemptsAssumption == MaxAttempts \in Nat \ {0}
ASSUME AmountsAssumption ==
  CompletionAmount \in Nat \ {0} /\ RestoreAmounts \subseteq Nat \ {0}
ASSUME FailuresAssumption == FaultModels \subseteq SUBSET PostPaymentFailure
ASSUME BoundsAssumption == MaxPayments \in Nat /\ MaxReruns \in Nat

VARIABLES
  terms,                 \* the sale's price and plan
  totalPaid,             \* Sales.totalPaid
  remainingInstallments, \* Sales.remainingInstallments
  status,                \* Sales.status
  collected,             \* sum of the COMPLETED payment rows of the sale
  paymentCount,          \* number of payment rows
  jobs,                  \* post-processing still to be done by the queue
  failed,                \* post-processing given up, kept for an operator
  reruns,                \* bounds RetryFailedJob
  initialPaid,           \* the payment asked for by createSale has been made
  congratulated,         \* the "fully paid" message was sent
  faults                 \* where writes fail in this behaviour

saleColumns == <<terms, totalPaid, remainingInstallments, status>>
payments == <<collected, paymentCount, initialPaid>>
queue == <<jobs, failed, reruns>>
vars == <<saleColumns, payments, queue, congratulated, faults>>

\* A job carries a copy of the payment row made when the job was created.
JobType == [payment : Nat \ {0}, amount : Nat, attempts : Nat \ {0}]

TypeOK ==
  /\ terms \in TermsType
  /\ totalPaid \in Int
  /\ remainingInstallments \in Int
  /\ status \in SalesStatus
  /\ collected \in Int
  /\ paymentCount \in Nat
  /\ jobs \subseteq JobType
  /\ failed \subseteq JobType
  /\ reruns \in Nat
  /\ initialPaid \in BOOLEAN
  /\ congratulated \in BOOLEAN
  /\ faults \subseteq PostPaymentFailure

\* createSale: the row is written UNPAID with the whole plan remaining.
Init ==
  /\ terms \in Terms
  /\ totalPaid = 0
  /\ remainingInstallments = terms.totalInstallmentDuration
  /\ status = "UNPAID"
  /\ collected = 0
  /\ paymentCount = 0
  /\ jobs = {}
  /\ failed = {}
  /\ reruns = 0
  /\ initialPaid = FALSE
  /\ congratulated = FALSE
  /\ faults \in FaultModels

-----------------------------------------------------------------------------

\* A COMPLETED payment row of this amount, with the job that will process it.
RecordPayment(amount, attempts) ==
  /\ paymentCount < MaxPayments
  /\ paymentCount' = paymentCount + 1
  /\ collected' = collected + amount
  /\ jobs' = jobs \cup
       {[payment |-> paymentCount + 1, amount |-> amount, attempts |-> attempts]}

\* The payment createSale asks for: from the agent's wallet, with a queued
\* job, or online, processed once by the gateway's notification, which may
\* come after other payments were recorded.
InitialPayment ==
  /\ ~initialPaid
  /\ initialPaid' = TRUE
  /\ \E attempts \in {1, MaxAttempts} :
       RecordPayment(terms.totalAmountToPay, attempts)
  /\ UNCHANGED <<saleColumns, failed, reruns, congratulated>>

\* The largest amount createNextPayment accepts on the figures it reads.
RemainingAmount == terms.totalPrice - (totalPaid - terms.totalMiscellaneousPrice)

\* An agent or a cashier records the next payment of the plan.
CreateNextPayment(amount) ==
  /\ status # "COMPLETED"
  /\ ValidInstallmentAmount(terms, totalPaid = 0, amount)
  /\ amount <= RemainingAmount
  /\ RecordPayment(amount, MaxAttempts)
  /\ UNCHANGED <<saleColumns, failed, reruns, initialPaid, congratulated>>

-----------------------------------------------------------------------------

\* Mutant of JobFails: the queue forgets a job whose attempts are used up.
JobFailsForGood(job) ==
  /\ jobs' = (jobs \ {job}) \cup
       (IF job.attempts > 1 THEN {[job EXCEPT !.attempts = @ - 1]} ELSE {})
  /\ UNCHANGED <<failed, reruns>>

\* A failed job goes back to the queue while it has attempts left.
JobFails(job) ==
  /\ IF job.attempts > 1
       THEN /\ jobs' = (jobs \ {job}) \cup {[job EXCEPT !.attempts = @ - 1]}
            /\ failed' = failed
       ELSE /\ jobs' = jobs \ {job}
            /\ failed' = failed \cup {job}
  /\ UNCHANGED reruns

JobCompletes(job) ==
  /\ jobs' = jobs \ {job}
  /\ UNCHANGED <<failed, reruns>>

\* The progress of the sale once totalPaid has its new value.
Progress(amount) ==
  calculateInstallmentProgress(terms, totalPaid', remainingInstallments, amount)

\* The second write of handlePostPayment.
ApplyProgress(amount) ==
  /\ remainingInstallments' = Progress(amount).remainingInstallments
  /\ status' = Progress(amount).status

\* Mutant of FullyPaid: off by one instalment.
NearlyPaid(amount) ==
  totalPaid' >= terms.totalPrice \/ Progress(amount).remainingInstallments <= 1

\* The customer is told that everything is paid.
FullyPaid(amount) ==
  totalPaid' >= terms.totalPrice \/ Progress(amount).remainingInstallments = 0

\* handlePostPayment fails on its first reads or on its first write.
PostPaymentFailsAtRead(job) ==
  /\ "read" \in faults
  /\ JobFails(job)
  /\ UNCHANGED <<saleColumns, payments, congratulated>>

\* totalPaid is written, the write of the progress fails.
PostPaymentFailsAtProgress(job) ==
  /\ "progress" \in faults
  /\ totalPaid' = collected
  /\ JobFails(job)
  /\ UNCHANGED <<terms, remainingInstallments, status, payments, congratulated>>

\* Both writes are done.  tokens says whether a device of the sale was
\* installed and got a token: without one the congratulation of a paid-up
\* sale reads deviceTokens[0] and throws.  Sending the tokens may fail too.
PostPayment(job) ==
  /\ totalPaid' = collected
  /\ ApplyProgress(job.amount)
  /\ \E tokens \in BOOLEAN :
       \/ /\ FullyPaid(job.amount) => tokens
          /\ congratulated' = (congratulated \/ FullyPaid(job.amount))
          /\ JobCompletes(job)
       \/ /\ FullyPaid(job.amount) /\ ~tokens
          /\ congratulated' = congratulated
          /\ JobFails(job)
       \/ /\ "notification" \in faults /\ tokens
          /\ congratulated' = congratulated
          /\ JobFails(job)
  /\ UNCHANGED <<terms, payments>>

\* retryFailedJob: an operator puts a failed job back; it runs once.
RetryFailedJob(job) ==
  /\ reruns < MaxReruns
  /\ reruns' = reruns + 1
  /\ failed' = failed \ {job}
  /\ jobs' = jobs \cup {job}
  /\ UNCHANGED <<saleColumns, payments, congratulated>>

-----------------------------------------------------------------------------

\* purchasePower: the customer pays at the device.  The payment row and the
\* total change in one transaction, the progress is written after it and a
\* failure of that write is ignored; there is no job and no retry.
PurchasePower(amount) ==
  /\ paymentCount < MaxPayments
  /\ ValidInstallmentAmount(terms, totalPaid = 0, amount)
  /\ amount <= terms.totalPrice - totalPaid
  /\ paymentCount' = paymentCount + 1
  /\ collected' = collected + amount
  /\ totalPaid' = totalPaid + amount
  /\ \/ ApplyProgress(amount)
     \/ "progress" \in faults /\ UNCHANGED <<remainingInstallments, status>>
  /\ \E tokenGenerated \in BOOLEAN :
       congratulated' = (congratulated \/ (tokenGenerated /\ FullyPaid(amount)))
  /\ UNCHANGED <<terms, initialPaid, queue>>

\* completeSalePayment: a fixed amount from the wallet of the sale's agent,
\* whatever the status; the row and the totals change in one transaction and
\* the remaining instalments are left alone.  (The wallet is AgentWallet's.)
CompleteSalePayment ==
  /\ paymentCount < MaxPayments
  /\ totalPaid' = totalPaid + CompletionAmount
  /\ status' = IF totalPaid' >= terms.totalPrice THEN "COMPLETED" ELSE status
  /\ collected' = collected + CompletionAmount
  /\ paymentCount' = paymentCount + 1
  /\ UNCHANGED <<terms, remainingInstallments, initialPaid, queue, congratulated>>

\* Mutant of RestoreSaleOverpayment: the payment row keeps its amount.
RestoreTotalOnly(amount) ==
  /\ paymentCount > 0
  /\ amount <= collected
  /\ totalPaid' = totalPaid - amount
  /\ terms' = [terms EXCEPT !.installmentStartingPrice = @ - amount]
  /\ UNCHANGED <<remainingInstallments, status, payments, queue, congratulated>>

\* restoreSaleOverpayment: the first payment row, the total and the starting
\* price all shrink; without a payment row the transaction is rolled back.
\* Neither the status nor the remaining instalments are recomputed.  The code
\* accepts any amount; the bound here is what was collected.
RestoreSaleOverpayment(amount) ==
  /\ paymentCount > 0
  /\ amount <= collected
  /\ totalPaid' = totalPaid - amount
  /\ terms' = [terms EXCEPT !.installmentStartingPrice = @ - amount]
  /\ collected' = collected - amount
  /\ UNCHANGED <<remainingInstallments, status, paymentCount, initialPaid, queue,
                 congratulated>>

-----------------------------------------------------------------------------

\* validateInstallmentPayment leaves these two amounts.
NextAmounts ==
  {terms.installmentStartingPrice, terms.totalMonthlyPayment} \cap Nat

ProcessJob(job) ==
  \/ PostPaymentFailsAtRead(job)
  \/ PostPaymentFailsAtProgress(job)
  \/ PostPayment(job)

Step ==
  \/ InitialPayment
  \/ \E amount \in NextAmounts : CreateNextPayment(amount)
  \/ \E job \in jobs : ProcessJob(job)
  \/ \E job \in failed : RetryFailedJob(job)
  \/ \E amount \in NextAmounts : PurchasePower(amount)
  \/ CompleteSalePayment
  \/ \E amount \in RestoreAmounts : RestoreSaleOverpayment(amount)

Next == Step /\ UNCHANGED faults

Spec == Init /\ [][Next]_vars

\* The queue's worker takes every waiting job in the end.
FairSpec == Spec /\ WF_vars(UNCHANGED faults /\ \E job \in jobs : ProcessJob(job))

-----------------------------------------------------------------------------
(* Properties *)

\* Once every payment has been post-processed, the sale's total is the sum
\* of its COMPLETED payments: completeSalePayment and
\* restoreSaleOverpayment, which adjust the total by hand, agree with
\* handlePostPayment, which recomputes it.
SettledTotal == jobs = {} /\ failed = {} => totalPaid = collected

\* A restoration of the sale changes its terms.
Restored == terms \notin Terms

\* A sale the office shows as COMPLETED has been paid in full, unless money
\* was given back.
CompletedMeansPaid == status = "COMPLETED" /\ ~Restored => totalPaid >= terms.totalPrice

\* A customer to whom nothing was given back is told that everything is paid
\* only when it is.
CongratulatedOnlyWhenPaid ==
  [][congratulated' /\ ~congratulated /\ ~Restored => collected' >= terms'.totalPrice]_vars

\* No retry, however late, reopens a sale that was COMPLETED, unless money was
\* given back.
CompletedIsFinal == [][status = "COMPLETED" /\ ~Restored => status' = "COMPLETED"]_vars

\* createNextPayment refuses what exceeds the balance, so a customer never
\* pays more than the price and the miscellaneous charges.
NeverOverpaid == collected <= terms.totalPrice + terms.totalMiscellaneousPrice

\* With a working database, a sale whose payments reach the price, and are
\* not restored below it again, is COMPLETED in the end, even when every
\* notification fails.
PaidUpIsCompleted ==
  (collected >= terms.totalPrice /\ faults \subseteq {"notification"})
    ~> (status = "COMPLETED" \/ collected < terms.totalPrice)

=============================================================================
