------------------------- MODULE PaymentSettlement -------------------------
(***************************************************************************)
(* The settlement of the payments of one sale by everything that settles   *)
(* them at the same time: the webhooks of Paystack and Ogaranya, the       *)
(* customer's purchase at the device, and the one worker of payment-queue, *)
(* which runs verify-payment and process-next-payment jobs.                *)
(*                                                                         *)
(* A payment is COMPLETED first and post-processed after it                *)
(* (handlePostPayment: sum the COMPLETED payments, write the total, write  *)
(* the progress, issue tokens), with an await between any two of these, so *)
(* each is one step here.                                                  *)
(*                                                                         *)
(* Sums of money are represented by the set of payments summed: `counted'  *)
(* is the set whose amounts make up Sales.totalPaid, `progress' the set    *)
(* the status and the remaining instalments were calculated from.          *)
(***************************************************************************)
EXTENDS Naturals, FiniteSets

CONSTANTS
  Payments,      \* the payments of the sale
  Kind,          \* how each is made, see PaymentKind
  Requests,      \* HTTP requests served at the same time
  Worker,        \* the worker of payment-queue: one job at a time
  NoPayment,     \* what an idle request or worker works on
  Attempts,      \* attempts of a job
  Concurrent,    \* may requests and the worker overlap?
  LateFailures,  \* may Ogaranya report a failure after a success?
  Crashable,     \* the requests, or the worker, that may fail
  MaxFailures    \* bound: failures

\* "PAYSTACK", "OGARANYA": online, reported by the gateway; "NEXT": recorded
\* by createNextPayment or createSale; "INVOICE": payInvoice, not online;
\* "DIRECT": purchasePower.
PaymentKind == {"PAYSTACK", "OGARANYA", "NEXT", "INVOICE", "DIRECT"}

Slots == Requests \cup {Worker}

ASSUME KindAssumption == Kind \in [Payments -> PaymentKind]
ASSUME SlotsAssumption ==
  /\ Worker \notin Requests /\ NoPayment \notin Payments /\ Crashable \subseteq Slots
  /\ IsFiniteSet(Requests)
ASSUME LimitsAssumption ==
  /\ Attempts \in Nat \ {0} /\ MaxFailures \in Nat
  /\ Concurrent \in BOOLEAN /\ LateFailures \in BOOLEAN

VARIABLES
  paymentStatus, \* Payment.paymentStatus
  recorded,      \* payments with a Paystack response in paymentResponses
  counted,       \* the payments summed in Sales.totalPaid
  progress,      \* the payments Sales.status was calculated from
  issued,        \* runs of the token step for each payment
  slot,          \* what each request and the worker are doing
  jobs,          \* waiting jobs of payment-queue
  failed,        \* jobs kept after their last attempt
  failures

rows == <<paymentStatus, recorded>>
sale == <<counted, progress, issued>>
queue == <<jobs, failed>>
vars == <<rows, sale, slot, queue, failures>>

PaymentStatus == {"none", "PENDING", "COMPLETED", "FAILED"}

Stage == {"idle", "marking", "recording", "summing", "totalling", "progressing",
          "issuing", "finishing", "enqueuing"}

\* snapshot holds the COMPLETED payments a run of handlePostPayment read.
SlotType == [stage : Stage, payment : Payments \cup {NoPayment},
             snapshot : SUBSET Payments, job : {"none", "verify", "post"},
             attempts : 0 .. Attempts]

JobType == [job : {"verify", "post"}, payment : Payments, attempts : 1 .. Attempts]

TypeOK ==
  /\ paymentStatus \in [Payments -> PaymentStatus]
  /\ recorded \subseteq Payments
  /\ counted \subseteq Payments
  /\ progress \subseteq Payments
  /\ issued \in [Payments -> Nat]
  /\ slot \in [Slots -> SlotType]
  /\ jobs \subseteq JobType
  /\ failed \subseteq JobType
  /\ failures \in 0 .. MaxFailures

Idle == [stage |-> "idle", payment |-> NoPayment, snapshot |-> {}, job |-> "none", attempts |-> 0]

Init ==
  /\ paymentStatus = [p \in Payments |-> "none"]
  /\ recorded = {}
  /\ counted = {}
  /\ progress = {}
  /\ issued = [p \in Payments |-> 0]
  /\ slot = [s \in Slots |-> Idle]
  /\ jobs = {}
  /\ failed = {}
  /\ failures = 0

-----------------------------------------------------------------------------

Completed == {p \in Payments : paymentStatus[p] = "COMPLETED"}

MayStart(s) == slot[s] = Idle /\ (Concurrent \/ \A t \in Slots : slot[t] = Idle)

\* A request starts on a payment.
Starts(s, stage, p) ==
  /\ s \in Requests
  /\ MayStart(s)
  /\ slot' = [slot EXCEPT ![s] = [Idle EXCEPT !.stage = stage, !.payment = p]]

At(s, stage) == slot[s].stage = stage
Moves(s, stage) == slot' = [slot EXCEPT ![s].stage = stage]
Leaves(s) == slot' = [slot EXCEPT ![s] = Idle]
Becomes(p, status) == paymentStatus' = [paymentStatus EXCEPT ![p] = status]

\* generatePaymentPayload: the payment row of an online payment.
InitiatePayment(p) ==
  /\ Kind[p] \in {"PAYSTACK", "OGARANYA"}
  /\ paymentStatus[p] = "none"
  /\ Becomes(p, "PENDING")
  /\ UNCHANGED <<recorded, sale, slot, queue, failures>>

-----------------------------------------------------------------------------
(* Webhooks *)

\* Mutant of ReceivePaystack: only the recorded responses are looked at.
ReceivePaystackUnrecorded(s, p) ==
  /\ Kind[p] = "PAYSTACK"
  /\ paymentStatus[p] # "none"
  /\ Starts(s, "marking", p)
  /\ UNCHANGED <<rows, sale, queue, failures>>

\* handlePaystackWebhookPayload: a success already recorded as a response, or
\* of a payment already COMPLETED, is only acknowledged.
ReceivePaystack(s, p) ==
  /\ Kind[p] = "PAYSTACK"
  /\ p \notin recorded
  /\ paymentStatus[p] \notin {"none", "COMPLETED"}
  /\ Starts(s, "marking", p)
  /\ UNCHANGED <<rows, sale, queue, failures>>

\* handlePaymentWebhook of Ogaranya, success.
ReceiveOgaranya(s, p) ==
  /\ Kind[p] = "OGARANYA"
  /\ paymentStatus[p] \notin {"none", "COMPLETED"}
  /\ Starts(s, "marking", p)
  /\ UNCHANGED <<rows, sale, queue, failures>>

\* handlePaymentWebhook of Ogaranya, failure: FAILED whatever it was.
ReceiveFailure(p) ==
  /\ Kind[p] = "OGARANYA"
  /\ paymentStatus[p] # "none"
  /\ LateFailures \/ paymentStatus[p] # "COMPLETED"
  /\ Becomes(p, "FAILED")
  /\ UNCHANGED <<recorded, sale, slot, queue, failures>>

\* Mutant of MarkCompleted: the payment is not post-processed.
MarkAndReturn(s) ==
  /\ At(s, "marking")
  /\ Becomes(slot[s].payment, "COMPLETED")
  /\ Leaves(s)
  /\ UNCHANGED <<recorded, sale, queue, failures>>

\* The update by id, whatever the status is by now.
MarkCompleted(s) ==
  /\ At(s, "marking")
  /\ Becomes(slot[s].payment, "COMPLETED")
  /\ Moves(s, "recording")
  /\ UNCHANGED <<recorded, sale, queue, failures>>

\* The row in paymentResponses; Ogaranya's are not found by Paystack's scan.
RecordResponse(s) ==
  /\ At(s, "recording")
  /\ recorded' = recorded \cup {p \in {slot[s].payment} : Kind[p] = "PAYSTACK"}
  /\ Moves(s, "summing")
  /\ UNCHANGED <<paymentStatus, sale, queue, failures>>

-----------------------------------------------------------------------------
(* Payments recorded at once *)

\* createNextPayment and createSale: the row is COMPLETED ...
RecordNextPayment(s, p) ==
  /\ Kind[p] = "NEXT"
  /\ paymentStatus[p] = "none"
  /\ Becomes(p, "COMPLETED")
  /\ Starts(s, "enqueuing", p)
  /\ UNCHANGED <<recorded, sale, queue, failures>>

NewJob(job, p) == [job |-> job, payment |-> p, attempts |-> Attempts]

\* ... and then its job is added to the queue.
EnqueueNextPayment(s) ==
  /\ At(s, "enqueuing")
  /\ jobs' = jobs \cup {NewJob("post", slot[s].payment)}
  /\ Leaves(s)
  /\ UNCHANGED <<rows, sale, failed, failures>>

\* payInvoice: the row is COMPLETED and the request post-processes it.
PayInvoice(s, p) ==
  /\ Kind[p] = "INVOICE"
  /\ paymentStatus[p] = "none"
  /\ Becomes(p, "COMPLETED")
  /\ Starts(s, "summing", p)
  /\ UNCHANGED <<recorded, sale, queue, failures>>

\* purchasePower: the row and the increment of the total are one
\* transaction; the progress is calculated from the total it returns.
PurchasePower(s, p) ==
  /\ Kind[p] = "DIRECT"
  /\ paymentStatus[p] = "none"
  /\ s \in Requests /\ MayStart(s)
  /\ Becomes(p, "COMPLETED")
  /\ counted' = counted \cup {p}
  /\ slot' = [slot EXCEPT ![s] = [Idle EXCEPT !.stage = "progressing", !.payment = p,
                                              !.snapshot = counted']]
  /\ UNCHANGED <<recorded, progress, issued, queue, failures>>

-----------------------------------------------------------------------------
(* handlePostPayment *)

\* Mutant of SumPayments: a payment still PENDING is counted.
SumAllPayments(s) ==
  /\ At(s, "summing")
  /\ slot' = [slot EXCEPT ![s].stage = "totalling",
                          ![s].snapshot = {p \in Payments : paymentStatus[p] # "none"}]
  /\ UNCHANGED <<rows, sale, queue, failures>>

\* The sale is read with its payments.
SumPayments(s) ==
  /\ At(s, "summing")
  /\ slot' = [slot EXCEPT ![s].stage = "totalling", ![s].snapshot = Completed]
  /\ UNCHANGED <<rows, sale, queue, failures>>

\* sales.update of totalPaid.
WriteTotal(s) ==
  /\ At(s, "totalling")
  /\ counted' = slot[s].snapshot
  /\ Moves(s, "progressing")
  /\ UNCHANGED <<rows, progress, issued, queue, failures>>

\* sales.update of remainingInstallments and status.
WriteProgress(s) ==
  /\ At(s, "progressing")
  /\ progress' = slot[s].snapshot
  /\ Moves(s, "issuing")
  /\ UNCHANGED <<rows, counted, issued, queue, failures>>

\* purchasePower carries on when this update fails.
ProgressLost(s) ==
  /\ At(s, "progressing")
  /\ Kind[slot[s].payment] = "DIRECT"
  /\ failures < MaxFailures
  /\ failures' = failures + 1
  /\ Moves(s, "issuing")
  /\ UNCHANGED <<rows, sale, queue>>

\* A token for every installed device of the sale.
IssueTokens(s) ==
  /\ At(s, "issuing")
  /\ issued' = [issued EXCEPT ![slot[s].payment] = @ + 1]
  /\ Moves(s, "finishing")
  /\ UNCHANGED <<rows, counted, progress, queue, failures>>

\* Messages and the invoice; the request returns or the job is removed.
Finish(s) ==
  /\ At(s, "finishing")
  /\ Leaves(s)
  /\ UNCHANGED <<rows, sale, queue, failures>>

-----------------------------------------------------------------------------
(* The worker *)

\* The callback after an online payment queues a verify-payment job.
RequestVerification(p) ==
  /\ Kind[p] = "PAYSTACK"
  /\ paymentStatus[p] # "none"
  /\ jobs' = jobs \cup {NewJob("verify", p)}
  /\ UNCHANGED <<rows, sale, slot, failed, failures>>

\* A job taken by the worker leaves the queue.
TakesJob(job, stage) ==
  /\ MayStart(Worker)
  /\ jobs' = jobs \ {job}
  /\ slot' = [slot EXCEPT ![Worker] =
                [stage |-> stage, payment |-> job.payment, snapshot |-> {},
                 job |-> job.job, attempts |-> job.attempts]]

\* verifyPaymentManually: a payment that is COMPLETED is left alone, and one
\* the gateway does not report as successful stays PENDING.
VerifyNothingToDo(job) ==
  /\ job.job = "verify"
  /\ MayStart(Worker)
  /\ jobs' = jobs \ {job}
  /\ UNCHANGED <<rows, sale, slot, failed, failures>>

\* verifyPaystackPayment, after the gateway confirmed the payment.
VerifyPayment(job) ==
  /\ job.job = "verify"
  /\ paymentStatus[job.payment] # "COMPLETED"
  /\ TakesJob(job, "marking")
  /\ UNCHANGED <<rows, sale, failed, failures>>

\* processNextPayment.
ProcessNextPayment(job) ==
  /\ job.job = "post"
  /\ TakesJob(job, "summing")
  /\ UNCHANGED <<rows, sale, failed, failures>>

\* Mutant of WorkerFails: a job has one attempt and leaves nothing behind.
WorkerForgetsJob == UNCHANGED queue

\* Mutant of WorkerFails: a failed job is removed (removeOnFail).
WorkerDropsJob ==
  /\ LET job == [job |-> slot[Worker].job, payment |-> slot[Worker].payment,
                 attempts |-> slot[Worker].attempts]
     IN  jobs' = jobs \cup (IF job.attempts > 1 THEN {[job EXCEPT !.attempts = @ - 1]} ELSE {})
  /\ UNCHANGED failed

\* A job that throws, or whose process dies, is run again from its start
\* while it has attempts left, and kept for an operator afterwards.
WorkerFails ==
  LET job == [job |-> slot[Worker].job, payment |-> slot[Worker].payment,
              attempts |-> slot[Worker].attempts]
  IN  IF job.attempts > 1
        THEN jobs' = jobs \cup {[job EXCEPT !.attempts = @ - 1]} /\ failed' = failed
        ELSE failed' = failed \cup {job} /\ jobs' = jobs

\* A request that throws, or whose process dies, does not come back.
Fail(s) ==
  /\ s \in Crashable
  /\ slot[s] # Idle
  /\ failures < MaxFailures
  /\ failures' = failures + 1
  /\ Leaves(s)
  /\ IF s = Worker THEN WorkerFails ELSE UNCHANGED queue
  /\ UNCHANGED <<rows, sale>>

\* retryFailedJob: an operator gives a failed job one more attempt.
RetryFailedJob(job) ==
  /\ failed' = failed \ {job}
  /\ jobs' = jobs \cup {job}
  /\ UNCHANGED <<rows, sale, slot, failures>>

-----------------------------------------------------------------------------

PostPaymentStep(s) ==
  \/ SumPayments(s)
  \/ WriteTotal(s)
  \/ WriteProgress(s)
  \/ ProgressLost(s)
  \/ IssueTokens(s)
  \/ Finish(s)

SlotStep(s) ==
  \/ MarkCompleted(s)
  \/ RecordResponse(s)
  \/ EnqueueNextPayment(s)
  \/ PostPaymentStep(s)

RequestStarts(s, p) ==
  \/ ReceivePaystack(s, p)
  \/ ReceiveOgaranya(s, p)
  \/ RecordNextPayment(s, p)
  \/ PayInvoice(s, p)
  \/ PurchasePower(s, p)

RunJob(job) ==
  \/ VerifyNothingToDo(job)
  \/ VerifyPayment(job)
  \/ ProcessNextPayment(job)

Next ==
  \/ \E p \in Payments :
       \/ InitiatePayment(p)
       \/ ReceiveFailure(p)
       \/ RequestVerification(p)
       \/ \E s \in Requests : RequestStarts(s, p)
  \/ \E s \in Slots : SlotStep(s) \/ Fail(s)
  \/ \E job \in jobs : RunJob(job)
  \/ \E job \in failed : RetryFailedJob(job)

Spec == Init /\ [][Next]_vars

\* A running request or job goes on, and the worker takes every
\* process-next-payment job in the end, whatever else is in the queue.
FairSpec ==
  /\ Spec
  /\ \A s \in Slots : WF_vars(SlotStep(s))
  /\ \A p \in Payments : SF_vars(\E job \in jobs : job.payment = p /\ ProcessNextPayment(job))

-----------------------------------------------------------------------------
(* Properties *)

\* Only money that was received is ever counted: in the total, in the
\* progress and in what a running handler has read.
OnlyCompletedCounted ==
  /\ counted \subseteq Completed
  /\ progress \subseteq Completed
  /\ \A s \in Slots : slot[s].snapshot \subseteq Completed

Quiet == jobs = {} /\ failed = {} /\ \A s \in Slots : slot[s] = Idle

\* When nothing is left to be done, the total counts every payment received
\* and the status was calculated with it; a failure only ever costs payments
\* that no job of their own post-processes.
QuietMeansSettled ==
  Quiet => \A p \in Completed : Kind[p] = "NEXT" \/ failures = 0 => p \in counted \cap progress

\* The handlers that can have read a payment before the first of them marks it.
Together == IF Concurrent THEN Cardinality(Slots) ELSE 1

\* The tokens of a payment are issued once.  The job of a recorded payment may
\* repeat it after a failure.  What a gateway reports and a job verifies is
\* looked at first and marked later (handlePaystackWebhookPayload,
\* verifyPaymentManually): handlers that overlap there each issue them, and
\* nobody who comes after the first mark does, whatever fails or is retried.
IssuedOnce ==
  \A p \in Payments :
    issued[p] <= IF Kind[p] \in {"PAYSTACK", "OGARANYA"} THEN Together ELSE 1 + failures

\* A recorded payment is post-processed, or somebody still has to do it.
NextPaymentIsKept ==
  \A p \in Payments :
    Kind[p] = "NEXT" /\ paymentStatus[p] = "COMPLETED" =>
      \/ issued[p] > 0
      \/ \E s \in Slots : slot[s].payment = p
      \/ \E job \in jobs \cup failed : job.job = "post" /\ job.payment = p

\* A recorded payment is post-processed in the end, up to its tokens,
\* although its job fails and other requests interfere.
NextPaymentIsSettled ==
  \A p \in Payments :
    (Kind[p] = "NEXT" /\ paymentStatus[p] = "COMPLETED") ~> (issued[p] > 0)

=============================================================================
