---------------------- MODULE PaymentSettlementProofs ----------------------
(***************************************************************************)
(* Proofs about PaymentSettlement for every set of payments and requests   *)
(* and every number of attempts.                                           *)
(***************************************************************************)
EXTENDS PaymentSettlement, FiniteSetTheorems, TLAPS

USE KindAssumption, SlotsAssumption, LimitsAssumption

-----------------------------------------------------------------------------
(* Type correctness *)

\* What is not idle works on a payment, and the worker does so for a job.
WorkIsDefined ==
  /\ \A s \in Slots :
       /\ slot[s].stage = "idle" => slot[s] = Idle
       /\ slot[s].stage # "idle" => slot[s].payment \in Payments
  /\ slot[Worker].stage # "idle" => slot[Worker].job # "none" /\ slot[Worker].attempts > 0

Typed == TypeOK /\ WorkIsDefined

LEMMA IdleType == Idle \in SlotType /\ Idle.stage = "idle"
BY DEF Idle, SlotType, Stage

\* A slot that starts, moves on or leaves stays of its type.
LEMMA SlotMovesType ==
  ASSUME Typed, NEW s \in Slots
  PROVE  /\ \A stage \in Stage \ {"idle"} : slot[s].stage # "idle" /\ Moves(s, stage)
              => slot' \in [Slots -> SlotType] /\ WorkIsDefined'
         /\ Leaves(s) => slot' \in [Slots -> SlotType] /\ WorkIsDefined'
         /\ \A stage \in Stage \ {"idle"}, p \in Payments : Starts(s, stage, p)
              => slot' \in [Slots -> SlotType] /\ WorkIsDefined'
<1>1. ASSUME NEW stage \in Stage \ {"idle"}, slot[s].stage # "idle", Moves(s, stage)
      PROVE  slot' \in [Slots -> SlotType] /\ WorkIsDefined'
  <2>1. slot' = [slot EXCEPT ![s] = [slot[s] EXCEPT !.stage = stage]]
    BY <1>1 DEF Moves
  <2>2. slot[s] \in SlotType
    BY DEF Typed, TypeOK
  <2>3. [slot[s] EXCEPT !.stage = stage] \in SlotType
    BY <2>2, <1>1 DEF SlotType
  <2> QED
    BY <1>1, <2>1, <2>2, <2>3 DEF Typed, TypeOK, WorkIsDefined, SlotType, Slots
<1>2. ASSUME Leaves(s)
      PROVE  slot' \in [Slots -> SlotType] /\ WorkIsDefined'
  BY <1>2, IdleType DEF Typed, TypeOK, WorkIsDefined, Leaves, Slots
<1>3. ASSUME NEW stage \in Stage \ {"idle"}, NEW p \in Payments, Starts(s, stage, p)
      PROVE  slot' \in [Slots -> SlotType] /\ WorkIsDefined'
  <2>1. [Idle EXCEPT !.stage = stage, !.payment = p] \in SlotType
    BY IdleType, <1>3 DEF SlotType
  <2>2. /\ [Idle EXCEPT !.stage = stage, !.payment = p].stage = stage
        /\ [Idle EXCEPT !.stage = stage, !.payment = p].payment = p
    BY DEF Idle
  <2> QED
    BY <1>3, <2>1, <2>2 DEF Typed, TypeOK, WorkIsDefined, Starts, Slots
<1> QED
  BY <1>1, <1>2, <1>3

LEMMA RequestStartsType ==
  ASSUME Typed, NEW s \in Requests, NEW p \in Payments, RequestStarts(s, p)
  PROVE  Typed'
<1> USE DEF Slots
<1>1. CASE ReceivePaystack(s, p) \/ ReceiveOgaranya(s, p)
  <2>1. slot' \in [Slots -> SlotType] /\ WorkIsDefined'
    BY <1>1, SlotMovesType DEF ReceivePaystack, ReceiveOgaranya, Stage
  <2> QED
    BY <1>1, <2>1 DEF Typed, TypeOK, ReceivePaystack, ReceiveOgaranya, rows, sale, queue
<1>2. CASE RecordNextPayment(s, p) \/ PayInvoice(s, p)
  <2>1. slot' \in [Slots -> SlotType] /\ WorkIsDefined'
    BY <1>2, SlotMovesType DEF RecordNextPayment, PayInvoice, Stage
  <2> QED
    BY <1>2, <2>1 DEF Typed, TypeOK, RecordNextPayment, PayInvoice, Becomes, PaymentStatus, sale, queue
<1>3. CASE PurchasePower(s, p)
  <2>1. counted' \in SUBSET Payments
    BY <1>3 DEF Typed, TypeOK, PurchasePower
  <2> DEFINE work == [Idle EXCEPT !.stage = "progressing", !.payment = p, !.snapshot = counted']
  <2>2. work \in SlotType /\ work.stage = "progressing" /\ work.payment = p
    BY <2>1, IdleType DEF SlotType, Stage, Idle
  <2>3. slot' = [slot EXCEPT ![s] = work]
    BY <1>3 DEF PurchasePower
  <2> HIDE DEF work
  <2>4. slot' \in [Slots -> SlotType] /\ WorkIsDefined'
    BY <2>2, <2>3 DEF Typed, TypeOK, WorkIsDefined
  <2> QED
    BY <1>3, <2>1, <2>4 DEF Typed, TypeOK, PurchasePower, Becomes, PaymentStatus, queue
<1> QED
  BY <1>1, <1>2, <1>3 DEF RequestStarts

LEMMA SlotStepType ==
  ASSUME Typed, NEW s \in Slots, SlotStep(s)
  PROVE  Typed'
<1>1. slot[s].stage # "idle" /\ slot[s].payment \in Payments
  BY DEF Typed, WorkIsDefined, SlotStep, PostPaymentStep, MarkCompleted, RecordResponse,
         EnqueueNextPayment, SumPayments, WriteTotal, WriteProgress, ProgressLost, IssueTokens,
         Finish, At
<1>2. CASE MarkCompleted(s) \/ RecordResponse(s)
  <2>1. slot' \in [Slots -> SlotType] /\ WorkIsDefined'
    BY <1>1, <1>2, SlotMovesType DEF MarkCompleted, RecordResponse, Stage
  <2> QED
    BY <1>1, <1>2, <2>1 DEF Typed, TypeOK, MarkCompleted, RecordResponse, Becomes, PaymentStatus,
                            sale, queue
<1>3. CASE EnqueueNextPayment(s)
  <2>1. slot' \in [Slots -> SlotType] /\ WorkIsDefined'
    BY <1>3, SlotMovesType DEF EnqueueNextPayment
  <2>2. NewJob("post", slot[s].payment) \in JobType
    BY <1>1 DEF NewJob, JobType
  <2> QED
    BY <1>3, <2>1, <2>2 DEF Typed, TypeOK, EnqueueNextPayment, rows, sale
<1>4. CASE SumPayments(s)
  <2> DEFINE work == [slot[s] EXCEPT !.stage = "totalling", !.snapshot = Completed]
  <2>1. slot' = [slot EXCEPT ![s] = work]
    BY <1>4 DEF SumPayments
  <2>2. slot[s] \in SlotType /\ Completed \subseteq Payments
    BY DEF Typed, TypeOK, Completed
  <2>3. work \in SlotType /\ work.stage = "totalling"
    BY <2>2 DEF SlotType, Stage
  <2>4. work.payment = slot[s].payment /\ work.job = slot[s].job /\ work.attempts = slot[s].attempts
    BY <2>2 DEF SlotType
  <2> HIDE DEF work
  <2>5. slot' \in [Slots -> SlotType] /\ WorkIsDefined'
    BY <1>1, <2>1, <2>3, <2>4 DEF Typed, TypeOK, WorkIsDefined, Slots
  <2> QED
    BY <1>4, <2>5 DEF Typed, TypeOK, SumPayments, rows, sale, queue
<1>5. CASE WriteTotal(s) \/ WriteProgress(s)
  <2>1. slot' \in [Slots -> SlotType] /\ WorkIsDefined'
    BY <1>1, <1>5, SlotMovesType DEF WriteTotal, WriteProgress, Stage
  <2>2. slot[s].snapshot \subseteq Payments
    BY DEF Typed, TypeOK, SlotType
  <2> QED
    BY <1>5, <2>1, <2>2 DEF Typed, TypeOK, WriteTotal, WriteProgress, rows, queue
<1>6. CASE ProgressLost(s) \/ IssueTokens(s)
  <2>1. slot' \in [Slots -> SlotType] /\ WorkIsDefined'
    BY <1>1, <1>6, SlotMovesType DEF ProgressLost, IssueTokens, Stage
  <2> QED
    BY <1>1, <1>6, <2>1 DEF Typed, TypeOK, ProgressLost, IssueTokens, rows, sale, queue
<1>7. CASE Finish(s)
  <2>1. slot' \in [Slots -> SlotType] /\ WorkIsDefined'
    BY <1>7, SlotMovesType DEF Finish
  <2> QED
    BY <1>7, <2>1 DEF Typed, TypeOK, Finish, rows, sale, queue
<1> QED
  BY <1>2, <1>3, <1>4, <1>5, <1>6, <1>7 DEF SlotStep, PostPaymentStep

LEMMA FailType ==
  ASSUME Typed, NEW s \in Slots, Fail(s)
  PROVE  Typed'
<1>1. slot' \in [Slots -> SlotType] /\ WorkIsDefined'
  BY SlotMovesType DEF Fail
<1>2. jobs' \subseteq JobType /\ failed' \subseteq JobType
  <2>1. CASE s # Worker
    BY <2>1 DEF Typed, TypeOK, Fail, queue
  <2>2. CASE s = Worker
    <3>1. /\ slot[Worker].payment \in Payments
          /\ slot[Worker].job \in {"verify", "post"}
          /\ slot[Worker].attempts \in 1 .. Attempts
      BY <2>2 DEF Fail, Typed, WorkIsDefined, TypeOK, SlotType
    <3> DEFINE job == [job |-> slot[Worker].job, payment |-> slot[Worker].payment,
                       attempts |-> slot[Worker].attempts]
    <3>2. job \in JobType
      BY <3>1 DEF JobType
    <3>3. job.attempts > 1 => [job EXCEPT !.attempts = @ - 1] \in JobType
      BY <3>1 DEF JobType
    <3> QED
      BY <2>2, <3>2, <3>3 DEF Fail, WorkerFails, Typed, TypeOK
  <2> QED
    BY <2>1, <2>2
<1> QED
  BY <1>1, <1>2 DEF Typed, TypeOK, Fail, rows, sale

LEMMA RunJobType ==
  ASSUME Typed, NEW job \in jobs, RunJob(job)
  PROVE  Typed'
<1>1. job \in JobType
  BY DEF Typed, TypeOK
<1>2. ASSUME NEW stage \in Stage \ {"idle"}, TakesJob(job, stage)
      PROVE  slot' \in [Slots -> SlotType] /\ WorkIsDefined' /\ jobs' \subseteq JobType
  <2> DEFINE work == [stage |-> stage, payment |-> job.payment, snapshot |-> {},
                      job |-> job.job, attempts |-> job.attempts]
  <2>1. /\ work \in SlotType /\ work.stage = stage /\ work.payment \in Payments
        /\ work.job # "none" /\ work.attempts > 0
    BY <1>1 DEF JobType, SlotType
  <2>2. slot' = [slot EXCEPT ![Worker] = work]
    BY <1>2 DEF TakesJob
  <2>3. jobs' \subseteq JobType
    BY <1>2 DEF TakesJob, Typed, TypeOK
  <2> HIDE DEF work
  <2> QED
    BY <1>2, <2>1, <2>2, <2>3 DEF Typed, TypeOK, WorkIsDefined, Slots
<1>3. CASE VerifyNothingToDo(job)
  BY <1>3 DEF VerifyNothingToDo, Typed, TypeOK, WorkIsDefined, rows, sale
<1>4. CASE VerifyPayment(job) \/ ProcessNextPayment(job)
  <2>1. slot' \in [Slots -> SlotType] /\ WorkIsDefined' /\ jobs' \subseteq JobType
    BY <1>2, <1>4 DEF VerifyPayment, ProcessNextPayment, Stage
  <2> QED
    BY <1>4, <2>1 DEF VerifyPayment, ProcessNextPayment, Typed, TypeOK, rows, sale
<1> QED
  BY <1>3, <1>4 DEF RunJob

LEMMA NextTyped == Typed /\ [Next]_vars => Typed'
<1> SUFFICES ASSUME Typed, [Next]_vars PROVE Typed'
  OBVIOUS
<1>1. ASSUME NEW p \in Payments, InitiatePayment(p) \/ ReceiveFailure(p)
      PROVE  Typed'
  BY <1>1 DEF InitiatePayment, ReceiveFailure, Becomes, Typed, TypeOK, WorkIsDefined,
              PaymentStatus, sale, queue
<1>2. ASSUME NEW p \in Payments, RequestVerification(p)
      PROVE  Typed'
  <2>1. NewJob("verify", p) \in JobType
    BY DEF NewJob, JobType
  <2> QED
    BY <1>2, <2>1 DEF RequestVerification, Typed, TypeOK, WorkIsDefined, rows, sale
<1>3. ASSUME NEW job \in failed, RetryFailedJob(job)
      PROVE  Typed'
  BY <1>3 DEF RetryFailedJob, Typed, TypeOK, WorkIsDefined, rows, sale
<1>4. CASE UNCHANGED vars
  BY <1>4 DEF vars, rows, sale, queue, Typed, TypeOK, WorkIsDefined
<1> QED
  BY <1>1, <1>2, <1>3, <1>4, RequestStartsType, SlotStepType, FailType, RunJobType DEF Next

LEMMA InitTyped == Init => Typed
BY IdleType DEF Init, Typed, TypeOK, WorkIsDefined, PaymentStatus, Slots

\* Every variable keeps its type, whatever overlaps, fails and is retried.
THEOREM SettlementTypeCorrect == Spec => []TypeOK
<1>1. Typed => TypeOK
  BY DEF Typed
<1> QED
  BY <1>1, InitTyped, NextTyped, PTL DEF Spec

-----------------------------------------------------------------------------
(* Only money that was received is counted *)

\* A payment that is COMPLETED stays so while no failure follows a success.
LEMMA CompletedStays ==
  ASSUME Typed, ~LateFailures, [Next]_vars
  PROVE  Completed \subseteq Completed'
<1> SUFFICES ASSUME NEW q \in Payments, paymentStatus[q] = "COMPLETED"
             PROVE  paymentStatus'[q] = "COMPLETED"
  BY DEF Completed
<1>1. ASSUME NEW p \in Payments, InitiatePayment(p) \/ ReceiveFailure(p)
      PROVE  paymentStatus'[q] = "COMPLETED"
  BY <1>1 DEF InitiatePayment, ReceiveFailure, Becomes, Typed, TypeOK
<1>2. ASSUME NEW p \in Payments, NEW s \in Requests, RequestStarts(s, p)
      PROVE  paymentStatus'[q] = "COMPLETED"
  BY <1>2 DEF RequestStarts, ReceivePaystack, ReceiveOgaranya, RecordNextPayment, PayInvoice, PurchasePower,
              Becomes, Typed, TypeOK, rows
<1>3. ASSUME NEW s \in Slots, SlotStep(s)
      PROVE  paymentStatus'[q] = "COMPLETED"
  BY <1>3 DEF SlotStep, PostPaymentStep, MarkCompleted, RecordResponse, EnqueueNextPayment,
              SumPayments, WriteTotal, WriteProgress, ProgressLost, IssueTokens, Finish,
              Becomes, Typed, TypeOK, rows
<1>4. CASE paymentStatus' = paymentStatus
  BY <1>4
<1>5. ASSUME NEW p \in Payments, RequestVerification(p)
      PROVE  paymentStatus' = paymentStatus
  BY <1>5 DEF RequestVerification, rows
<1>6. ASSUME NEW s \in Slots, Fail(s)
      PROVE  paymentStatus' = paymentStatus
  BY <1>6 DEF Fail, rows
<1>7. ASSUME NEW job, RunJob(job) \/ RetryFailedJob(job)
      PROVE  paymentStatus' = paymentStatus
  BY <1>7 DEF RunJob, VerifyNothingToDo, VerifyPayment, ProcessNextPayment, RetryFailedJob, rows
<1>8. UNCHANGED vars => paymentStatus' = paymentStatus
  BY DEF vars, rows
<1> QED
  BY <1>1, <1>2, <1>3, <1>4, <1>5, <1>6, <1>7, <1>8 DEF Next

\* Whatever a step counts was counted, read or COMPLETED before or after it.
LEMMA CountedComesFromCompleted ==
  ASSUME Typed, ~LateFailures, OnlyCompletedCounted, [Next]_vars
  PROVE  OnlyCompletedCounted'
<1>1. Completed \subseteq Completed'
  BY CompletedStays
<1>2. ASSUME NEW s \in Slots, SumPayments(s)
      PROVE  OnlyCompletedCounted'
  BY <1>1, <1>2 DEF SumPayments, OnlyCompletedCounted, Typed, TypeOK, SlotType, rows, sale
<1>3. ASSUME NEW s \in Slots, WriteTotal(s) \/ WriteProgress(s)
      PROVE  OnlyCompletedCounted'
  BY <1>1, <1>3 DEF WriteTotal, WriteProgress, Moves, OnlyCompletedCounted, Typed, TypeOK, SlotType
<1>4. ASSUME NEW s \in Requests, NEW p \in Payments, PurchasePower(s, p)
      PROVE  OnlyCompletedCounted'
  <2>1. p \in Completed'
    BY <1>4 DEF PurchasePower, Becomes, Completed, Typed, TypeOK
  <2>2. counted' \subseteq Completed' /\ progress' \subseteq Completed'
    BY <1>1, <1>4, <2>1 DEF PurchasePower, OnlyCompletedCounted
  <2>3. \A t \in Slots : slot'[t].snapshot = IF t = s THEN counted' ELSE slot[t].snapshot
    BY <1>4 DEF PurchasePower, Idle, Typed, TypeOK
  <2> QED
    BY <1>1, <2>2, <2>3 DEF OnlyCompletedCounted
<1>5. CASE /\ counted' = counted /\ progress' = progress
           /\ \A t \in Slots : slot'[t].snapshot = slot[t].snapshot \/ slot'[t].snapshot = {}
  BY <1>1, <1>5 DEF OnlyCompletedCounted
<1> DEFINE Kept == /\ counted' = counted /\ progress' = progress
                   /\ \A t \in Slots : slot'[t].snapshot = slot[t].snapshot \/ slot'[t].snapshot = {}
<1>6. ASSUME NEW s \in Requests, NEW p \in Payments,
             ReceivePaystack(s, p) \/ ReceiveOgaranya(s, p) \/ RecordNextPayment(s, p) \/ PayInvoice(s, p)
      PROVE  Kept
  <2>1. PICK stage : Starts(s, stage, p)
    BY <1>6 DEF ReceivePaystack, ReceiveOgaranya, RecordNextPayment, PayInvoice
  <2> DEFINE work == [Idle EXCEPT !.stage = stage, !.payment = p]
  <2>2. work.snapshot = {}
    BY DEF Idle
  <2>3. slot' = [slot EXCEPT ![s] = work]
    BY <2>1 DEF Starts
  <2> HIDE DEF work
  <2>4. \A t \in Slots : slot'[t].snapshot = slot[t].snapshot \/ slot'[t].snapshot = {}
    BY <2>2, <2>3 DEF Typed, TypeOK
  <2> QED
    BY <1>6, <2>4 DEF ReceivePaystack, ReceiveOgaranya, RecordNextPayment, PayInvoice, sale
<1>7. ASSUME NEW s \in Slots,
             \/ MarkCompleted(s) \/ RecordResponse(s) \/ EnqueueNextPayment(s)
             \/ ProgressLost(s) \/ IssueTokens(s) \/ Finish(s) \/ Fail(s)
      PROVE  Kept
  BY <1>7 DEF MarkCompleted, RecordResponse, EnqueueNextPayment, ProgressLost, IssueTokens, Finish,
              Fail, Moves, Leaves, Idle, Typed, TypeOK, SlotType, sale
<1>8. ASSUME NEW job, RunJob(job) \/ RetryFailedJob(job)
      PROVE  Kept
  BY <1>8 DEF RunJob, VerifyNothingToDo, VerifyPayment, ProcessNextPayment, RetryFailedJob,
              TakesJob, Typed, TypeOK, sale
<1>9. ASSUME NEW p \in Payments, InitiatePayment(p) \/ ReceiveFailure(p) \/ RequestVerification(p)
      PROVE  Kept
  BY <1>9 DEF InitiatePayment, ReceiveFailure, RequestVerification, sale
<1>10. UNCHANGED vars => Kept
  BY DEF vars, sale
<1> QED
  BY <1>2, <1>3, <1>4, <1>5, <1>6, <1>7, <1>8, <1>9, <1>10
     DEF Next, RequestStarts, SlotStep, PostPaymentStep

\* Whatever requests and jobs overlap, fail and are retried, the total and
\* the status of a sale never count a payment that was not received, as long
\* as Ogaranya reports no failure after a success.
THEOREM CountsOnlyCompleted == ~LateFailures /\ Spec => []OnlyCompletedCounted
<1> SUFFICES ASSUME ~LateFailures PROVE Spec => []OnlyCompletedCounted
  OBVIOUS
<1>1. Init => OnlyCompletedCounted
  BY DEF Init, OnlyCompletedCounted, Idle
<1>2. Typed /\ OnlyCompletedCounted /\ [Next]_vars => Typed' /\ OnlyCompletedCounted'
  BY NextTyped, CountedComesFromCompleted
<1> QED
  BY <1>1, <1>2, InitTyped, PTL DEF Spec

-----------------------------------------------------------------------------
(* A recorded payment is not forgotten *)

\* What is in every slot after one of them starts, moves on or leaves.
LEMMA SlotAfter ==
  ASSUME Typed, NEW s \in Slots
  PROVE  /\ \A stage : Moves(s, stage) =>
              \A t \in Slots : /\ slot'[t].payment = slot[t].payment
                               /\ slot'[t].snapshot = slot[t].snapshot
                               /\ slot'[t].job = slot[t].job
                               /\ slot'[t].stage = IF t = s THEN stage ELSE slot[t].stage
         /\ Leaves(s) => \A t \in Slots : slot'[t] = IF t = s THEN Idle ELSE slot[t]
         /\ \A stage, p : Starts(s, stage, p) =>
              /\ slot[s] = Idle
              /\ \A t \in Slots \ {s} : slot'[t] = slot[t]
              /\ slot'[s].payment = p /\ slot'[s].stage = stage /\ slot'[s].job = "none"
<1>1. slot \in [Slots -> SlotType]
  BY DEF Typed, TypeOK
<1>2. ASSUME NEW stage, Moves(s, stage)
      PROVE  \A t \in Slots : /\ slot'[t].payment = slot[t].payment
                              /\ slot'[t].snapshot = slot[t].snapshot
                              /\ slot'[t].job = slot[t].job
                              /\ slot'[t].stage = IF t = s THEN stage ELSE slot[t].stage
  BY <1>1, <1>2 DEF Moves, SlotType
<1>3. ASSUME Leaves(s)
      PROVE  \A t \in Slots : slot'[t] = IF t = s THEN Idle ELSE slot[t]
  BY <1>1, <1>3 DEF Leaves
<1>4. ASSUME NEW stage, NEW p, Starts(s, stage, p)
      PROVE  /\ slot[s] = Idle
             /\ \A t \in Slots \ {s} : slot'[t] = slot[t]
             /\ slot'[s].payment = p /\ slot'[s].stage = stage /\ slot'[s].job = "none"
  <2> DEFINE work == [Idle EXCEPT !.stage = stage, !.payment = p]
  <2>1. work.payment = p /\ work.stage = stage /\ work.job = "none"
    BY DEF Idle
  <2>2. slot[s] = Idle /\ slot' = [slot EXCEPT ![s] = work]
    BY <1>4 DEF Starts, MayStart
  <2> HIDE DEF work
  <2> QED
    BY <1>1, <2>1, <2>2
<1> QED
  BY <1>2, <1>3, <1>4

\* The jobs of a recorded payment post-process it, and a run that is about to
\* finish has been through the token step.
KeptInv ==
  /\ NextPaymentIsKept
  /\ \A s \in Slots : slot[s].stage = "finishing" => issued[slot[s].payment] > 0
  /\ \A job \in jobs \cup failed : Kind[job.payment] = "NEXT" => job.job = "post"
  /\ slot[Worker].stage # "idle" /\ Kind[slot[Worker].payment] = "NEXT" => slot[Worker].job = "post"

LEMMA RequestStartsKeeps ==
  ASSUME Typed, KeptInv, NEW s \in Requests, NEW p \in Payments, RequestStarts(s, p)
  PROVE  KeptInv'
<1> USE DEF Slots
<1>1. /\ slot[s] = Idle /\ slot'[s].payment = p /\ slot'[s].stage # "finishing"
      /\ \A t \in Slots \ {s} : slot'[t] = slot[t]
  <2>1. CASE ReceivePaystack(s, p) \/ ReceiveOgaranya(s, p) \/ RecordNextPayment(s, p) \/ PayInvoice(s, p)
    BY <2>1, SlotAfter DEF ReceivePaystack, ReceiveOgaranya, RecordNextPayment, PayInvoice
  <2>2. CASE PurchasePower(s, p)
    <3> DEFINE work == [Idle EXCEPT !.stage = "progressing", !.payment = p, !.snapshot = counted']
    <3>1. slot[s] = Idle /\ slot' = [slot EXCEPT ![s] = work]
      BY <2>2 DEF PurchasePower, MayStart
    <3>2. work.payment = p /\ work.stage = "progressing"
      BY DEF Idle
    <3> HIDE DEF work
    <3> QED
      BY <3>1, <3>2 DEF Typed, TypeOK
  <2> QED
    BY <2>1, <2>2 DEF RequestStarts
<1>2. /\ issued' = issued /\ jobs' = jobs /\ failed' = failed
      /\ \A q \in Payments \ {p} : paymentStatus'[q] = paymentStatus[q]
  BY DEF RequestStarts, ReceivePaystack, ReceiveOgaranya, RecordNextPayment, PayInvoice, PurchasePower, Becomes,
         Typed, TypeOK, rows, sale, queue
<1>3. slot[s].payment \notin Payments
  BY <1>1 DEF Idle
<1> QED
  BY <1>1, <1>2, <1>3 DEF KeptInv, NextPaymentIsKept

LEMMA SlotStepKeeps ==
  ASSUME Typed, KeptInv, NEW s \in Slots, SlotStep(s)
  PROVE  KeptInv'
<1>1. slot[s].payment \in Payments /\ slot[s].stage # "idle"
  BY DEF Typed, WorkIsDefined, SlotStep, PostPaymentStep, MarkCompleted, RecordResponse,
         EnqueueNextPayment, SumPayments, WriteTotal, WriteProgress, ProgressLost, IssueTokens,
         Finish, At
<1>2. issued \in [Payments -> Nat] /\ slot \in [Slots -> SlotType]
  BY DEF Typed, TypeOK
<1>3. CASE MarkCompleted(s)
  <2>1. \A q \in Payments \ {slot[s].payment} : paymentStatus'[q] = paymentStatus[q]
    BY <1>3 DEF MarkCompleted, Becomes, Typed, TypeOK
  <2> QED
    BY <1>1, <1>3, <2>1, SlotAfter DEF MarkCompleted, KeptInv, NextPaymentIsKept, sale, queue, Slots
<1>4. CASE RecordResponse(s) \/ WriteTotal(s) \/ WriteProgress(s) \/ ProgressLost(s)
  BY <1>1, <1>4, SlotAfter DEF RecordResponse, WriteTotal, WriteProgress, ProgressLost, KeptInv,
                               NextPaymentIsKept, rows, sale, queue, Slots
<1>5. CASE SumPayments(s)
  <2>1. \A t \in Slots : /\ slot'[t].payment = slot[t].payment
                         /\ slot'[t].job = slot[t].job
                         /\ slot'[t].stage = IF t = s THEN "totalling" ELSE slot[t].stage
    BY <1>2, <1>5 DEF SumPayments, SlotType
  <2>2. /\ issued' = issued /\ paymentStatus' = paymentStatus
        /\ jobs' = jobs /\ failed' = failed
    BY <1>5 DEF SumPayments, rows, sale, queue
  <2> QED
    BY <1>1, <2>1, <2>2 DEF KeptInv, NextPaymentIsKept, Slots
<1>6. CASE IssueTokens(s)
  <2>1. issued'[slot[s].payment] > 0 /\ \A q \in Payments : issued[q] > 0 => issued'[q] > 0
    BY <1>1, <1>2, <1>6 DEF IssueTokens
  <2>2. \A t \in Slots : slot[t].stage = "finishing" => slot[t].payment \in Payments
    BY DEF Typed, WorkIsDefined
  <2> QED
    BY <1>1, <1>6, <2>1, <2>2, SlotAfter DEF IssueTokens, KeptInv, NextPaymentIsKept, rows, queue, Slots
<1>7. CASE EnqueueNextPayment(s)
  <2>1. /\ NewJob("post", slot[s].payment) \in jobs'
        /\ jobs' = jobs \cup {NewJob("post", slot[s].payment)}
        /\ failed' = failed /\ issued' = issued /\ paymentStatus' = paymentStatus
    BY <1>7 DEF EnqueueNextPayment, rows, sale
  <2>2. /\ NewJob("post", slot[s].payment).job = "post"
        /\ NewJob("post", slot[s].payment).payment = slot[s].payment
    BY DEF NewJob
  <2>3. \A t \in Slots : slot'[t] = IF t = s THEN Idle ELSE slot[t]
    BY <1>7, SlotAfter DEF EnqueueNextPayment
  <2> QED
    BY <2>1, <2>2, <2>3, IdleType DEF KeptInv, NextPaymentIsKept, Slots
<1>8. CASE Finish(s)
  <2>1. issued[slot[s].payment] > 0
    BY <1>8 DEF KeptInv, Finish, At
  <2>2. \A t \in Slots : slot'[t] = IF t = s THEN Idle ELSE slot[t]
    BY <1>8, SlotAfter DEF Finish
  <2> QED
    BY <1>8, <2>1, <2>2, IdleType DEF Finish, KeptInv, NextPaymentIsKept, rows, sale, queue, Slots
<1> QED
  BY <1>3, <1>4, <1>5, <1>6, <1>7, <1>8 DEF SlotStep, PostPaymentStep

LEMMA WorkerFailsKeeps ==
  ASSUME Typed, KeptInv, Fail(Worker)
  PROVE  KeptInv'
<1> DEFINE job == [job |-> slot[Worker].job, payment |-> slot[Worker].payment,
                   attempts |-> slot[Worker].attempts]
           retried == [job EXCEPT !.attempts = @ - 1]
<1>1. \A t \in Slots : slot'[t] = IF t = Worker THEN Idle ELSE slot[t]
  BY SlotAfter DEF Fail, Slots
<1>2. \/ jobs' = jobs \cup {retried} /\ failed' = failed
      \/ jobs' = jobs /\ failed' = failed \cup {job}
  BY DEF Fail, WorkerFails
<1>3. /\ job.job = slot[Worker].job /\ job.payment = slot[Worker].payment
      /\ retried.job = slot[Worker].job /\ retried.payment = slot[Worker].payment
  OBVIOUS
<1>4. slot[Worker].stage # "idle"
  BY DEF Fail, Typed, WorkIsDefined, Slots
<1>5. issued' = issued /\ paymentStatus' = paymentStatus
  BY DEF Fail, rows, sale
<1> HIDE DEF job, retried
<1> QED
  BY <1>1, <1>2, <1>3, <1>4, <1>5, IdleType DEF KeptInv, NextPaymentIsKept, Slots

LEMMA RunJobKeeps ==
  ASSUME Typed, KeptInv, NEW job \in jobs, RunJob(job)
  PROVE  KeptInv'
<1>1. jobs' = jobs \ {job} /\ failed' = failed /\ issued' = issued /\ paymentStatus' = paymentStatus
  BY DEF RunJob, VerifyNothingToDo, VerifyPayment, ProcessNextPayment, TakesJob, rows, sale
<1>2. CASE VerifyNothingToDo(job)
  BY <1>1, <1>2 DEF VerifyNothingToDo, KeptInv, NextPaymentIsKept
<1>3. ASSUME NEW stage \in {"marking", "summing"}, TakesJob(job, stage)
      PROVE  KeptInv'
  <2> DEFINE work == [stage |-> stage, payment |-> job.payment, snapshot |-> {},
                      job |-> job.job, attempts |-> job.attempts]
  <2>1. work.stage = stage /\ work.payment = job.payment /\ work.job = job.job
    OBVIOUS
  <2>2. slot[Worker] = Idle /\ slot' = [slot EXCEPT ![Worker] = work]
    BY <1>3 DEF TakesJob, MayStart
  <2> HIDE DEF work
  <2>3. /\ slot'[Worker] = work
        /\ \A t \in Slots \ {Worker} : slot'[t] = slot[t]
    BY <2>2 DEF Typed, TypeOK, Slots
  <2>4. slot[Worker].payment \notin Payments
    BY <2>2 DEF Idle
  <2> QED
    BY <1>1, <1>3, <2>1, <2>3, <2>4 DEF KeptInv, NextPaymentIsKept, Slots
<1> QED
  BY <1>2, <1>3 DEF RunJob, VerifyPayment, ProcessNextPayment

LEMMA NextKeeps ==
  ASSUME Crashable \subseteq {Worker}, Typed, KeptInv, [Next]_vars
  PROVE  KeptInv'
<1>1. ASSUME NEW p \in Payments, InitiatePayment(p) \/ ReceiveFailure(p)
      PROVE  KeptInv'
  BY <1>1 DEF InitiatePayment, ReceiveFailure, Becomes, KeptInv, NextPaymentIsKept, Typed, TypeOK,
              sale, queue
<1>2. ASSUME NEW p \in Payments, RequestVerification(p)
      PROVE  KeptInv'
  <2>1. NewJob("verify", p).payment = p
    BY DEF NewJob
  <2> QED
    BY <1>2, <2>1 DEF RequestVerification, KeptInv, NextPaymentIsKept, rows, sale
<1>3. ASSUME NEW job \in failed, RetryFailedJob(job)
      PROVE  KeptInv'
  BY <1>3 DEF RetryFailedJob, KeptInv, NextPaymentIsKept, rows, sale
<1>4. CASE UNCHANGED vars
  BY <1>4 DEF vars, rows, sale, queue, KeptInv, NextPaymentIsKept
<1>5. ASSUME NEW s \in Slots, Fail(s)
      PROVE  KeptInv'
  BY <1>5, WorkerFailsKeeps DEF Fail
<1> QED
  BY <1>1, <1>2, <1>3, <1>4, <1>5, RequestStartsKeeps, SlotStepKeeps, RunJobKeeps DEF Next

\* As long as the request that records a payment does not fail before it adds
\* the job, the payment is post-processed, or waits for the worker or an
\* operator, whatever overlaps and however often the job fails.
THEOREM NextPaymentNotForgotten ==
  Crashable \subseteq {Worker} /\ Spec => []NextPaymentIsKept
<1> SUFFICES ASSUME Crashable \subseteq {Worker} PROVE Spec => []NextPaymentIsKept
  OBVIOUS
<1>1. Init => KeptInv
  BY IdleType DEF Init, KeptInv, NextPaymentIsKept, Slots
<1>2. Typed /\ KeptInv /\ [Next]_vars => Typed' /\ KeptInv'
  BY NextTyped, NextKeeps
<1>3. KeptInv => NextPaymentIsKept
  BY DEF KeptInv
<1> QED
  BY <1>1, <1>2, <1>3, InitTyped, PTL DEF Spec

-----------------------------------------------------------------------------
(* One at a time, everything is settled *)

PostQueued == \E job \in jobs \cup failed : job.job = "post"

SumStages == {"recording", "summing", "totalling", "enqueuing"}

\* The payments will be summed once more.
SumAhead == PostQueued \/ \E s \in Slots : slot[s].stage \in SumStages

OneWorks == \A s, t \in Slots : slot[s].stage # "idle" /\ slot[t].stage # "idle" => s = t

\* What the running handler has read is still what is COMPLETED, and then
\* what is counted.
ReadIsCurrent ==
  \A s \in Slots :
    /\ slot[s].stage = "totalling" => slot[s].snapshot = Completed
    /\ slot[s].stage = "progressing" => slot[s].snapshot = counted

\* Before anything failed, a total or a status that is behind has a summing
\* ahead of it.
NothingLost ==
  failures = 0 =>
    /\ counted = Completed \/ SumAhead
    /\ progress = Completed \/ SumAhead \/ \E s \in Slots : slot[s].stage = "progressing"

\* The payment itself will still be summed, by its job or by who works on it.
NextAhead(p) ==
  \/ \E job \in jobs \cup failed : job.job = "post" /\ job.payment = p
  \/ \E s \in Slots : slot[s].payment = p /\ slot[s].stage \notin {"idle", "issuing", "finishing"}

\* Whatever failed, a recorded payment is counted or has its summing ahead.
NextNotLost ==
  /\ \A p \in Completed : Kind[p] = "NEXT" => p \in counted \cap progress \/ NextAhead(p)
  /\ \A s \in Slots :
       slot[s].stage = "progressing" /\ slot[s].payment \in Completed /\ Kind[slot[s].payment] = "NEXT"
         => slot[s].payment \in counted

SettledInv == OneWorks /\ ReadIsCurrent /\ NothingLost /\ NextNotLost

LEMMA RequestStartsSettles ==
  ASSUME ~Concurrent, Typed, SettledInv,
         NEW s \in Requests, NEW p \in Payments, RequestStarts(s, p)
  PROVE  SettledInv'
<1> USE DEF Slots
<1>1. \A t \in Slots : slot[t] = Idle
  BY DEF RequestStarts, ReceivePaystack, ReceiveOgaranya, RecordNextPayment, PayInvoice, PurchasePower, Starts,
         MayStart
<1>2. /\ PostQueued' = PostQueued /\ failures' = failures
      /\ jobs' = jobs /\ failed' = failed /\ progress' = progress
  BY DEF RequestStarts, ReceivePaystack, ReceiveOgaranya, RecordNextPayment, PayInvoice, PurchasePower, queue,
         PostQueued, sale
<1>3. failures = 0 => (counted = Completed /\ progress = Completed) \/ PostQueued
  BY <1>1, IdleType DEF SettledInv, NothingLost, SumAhead, SumStages
<1>4. \A q \in Completed : Kind[q] = "NEXT" =>
        \/ q \in counted \cap progress
        \/ \E job \in jobs \cup failed : job.job = "post" /\ job.payment = q
  BY <1>1, IdleType DEF SettledInv, NextNotLost, NextAhead
<1>5. CASE ReceivePaystack(s, p) \/ ReceiveOgaranya(s, p)
  <2>1. Completed' = Completed /\ counted' = counted
    BY <1>5 DEF ReceivePaystack, ReceiveOgaranya, Completed, rows, sale
  <2>2. slot'[s].stage = "marking" /\ \A t \in Slots \ {s} : slot'[t] = Idle
    BY <1>1, <1>5, SlotAfter DEF ReceivePaystack, ReceiveOgaranya
  <2>3. OneWorks' /\ ReadIsCurrent'
    BY <2>2, IdleType DEF OneWorks, ReadIsCurrent
  <2>4. NothingLost'
    BY <1>2, <1>3, <2>1 DEF NothingLost, SumAhead
  <2>5. NextNotLost'
    BY <1>2, <1>4, <2>1, <2>2, IdleType DEF NextNotLost, NextAhead
  <2> QED
    BY <2>3, <2>4, <2>5 DEF SettledInv
<1>6. CASE RecordNextPayment(s, p) \/ PayInvoice(s, p)
  <2>1. /\ slot'[s].stage \in {"enqueuing", "summing"} /\ slot'[s].payment = p
        /\ \A t \in Slots \ {s} : slot'[t] = Idle
    BY <1>1, <1>6, SlotAfter DEF RecordNextPayment, PayInvoice
  <2>2. counted' = counted /\ Completed' \subseteq Completed \cup {p}
    BY <1>6 DEF RecordNextPayment, PayInvoice, Becomes, Completed, Typed, TypeOK, sale
  <2>3. OneWorks' /\ ReadIsCurrent' /\ NothingLost'
    BY <2>1, IdleType DEF OneWorks, ReadIsCurrent, NothingLost, SumAhead, SumStages
  <2>4. NextNotLost'
    BY <1>2, <1>4, <2>1, <2>2, IdleType DEF NextNotLost, NextAhead
  <2> QED
    BY <2>3, <2>4 DEF SettledInv
<1>7. CASE PurchasePower(s, p)
  <2> DEFINE work == [Idle EXCEPT !.stage = "progressing", !.payment = p, !.snapshot = counted']
  <2>1. work.stage = "progressing" /\ work.snapshot = counted' /\ work.payment = p
    BY DEF Idle
  <2>2. slot' = [slot EXCEPT ![s] = work]
    BY <1>7 DEF PurchasePower
  <2> HIDE DEF work
  <2>3. slot'[s] = work /\ \A t \in Slots \ {s} : slot'[t] = Idle
    BY <1>1, <2>2 DEF Typed, TypeOK
  <2>4. counted' = counted \cup {p} /\ Completed' = Completed \cup {p} /\ Kind[p] = "DIRECT"
    BY <1>7 DEF PurchasePower, Becomes, Completed, Typed, TypeOK
  <2>5. OneWorks' /\ ReadIsCurrent'
    BY <2>1, <2>3, IdleType DEF OneWorks, ReadIsCurrent
  <2>6. NothingLost'
    BY <1>2, <1>3, <2>1, <2>3, <2>4 DEF NothingLost, SumAhead
  <2>7. NextNotLost'
    BY <1>2, <1>4, <2>1, <2>3, <2>4, IdleType DEF NextNotLost, NextAhead
  <2> QED
    BY <2>5, <2>6, <2>7 DEF SettledInv
<1> QED
  BY <1>5, <1>6, <1>7 DEF RequestStarts

LEMMA SlotStepSettles ==
  ASSUME Typed, SettledInv, NEW s \in Slots, SlotStep(s)
  PROVE  SettledInv'
<1>1. slot[s].stage # "idle" /\ slot[s].payment \in Payments
  BY DEF Typed, WorkIsDefined, SlotStep, PostPaymentStep, MarkCompleted, RecordResponse, EnqueueNextPayment,
         SumPayments, WriteTotal, WriteProgress, ProgressLost, IssueTokens, Finish, At
<1>2. \A t \in Slots \ {s} : slot[t].stage = "idle"
  BY <1>1 DEF SettledInv, OneWorks
<1>3. CASE MarkCompleted(s) \/ RecordResponse(s)
  <2>1. /\ slot'[s].stage \in {"recording", "summing"} /\ slot'[s].payment = slot[s].payment
        /\ \A t \in Slots \ {s} : slot'[t].stage = "idle"
    BY <1>2, <1>3, SlotAfter DEF MarkCompleted, RecordResponse
  <2>2. /\ Completed' \subseteq Completed \cup {slot[s].payment}
        /\ counted' = counted /\ progress' = progress /\ jobs' = jobs /\ failed' = failed
    BY <1>1, <1>3 DEF MarkCompleted, RecordResponse, Becomes, Completed, Typed, TypeOK, sale, queue
  <2>3. OneWorks' /\ ReadIsCurrent' /\ NothingLost'
    BY <2>1 DEF OneWorks, ReadIsCurrent, NothingLost, SumAhead, SumStages
  <2>4. \A q \in Completed' : NextAhead(q) => NextAhead(q)'
    BY <1>2, <2>1, <2>2 DEF NextAhead
  <2>5. NextAhead(slot[s].payment)'
    BY <2>1 DEF NextAhead
  <2>6. NextNotLost'
    BY <2>1, <2>2, <2>4, <2>5 DEF SettledInv, NextNotLost
  <2> QED
    BY <2>3, <2>6 DEF SettledInv
<1>4. CASE EnqueueNextPayment(s)
  <2>1. \A t \in Slots : slot'[t].stage = "idle"
    BY <1>2, <1>4, SlotAfter, IdleType DEF EnqueueNextPayment
  <2>2. PICK job : job = NewJob("post", slot[s].payment)
    OBVIOUS
  <2>3. /\ jobs' = jobs \cup {job} /\ job.job = "post" /\ job.payment = slot[s].payment
        /\ Completed' = Completed /\ counted' = counted /\ progress' = progress /\ failed' = failed
    BY <1>4, <2>2 DEF EnqueueNextPayment, NewJob, Completed, rows, sale
  <2>4. PostQueued'
    BY <2>3 DEF PostQueued
  <2>5. OneWorks' /\ ReadIsCurrent' /\ NothingLost'
    BY <2>1, <2>4 DEF OneWorks, ReadIsCurrent, NothingLost, SumAhead
  <2>6. \A q : NextAhead(q) => NextAhead(q)'
    BY <1>2, <2>3 DEF NextAhead
  <2>7. NextNotLost'
    BY <2>1, <2>3, <2>6 DEF SettledInv, NextNotLost
  <2> QED
    BY <2>5, <2>7 DEF SettledInv
<1>5. CASE SumPayments(s)
  <2>1. /\ slot'[s].stage = "totalling" /\ slot'[s].snapshot = Completed /\ slot'[s].payment = slot[s].payment
        /\ \A t \in Slots \ {s} : slot'[t] = slot[t]
    BY <1>5 DEF SumPayments, Typed, TypeOK, SlotType
  <2>2. /\ Completed' = Completed /\ counted' = counted /\ progress' = progress
        /\ jobs' = jobs /\ failed' = failed
    BY <1>5 DEF SumPayments, Completed, rows, sale, queue
  <2>3. OneWorks' /\ ReadIsCurrent' /\ NothingLost'
    BY <1>2, <2>1, <2>2 DEF OneWorks, ReadIsCurrent, NothingLost, SumAhead, SumStages
  <2>4. \A q : NextAhead(q) => NextAhead(q)'
    BY <1>2, <2>1, <2>2 DEF NextAhead
  <2>5. NextNotLost'
    BY <1>2, <2>1, <2>2, <2>4 DEF SettledInv, NextNotLost
  <2> QED
    BY <2>3, <2>5 DEF SettledInv
<1>6. CASE WriteTotal(s)
  <2>1. /\ counted' = Completed /\ Completed' = Completed /\ slot[s].snapshot = Completed
        /\ progress' = progress /\ jobs' = jobs /\ failed' = failed
    BY <1>6 DEF WriteTotal, SettledInv, ReadIsCurrent, At, Completed, rows, queue
  <2>2. /\ slot'[s].stage = "progressing" /\ slot'[s].snapshot = slot[s].snapshot
        /\ slot'[s].payment = slot[s].payment
        /\ \A t \in Slots \ {s} : slot'[t].stage = "idle"
    BY <1>2, <1>6, SlotAfter DEF WriteTotal
  <2>3. OneWorks' /\ ReadIsCurrent' /\ NothingLost'
    BY <2>1, <2>2 DEF OneWorks, ReadIsCurrent, NothingLost
  <2>4. \A q : NextAhead(q) => NextAhead(q)'
    BY <1>2, <2>1, <2>2 DEF NextAhead
  <2>5. NextNotLost'
    BY <2>1, <2>4 DEF SettledInv, NextNotLost
  <2> QED
    BY <2>3, <2>5 DEF SettledInv
<1>7. CASE WriteProgress(s)
  <2>1. failures = 0 => counted = Completed \/ PostQueued
    BY <1>2, <1>7 DEF WriteProgress, At, SettledInv, NothingLost, SumAhead, SumStages
  <2>2. progress' = counted
    BY <1>7 DEF WriteProgress, At, SettledInv, ReadIsCurrent
  <2>3. /\ Completed' = Completed /\ PostQueued' = PostQueued /\ counted' = counted
        /\ jobs' = jobs /\ failed' = failed /\ failures' = failures
    BY <1>7 DEF WriteProgress, Completed, PostQueued, rows, queue
  <2>4. slot'[s].stage = "issuing" /\ \A t \in Slots \ {s} : slot'[t].stage = "idle"
    BY <1>2, <1>7, SlotAfter DEF WriteProgress
  <2>5. OneWorks' /\ ReadIsCurrent' /\ NothingLost'
    BY <2>1, <2>2, <2>3, <2>4 DEF OneWorks, ReadIsCurrent, NothingLost, SumAhead
  <2>6. \A q \in Completed : NextAhead(q) /\ q # slot[s].payment => NextAhead(q)'
    BY <1>2, <2>3 DEF NextAhead
  <2>7. slot[s].payment \in Completed /\ Kind[slot[s].payment] = "NEXT" => slot[s].payment \in counted
    BY <1>7 DEF WriteProgress, At, SettledInv, NextNotLost
  <2>8. NextNotLost'
    BY <2>2, <2>3, <2>4, <2>6, <2>7 DEF SettledInv, NextNotLost
  <2> QED
    BY <2>5, <2>8 DEF SettledInv
<1>8. CASE IssueTokens(s) \/ Finish(s)
  <2>1. failures = 0 => (counted = Completed /\ progress = Completed) \/ PostQueued
    BY <1>2, <1>8 DEF IssueTokens, Finish, At, SettledInv, NothingLost, SumAhead, SumStages
  <2>2. /\ Completed' = Completed /\ PostQueued' = PostQueued /\ failures' = failures
        /\ counted' = counted /\ progress' = progress /\ jobs' = jobs /\ failed' = failed
    BY <1>8 DEF IssueTokens, Finish, Completed, PostQueued, rows, sale, queue
  <2>3. slot'[s].stage \in {"finishing", "idle"} /\ \A t \in Slots \ {s} : slot'[t].stage = "idle"
    BY <1>2, <1>8, SlotAfter, IdleType DEF IssueTokens, Finish
  <2>4. OneWorks' /\ ReadIsCurrent' /\ NothingLost'
    BY <2>1, <2>2, <2>3 DEF OneWorks, ReadIsCurrent, NothingLost, SumAhead
  <2>5. slot[s].stage \in {"issuing", "finishing"}
    BY <1>8 DEF IssueTokens, Finish, At
  <2>6. \A q : NextAhead(q) => NextAhead(q)'
    BY <1>2, <2>2, <2>5 DEF NextAhead
  <2>7. NextNotLost'
    BY <2>2, <2>3, <2>6 DEF SettledInv, NextNotLost
  <2> QED
    BY <2>4, <2>7 DEF SettledInv
<1>9. CASE ProgressLost(s)
  <2>1. /\ Completed' = Completed /\ counted' = counted /\ progress' = progress
        /\ jobs' = jobs /\ failed' = failed /\ failures' = failures + 1 /\ failures \in Nat
        /\ Kind[slot[s].payment] = "DIRECT"
    BY <1>9 DEF ProgressLost, Completed, Typed, TypeOK, rows, sale, queue
  <2>2. slot'[s].stage = "issuing" /\ \A t \in Slots \ {s} : slot'[t].stage = "idle"
    BY <1>2, <1>9, SlotAfter DEF ProgressLost
  <2>3. OneWorks' /\ ReadIsCurrent'
    BY <2>2 DEF OneWorks, ReadIsCurrent
  <2>4. NothingLost'
    <3>1. failures' # 0
      BY <2>1
    <3> QED
      BY <3>1 DEF NothingLost
  <2>5. \A q \in Completed : NextAhead(q) /\ q # slot[s].payment => NextAhead(q)'
    BY <1>2, <2>1 DEF NextAhead
  <2>6. NextNotLost'
    BY <2>1, <2>2, <2>5 DEF SettledInv, NextNotLost
  <2> QED
    BY <2>3, <2>4, <2>6 DEF SettledInv
<1> QED
  BY <1>3, <1>4, <1>5, <1>6, <1>7, <1>8, <1>9 DEF SlotStep, PostPaymentStep

\* The job of a recorded payment that fails is kept.
LEMMA WorkerFailsSettles ==
  ASSUME Typed, KeptInv, SettledInv, Fail(Worker)
  PROVE  SettledInv'
<1> USE DEF Slots
<1>1. \A t \in Slots : slot'[t].stage = "idle"
  <2>1. \A t \in Slots : slot'[t] = IF t = Worker THEN Idle ELSE slot[t]
    BY SlotAfter DEF Fail
  <2>2. slot[Worker].stage # "idle"
    BY DEF Fail, Typed, WorkIsDefined
  <2> QED
    BY <2>1, <2>2, IdleType DEF SettledInv, OneWorks
<1>2. /\ Completed' = Completed /\ counted' = counted /\ progress' = progress
      /\ failures' = failures + 1 /\ failures \in Nat
  BY DEF Fail, Completed, Typed, TypeOK, rows, sale
<1>3. PICK job : /\ job.job = slot[Worker].job /\ job.payment = slot[Worker].payment
                 /\ (jobs \cup failed)' = jobs \cup failed \cup {job}
  <2> DEFINE last == [job |-> slot[Worker].job, payment |-> slot[Worker].payment,
                      attempts |-> slot[Worker].attempts]
             again == [last EXCEPT !.attempts = @ - 1]
  <2>1. \/ jobs' = jobs \cup {again} /\ failed' = failed
        \/ jobs' = jobs /\ failed' = failed \cup {last}
    BY DEF Fail, WorkerFails
  <2>2. /\ last.job = slot[Worker].job /\ last.payment = slot[Worker].payment
        /\ again.job = slot[Worker].job /\ again.payment = slot[Worker].payment
    OBVIOUS
  <2> HIDE DEF last, again
  <2> QED
    BY <2>1, <2>2
<1>4. slot[Worker].stage # "idle"
  BY DEF Fail, Typed, WorkIsDefined
<1>5. OneWorks' /\ ReadIsCurrent'
  BY <1>1 DEF OneWorks, ReadIsCurrent
<1>6. NothingLost'
  <2>1. failures' # 0
    BY <1>2
  <2> QED
    BY <2>1 DEF NothingLost
<1>7. \A q \in Completed : NextAhead(q) /\ Kind[q] = "NEXT" => NextAhead(q)'
  <2> SUFFICES ASSUME NEW q \in Completed, NextAhead(q), Kind[q] = "NEXT"
               PROVE  \E other \in (jobs \cup failed)' : other.job = "post" /\ other.payment = q
    BY DEF NextAhead
  <2>1. CASE \E other \in jobs \cup failed : other.job = "post" /\ other.payment = q
    BY <1>3, <2>1
  <2>2. CASE slot[Worker].payment = q
    BY <1>3, <1>4, <2>2 DEF KeptInv
  <2> QED
    BY <1>4, <2>1, <2>2 DEF NextAhead, SettledInv, OneWorks
<1>8. NextNotLost'
  BY <1>1, <1>2, <1>7 DEF SettledInv, NextNotLost
<1> QED
  BY <1>5, <1>6, <1>8 DEF SettledInv

LEMMA RunJobSettles ==
  ASSUME ~Concurrent, Typed, SettledInv, NEW job \in jobs, RunJob(job)
  PROVE  SettledInv'
<1> USE DEF Slots
<1>1. \A t \in Slots : slot[t] = Idle
  BY DEF RunJob, VerifyNothingToDo, VerifyPayment, ProcessNextPayment, TakesJob, MayStart
<1>2. failures = 0 => (counted = Completed /\ progress = Completed) \/ PostQueued
  BY <1>1, IdleType DEF SettledInv, NothingLost, SumAhead, SumStages
<1>3. /\ Completed' = Completed /\ counted' = counted /\ progress' = progress
      /\ jobs' = jobs \ {job} /\ failed' = failed /\ failures' = failures
  BY DEF RunJob, VerifyNothingToDo, VerifyPayment, ProcessNextPayment, TakesJob, Completed, rows, sale
<1>4. job.job = "verify" => PostQueued' = PostQueued
  BY <1>3 DEF PostQueued
<1>5. \A q \in Completed : Kind[q] = "NEXT" =>
        \/ q \in counted \cap progress
        \/ \E other \in jobs \cup failed : other.job = "post" /\ other.payment = q
  BY <1>1, IdleType DEF SettledInv, NextNotLost, NextAhead
<1>6. CASE VerifyNothingToDo(job)
  <2>1. slot' = slot /\ job.job = "verify"
    BY <1>6 DEF VerifyNothingToDo
  <2>2. OneWorks' /\ ReadIsCurrent' /\ NothingLost'
    BY <1>1, <1>2, <1>3, <1>4, <2>1, IdleType DEF OneWorks, ReadIsCurrent, NothingLost, SumAhead
  <2>3. NextNotLost'
    BY <1>1, <1>3, <1>5, <2>1, IdleType DEF NextNotLost, NextAhead
  <2> QED
    BY <2>2, <2>3 DEF SettledInv
<1>7. ASSUME NEW stage, TakesJob(job, stage)
      PROVE  /\ slot'[Worker].stage = stage /\ slot'[Worker].payment = job.payment
             /\ \A t \in Slots \ {Worker} : slot'[t].stage = "idle"
  <2> DEFINE work == [stage |-> stage, payment |-> job.payment, snapshot |-> {},
                      job |-> job.job, attempts |-> job.attempts]
  <2>1. work.stage = stage /\ work.payment = job.payment
    OBVIOUS
  <2>2. slot' = [slot EXCEPT ![Worker] = work]
    BY <1>7 DEF TakesJob
  <2> HIDE DEF work
  <2> QED
    BY <1>1, <2>1, <2>2, IdleType DEF Typed, TypeOK
<1>8. CASE VerifyPayment(job)
  <2>1. slot'[Worker].stage = "marking" /\ job.job = "verify"
    BY <1>7, <1>8 DEF VerifyPayment
  <2>2. \A t \in Slots \ {Worker} : slot'[t].stage = "idle"
    BY <1>7, <1>8 DEF VerifyPayment
  <2>3. OneWorks' /\ ReadIsCurrent' /\ NothingLost'
    BY <1>2, <1>3, <1>4, <2>1, <2>2 DEF OneWorks, ReadIsCurrent, NothingLost, SumAhead
  <2>4. NextNotLost'
    BY <1>3, <1>5, <2>1, <2>2 DEF NextNotLost, NextAhead
  <2> QED
    BY <2>3, <2>4 DEF SettledInv
<1>9. CASE ProcessNextPayment(job)
  <2>1. /\ slot'[Worker].stage = "summing" /\ slot'[Worker].payment = job.payment
        /\ \A t \in Slots \ {Worker} : slot'[t].stage = "idle"
    BY <1>7, <1>9 DEF ProcessNextPayment
  <2>2. OneWorks' /\ ReadIsCurrent' /\ NothingLost'
    BY <2>1 DEF OneWorks, ReadIsCurrent, NothingLost, SumAhead, SumStages
  <2>3. \A q : (\E other \in jobs \cup failed : other.job = "post" /\ other.payment = q) => NextAhead(q)'
    BY <1>3, <2>1 DEF NextAhead
  <2>4. NextNotLost'
    BY <1>3, <1>5, <2>1, <2>3 DEF NextNotLost
  <2> QED
    BY <2>2, <2>4 DEF SettledInv
<1> QED
  BY <1>6, <1>8, <1>9 DEF RunJob

LEMMA NextSettles ==
  ASSUME ~Concurrent, ~LateFailures, Crashable \subseteq {Worker}, Typed, KeptInv, SettledInv, [Next]_vars
  PROVE  SettledInv'
<1>1. ASSUME Completed' = Completed, counted' = counted, progress' = progress, slot' = slot,
             failures' = failures,
             \A job : job.job = "post" => (job \in (jobs \cup failed)' <=> job \in jobs \cup failed)
      PROVE  SettledInv'
  <2>1. PostQueued' = PostQueued /\ \A q : NextAhead(q)' = NextAhead(q)
    BY <1>1 DEF PostQueued, NextAhead
  <2> QED
    BY <1>1, <2>1 DEF SettledInv, OneWorks, ReadIsCurrent, NothingLost, NextNotLost, SumAhead
<1>2. ASSUME NEW p \in Payments, InitiatePayment(p) \/ ReceiveFailure(p)
      PROVE  SettledInv'
  <2>1. Completed' = Completed
    BY <1>2 DEF InitiatePayment, ReceiveFailure, Becomes, Completed, Typed, TypeOK
  <2> QED
    BY <1>1, <1>2, <2>1 DEF InitiatePayment, ReceiveFailure, sale, queue
<1>3. ASSUME NEW p \in Payments, RequestVerification(p)
      PROVE  SettledInv'
  <2>1. NewJob("verify", p).job # "post"
    BY DEF NewJob
  <2> QED
    BY <1>1, <1>3, <2>1 DEF RequestVerification, Completed, rows, sale
<1>4. ASSUME NEW job \in failed, RetryFailedJob(job)
      PROVE  SettledInv'
  BY <1>1, <1>4 DEF RetryFailedJob, Completed, rows, sale
<1>5. CASE UNCHANGED vars
  BY <1>1, <1>5 DEF vars, rows, sale, queue, Completed
<1>6. ASSUME NEW s \in Slots, Fail(s)
      PROVE  SettledInv'
  BY <1>6, WorkerFailsSettles DEF Fail
<1> QED
  BY <1>2, <1>3, <1>4, <1>5, <1>6, RequestStartsSettles, SlotStepSettles, RunJobSettles DEF Next

\* If requests and jobs are served one at a time and only jobs fail, then once
\* nothing is left to do, however often jobs failed at any point, ran out of
\* attempts and were retried by an operator, every recorded payment is in the
\* total and in the status; and as long as nothing failed every payment is.
THEOREM SerialSettles ==
  ~Concurrent /\ ~LateFailures /\ Crashable \subseteq {Worker} /\ Spec => []QuietMeansSettled
<1> SUFFICES ASSUME ~Concurrent, ~LateFailures, Crashable \subseteq {Worker}
             PROVE  Spec => []QuietMeansSettled
  OBVIOUS
<1>1. Init => KeptInv /\ SettledInv
  BY IdleType DEF Init, KeptInv, NextPaymentIsKept, SettledInv, OneWorks, ReadIsCurrent, NothingLost,
                  NextNotLost, Completed, Slots
<1>2. Typed /\ KeptInv /\ SettledInv /\ [Next]_vars => Typed' /\ KeptInv' /\ SettledInv'
  BY NextTyped, NextKeeps, NextSettles
<1>3. SettledInv => QuietMeansSettled
  BY IdleType DEF SettledInv, NothingLost, NextNotLost, NextAhead, QuietMeansSettled, Quiet, SumAhead,
                  SumStages, PostQueued
<1> QED
  BY <1>1, <1>2, <1>3, InitTyped, PTL DEF Spec

-----------------------------------------------------------------------------
(* The tokens of a payment are issued once *)

Online(p) == Kind[p] \in {"PAYSTACK", "OGARANYA"}

PostJobs(kept) == {job \in kept : job.job = "post"}

\* The slots that will come to the tokens of the payment.
Working(p) == {s \in Slots : slot[s].payment = p /\ slot[s].stage \notin {"idle", "finishing"}}

\* A run or a job will come to the tokens of the payment.
IssueAhead(p) == Working(p) # {} \/ \E job \in PostJobs(jobs \cup failed) : job.payment = p

\* A payment that is not online is worked on once: by one slot, or by one job
\* that waits or failed, or by the worker with that job.
WorkedOnOnce ==
  /\ ~Concurrent => OneWorks
  /\ PostJobs(jobs) \cap failed = {}
  /\ \A job, other \in PostJobs(jobs \cup failed) : job.payment = other.payment => job = other
  /\ \A s, t \in Slots :
       /\ slot[s].stage # "idle" /\ slot[t].stage # "idle" /\ slot[s].payment = slot[t].payment
       /\ ~Online(slot[s].payment)
       => s = t
  /\ \A s \in Slots, job \in PostJobs(jobs \cup failed) :
       slot[s].stage # "idle" => job.payment # slot[s].payment

\* Recorded payments have jobs, online ones are marked or verified, and what
\* is worked on beyond its first step, or has tokens, is COMPLETED.
WorkFitsPayment ==
  /\ \A job \in jobs \cup failed :
       IF job.job = "post" THEN Kind[job.payment] = "NEXT" /\ job.payment \in Completed
                           ELSE Kind[job.payment] = "PAYSTACK"
  /\ \A s \in Slots :
       slot[s].stage \notin {"idle", "marking"} => slot[s].payment \in Completed
  /\ \A s \in Slots :
       slot[s].stage = "enqueuing" => Kind[slot[s].payment] = "NEXT"
  /\ \A s \in Slots :
       slot[s].stage = "marking" => Online(slot[s].payment)
  /\ slot[Worker].stage # "idle" =>
       IF slot[Worker].job = "post"
         THEN Kind[slot[Worker].payment] = "NEXT" /\ slot[Worker].payment \in Completed
         ELSE Kind[slot[Worker].payment] = "PAYSTACK"
  /\ \A p \in Payments : issued[p] > 0 => p \in Completed

\* Nobody starts on an online payment after its first mark, so that whoever
\* issues its tokens worked on it then.
IssuedFits(p) ==
  IF Online(p)
    THEN issued[p] + Cardinality(Working(p)) <= Together
    ELSE issued[p] <= 1 + failures /\ (IssueAhead(p) => issued[p] <= failures)

OnceInv ==
  /\ WorkedOnOnce
  /\ WorkFitsPayment
  /\ \A p \in Payments : IssuedFits(p)

\* As many slots as may overlap can be working on one payment.
LEMMA TogetherBounds ==
  ASSUME NEW W \in SUBSET Slots, ~Concurrent => \A s, t \in W : s = t
  PROVE  IsFiniteSet(W) /\ Cardinality(W) \in Nat /\ Cardinality(W) <= Together
<1>1. IsFiniteSet(Slots)
  BY FS_AddElement DEF Slots
<1>2. IsFiniteSet(W) /\ Cardinality(W) <= Cardinality(Slots)
  BY <1>1, FS_Subset
<1>3. Cardinality(W) \in Nat
  BY <1>2, FS_CardinalityType
<1>4. ASSUME ~Concurrent PROVE Cardinality(W) <= 1
  <2>1. CASE W = {}
    BY <2>1, FS_EmptySet
  <2>2. ASSUME NEW s \in W PROVE Cardinality(W) <= 1
    <3>1. W = {s}
      BY <1>4, <2>2
    <3> QED
      BY <3>1, FS_Singleton
  <2> QED
    BY <2>1, <2>2
<1> QED
  BY <1>2, <1>3, <1>4 DEF Together

LEMMA WorkingIsCounted ==
  ASSUME WorkedOnOnce, NEW p \in Payments
  PROVE  IsFiniteSet(Working(p)) /\ Cardinality(Working(p)) \in Nat /\ Cardinality(Working(p)) <= Together
<1>1. ~Concurrent => \A s, t \in Working(p) : s = t
  BY DEF WorkedOnOnce, OneWorks, Working
<1> QED
  BY <1>1, TogetherBounds DEF Working

\* Where nothing is issued and nobody new works on the payment.
LEMMA IssuedFitsKept ==
  ASSUME Typed, WorkedOnOnce, NEW p \in Payments, IssuedFits(p),
         issued'[p] = issued[p], Working(p)' \subseteq Working(p),
         IssueAhead(p)' => Online(p) \/ IssueAhead(p) \/ issued[p] <= failures,
         failures' \in Nat, failures' >= failures
  PROVE  IssuedFits(p)'
<1>1. IsFiniteSet(Working(p)) /\ Cardinality(Working(p)) \in Nat
  BY WorkingIsCounted
<1>2. Cardinality(Working(p)') <= Cardinality(Working(p)) /\ Cardinality(Working(p)') \in Nat
  <2>1. IsFiniteSet(Working(p)') /\ Cardinality(Working(p)') <= Cardinality(Working(p))
    BY <1>1, FS_Subset
  <2> QED
    BY <2>1, FS_CardinalityType
<1>3. issued[p] \in Nat /\ failures \in Nat
  BY DEF Typed, TypeOK
<1>4. Together \in Nat
  <2>1. IsFiniteSet(Slots)
    BY FS_AddElement DEF Slots
  <2> QED
    BY <2>1, FS_CardinalityType DEF Together
<1>5. Together' = Together
  BY DEF Together, Slots
<1>6. CASE Online(p)
  <2>1. issued[p] + Cardinality(Working(p)) <= Together
    BY <1>6 DEF IssuedFits
  <2>2. issued'[p] + Cardinality(Working(p)') <= Together
    BY <1>1, <1>2, <1>3, <1>4, <2>1
  <2> QED
    BY <1>5, <1>6, <2>2 DEF IssuedFits, Online
<1>7. CASE ~Online(p)
  BY <1>3, <1>7 DEF IssuedFits, Online
<1> QED
  BY <1>6, <1>7

\* Where somebody starts on a payment that was not COMPLETED.
LEMMA IssuedFitsStarted ==
  ASSUME Typed, WorkFitsPayment, WorkedOnOnce', NEW p \in Payments, p \notin Completed,
         issued'[p] = issued[p], failures' = failures
  PROVE  IssuedFits(p)'
<1>1. issued[p] = 0 /\ failures \in Nat
  BY DEF WorkFitsPayment, Typed, TypeOK
<1>2. Cardinality(Working(p)') \in Nat /\ Cardinality(Working(p)') <= Together
  <2>1. ~Concurrent => \A s, t \in Working(p)' : s = t
    BY DEF WorkedOnOnce, OneWorks, Working
  <2>2. Working(p)' \in SUBSET Slots
    BY DEF Working, Slots
  <2> HIDE DEF Working
  <2> QED
    BY <2>1, <2>2, TogetherBounds
<1>3. Together' = Together
  BY DEF Together, Slots
<1> QED
  BY <1>1, <1>2, <1>3 DEF IssuedFits, Online

LEMMA RequestStartsOnce ==
  ASSUME ~LateFailures, Typed, OnceInv, NEW s \in Requests, NEW p \in Payments, RequestStarts(s, p)
  PROVE  OnceInv'
<1> USE DEF Slots
<1>1. slot[s] = Idle /\ (~Concurrent => \A t \in Slots : slot[t] = Idle)
  BY DEF RequestStarts, ReceivePaystack, ReceiveOgaranya, RecordNextPayment, PayInvoice, PurchasePower,
         Starts, MayStart
<1>2. /\ jobs' = jobs /\ failed' = failed /\ issued' = issued /\ failures' = failures
      /\ Completed \subseteq Completed' /\ p \notin Completed
  BY DEF RequestStarts, ReceivePaystack, ReceiveOgaranya, RecordNextPayment, PayInvoice, PurchasePower,
         Becomes, Completed, Typed, TypeOK, rows, sale, queue
<1>3. /\ slot'[s].payment = p /\ slot'[s].stage # "idle"
      /\ IF Online(p) THEN slot'[s].stage = "marking"
                      ELSE slot'[s].stage # "marking" /\ p \in Completed'
      /\ slot'[s].stage = "enqueuing" => Kind[p] = "NEXT"
      /\ \A t \in Slots \ {s} : slot'[t] = slot[t]
  <2>1. CASE ReceivePaystack(s, p) \/ ReceiveOgaranya(s, p)
    BY <2>1, SlotAfter DEF ReceivePaystack, ReceiveOgaranya, Online
  <2>2. CASE RecordNextPayment(s, p) \/ PayInvoice(s, p)
    <3>1. p \in Completed' /\ ~Online(p)
      BY <2>2 DEF RecordNextPayment, PayInvoice, Becomes, Completed, Typed, TypeOK, Online
    <3> QED
      BY <2>2, <3>1, SlotAfter DEF RecordNextPayment, PayInvoice
  <2>3. CASE PurchasePower(s, p)
    <3> DEFINE work == [Idle EXCEPT !.stage = "progressing", !.payment = p, !.snapshot = counted']
    <3>1. slot' = [slot EXCEPT ![s] = work] /\ p \in Completed' /\ ~Online(p)
      BY <2>3 DEF PurchasePower, Becomes, Completed, Typed, TypeOK, Online
    <3>2. work.payment = p /\ work.stage = "progressing"
      BY DEF Idle
    <3> HIDE DEF work
    <3> QED
      BY <3>1, <3>2 DEF Typed, TypeOK
  <2> QED
    BY <2>1, <2>2, <2>3 DEF RequestStarts
<1>4. \A job \in PostJobs(jobs \cup failed) : job.payment # p
  BY <1>2 DEF OnceInv, WorkFitsPayment, PostJobs
<1>5. ~Online(p) => \A t \in Slots : slot[t].stage # "idle" => slot[t].payment # p
  BY <1>2 DEF OnceInv, WorkFitsPayment
<1>6. WorkedOnOnce'
  <2>1. ~Concurrent => OneWorks'
    BY <1>1, <1>3, IdleType DEF OneWorks
  <2>2. \A t, u \in Slots :
          /\ slot'[t].stage # "idle" /\ slot'[u].stage # "idle" /\ slot'[t].payment = slot'[u].payment
          /\ ~Online(slot'[t].payment)
          => t = u
    BY <1>3, <1>5 DEF OnceInv, WorkedOnOnce
  <2>3. \A t \in Slots, job \in PostJobs(jobs \cup failed) :
          slot'[t].stage # "idle" => job.payment # slot'[t].payment
    <3>1. \A t \in Slots, job \in PostJobs(jobs \cup failed) :
            slot[t].stage # "idle" => job.payment # slot[t].payment
      BY DEF OnceInv, WorkedOnOnce
    <3> QED
      BY <1>3, <1>4, <3>1
  <2> QED
    BY <1>2, <2>1, <2>2, <2>3 DEF OnceInv, WorkedOnOnce, PostJobs, Online
<1>7. WorkFitsPayment'
  <2>1. s # Worker
    OBVIOUS
  <2>2. slot'[Worker] = slot[Worker]
    BY <1>3, <2>1
  <2>3. \A t \in Slots :
          /\ slot'[t].stage \notin {"idle", "marking"} => slot'[t].payment \in Completed'
          /\ slot'[t].stage = "enqueuing" => Kind[slot'[t].payment] = "NEXT"
          /\ slot'[t].stage = "marking" => Online(slot'[t].payment)
    BY <1>2, <1>3 DEF OnceInv, WorkFitsPayment
  <2> QED
    BY <1>2, <2>2, <2>3 DEF OnceInv, WorkFitsPayment, Online
<1>8. \A q \in Payments \ {p} : Working(q)' = Working(q) /\ IssueAhead(q)' = IssueAhead(q)
  <2>1. slot[s].stage = "idle"
    BY <1>1, IdleType
  <2>2. \A q \in Payments \ {p} : Working(q)' = Working(q)
    BY <1>3, <2>1 DEF Working
  <2> QED
    BY <1>2, <2>2 DEF IssueAhead, PostJobs
<1>9. \A q \in Payments : IssuedFits(q)'
  <2>1. IssuedFits(p)'
    BY <1>2, <1>6, IssuedFitsStarted DEF OnceInv
  <2>2. ASSUME NEW q \in Payments \ {p} PROVE IssuedFits(q)'
    <3>1. failures \in Nat
      BY DEF Typed, TypeOK
    <3> QED
      BY <1>2, <1>8, <3>1, IssuedFitsKept DEF OnceInv
  <2> QED
    BY <2>1, <2>2
<1> QED
  BY <1>6, <1>7, <1>9 DEF OnceInv

\* The steps after which a slot has only moved to another stage.
LEMMA StageMoveOnce ==
  ASSUME Typed, OnceInv, NEW s \in Slots,
         NEW stage \in {"recording", "summing", "totalling", "progressing", "issuing", "finishing"},
         slot[s].stage \notin {"idle", "finishing", "enqueuing"},
         \A t \in Slots : /\ slot'[t].payment = slot[t].payment
                          /\ slot'[t].job = slot[t].job
                          /\ slot'[t].stage = IF t = s THEN stage ELSE slot[t].stage,
         Completed \subseteq Completed', slot[s].payment \in Completed',
         jobs' = jobs, failed' = failed,
         \A p \in Payments : issued'[p] > 0 => issued[p] > 0 \/ p = slot[s].payment
  PROVE  /\ WorkedOnOnce' /\ WorkFitsPayment'
         /\ \A p \in Payments : Working(p)' = IF stage = "finishing" THEN Working(p) \ {s} ELSE Working(p)
<1> USE DEF Slots
<1>1. WorkedOnOnce'
  BY DEF OnceInv, WorkedOnOnce, OneWorks, PostJobs, Online
<1>2. WorkFitsPayment'
  BY DEF OnceInv, WorkFitsPayment, Online
<1>3. \A p \in Payments : Working(p)' = IF stage = "finishing" THEN Working(p) \ {s} ELSE Working(p)
  BY DEF Working
<1> QED
  BY <1>1, <1>2, <1>3

LEMMA SlotStepOnce ==
  ASSUME Typed, OnceInv, NEW s \in Slots, SlotStep(s)
  PROVE  OnceInv'
<1> USE DEF Slots
<1>1. slot[s].stage # "idle" /\ slot[s].payment \in Payments /\ slot \in [Slots -> SlotType]
  BY DEF Typed, TypeOK, WorkIsDefined, SlotStep, PostPaymentStep, MarkCompleted, RecordResponse,
         EnqueueNextPayment, SumPayments, WriteTotal, WriteProgress, ProgressLost, IssueTokens, Finish, At
<1>2. failures \in Nat /\ \A q \in Payments : issued[q] \in Nat
  BY DEF Typed, TypeOK
<1>3. CASE MarkCompleted(s) \/ RecordResponse(s) \/ WriteTotal(s) \/ WriteProgress(s) \/ ProgressLost(s) \/ SumPayments(s)
  <2>1. Completed \subseteq Completed' /\ jobs' = jobs /\ failed' = failed /\ issued' = issued
    BY <1>3 DEF MarkCompleted, RecordResponse, WriteTotal, WriteProgress, ProgressLost, SumPayments, Becomes,
                Completed, Typed, TypeOK, rows, sale, queue
  <2>2. failures' \in Nat /\ failures' >= failures
    BY <1>2, <1>3 DEF MarkCompleted, RecordResponse, WriteTotal, WriteProgress, ProgressLost, SumPayments
  <2>3. /\ slot[s].stage \in {"marking", "recording", "summing", "totalling", "progressing"}
        /\ slot[s].payment \in Completed'
    <3>1. CASE MarkCompleted(s)
      BY <1>1, <3>1 DEF MarkCompleted, At, Becomes, Completed, Typed, TypeOK
    <3> QED
      BY <1>3, <2>1, <3>1 DEF RecordResponse, WriteTotal, WriteProgress, ProgressLost, SumPayments, At,
                              OnceInv, WorkFitsPayment
  <2>4. PICK stage \in {"recording", "summing", "totalling", "progressing", "issuing"} :
          \A t \in Slots : /\ slot'[t].payment = slot[t].payment
                           /\ slot'[t].job = slot[t].job
                           /\ slot'[t].stage = IF t = s THEN stage ELSE slot[t].stage
    <3>1. CASE SumPayments(s)
      BY <1>1, <3>1 DEF SumPayments, SlotType
    <3> QED
      BY <1>3, <3>1, SlotAfter DEF MarkCompleted, RecordResponse, WriteTotal, WriteProgress, ProgressLost
  <2>5. /\ slot[s].stage \notin {"idle", "finishing", "enqueuing"}
        /\ stage \in {"recording", "summing", "totalling", "progressing", "issuing", "finishing"}
    BY <2>3
  <2> HIDE DEF Slots
  <2>6. /\ WorkedOnOnce' /\ WorkFitsPayment'
        /\ \A p \in Payments : Working(p)' = IF stage = "finishing" THEN Working(p) \ {s} ELSE Working(p)
    BY <2>1, <2>3, <2>4, <2>5, StageMoveOnce
  <2>7. ASSUME NEW p \in Payments PROVE IssuedFits(p)'
    <3>1. Working(p)' = Working(p)
      BY <2>6
    <3>2. IssueAhead(p)' = IssueAhead(p)
      BY <2>1, <3>1 DEF IssueAhead, PostJobs
    <3> QED
      BY <2>1, <2>2, <3>1, <3>2, IssuedFitsKept DEF OnceInv
  <2> QED
    BY <2>6, <2>7 DEF OnceInv
<1>4. CASE IssueTokens(s)
  <2>0. PICK p \in Payments : p = slot[s].payment
    BY <1>1
  <2>1. /\ Completed' = Completed /\ jobs' = jobs /\ failed' = failed /\ failures' = failures
        /\ slot[s].stage = "issuing" /\ p \in Completed
        /\ issued'[p] = issued[p] + 1 /\ \A q \in Payments \ {p} : issued'[q] = issued[q]
    BY <1>1, <1>2, <1>4, <2>0 DEF IssueTokens, At, OnceInv, WorkFitsPayment, Completed, rows, queue, Typed, TypeOK
  <2>2. \A t \in Slots : /\ slot'[t].payment = slot[t].payment
                         /\ slot'[t].job = slot[t].job
                         /\ slot'[t].stage = IF t = s THEN "finishing" ELSE slot[t].stage
    BY <1>4, SlotAfter DEF IssueTokens
  <2>3. /\ WorkedOnOnce' /\ WorkFitsPayment'
        /\ \A q \in Payments : Working(q)' = Working(q) \ {s}
    <3>1. \A q \in Payments : issued'[q] > 0 => issued[q] > 0 \/ q = slot[s].payment
      BY <2>0, <2>1
    <3>2. slot[s].stage \notin {"idle", "finishing", "enqueuing"}
      BY <2>1
    <3> HIDE DEF Slots
    <3> QED
      BY <2>0, <2>1, <2>2, <3>1, <3>2, StageMoveOnce
  <2>4. s \in Working(p)
    BY <2>0, <2>1 DEF Working
  <2>5. IssuedFits(p)'
    <3>1. CASE Online(p)
      <4>1. IsFiniteSet(Working(p)) /\ Cardinality(Working(p)) \in Nat
        BY <1>1, WorkingIsCounted DEF OnceInv
      <4>2. Cardinality(Working(p)') = Cardinality(Working(p)) - 1
        BY <1>1, <2>3, <2>4, <4>1, FS_RemoveElement
      <4>3. issued[p] + Cardinality(Working(p)) <= Together
        BY <1>1, <3>1 DEF OnceInv, IssuedFits
      <4>4. Together \in Nat /\ Together' = Together
        <5>1. IsFiniteSet(Slots)
          BY FS_AddElement
        <5> QED
          BY <5>1, FS_CardinalityType DEF Together
      <4>5. issued'[p] + Cardinality(Working(p)') <= Together
        BY <1>1, <1>2, <2>1, <4>1, <4>2, <4>3, <4>4
      <4> QED
        BY <3>1, <4>4, <4>5 DEF IssuedFits, Online
    <3>2. CASE ~Online(p)
      <4>1. IssueAhead(p)
        BY <2>4 DEF IssueAhead
      <4>2. issued[p] <= failures
        BY <1>1, <3>2, <4>1 DEF OnceInv, IssuedFits
      <4>3. ~IssueAhead(p)'
        <5>1. Working(p)' = {}
          BY <1>1, <2>0, <2>1, <2>3, <3>2 DEF OnceInv, WorkedOnOnce, Working
        <5>2. \A job \in PostJobs(jobs \cup failed) : job.payment # p
          BY <1>1, <2>0 DEF OnceInv, WorkedOnOnce
        <5> QED
          BY <2>1, <5>1, <5>2 DEF IssueAhead, PostJobs
      <4> QED
        BY <1>1, <1>2, <2>1, <3>2, <4>2, <4>3 DEF IssuedFits, Online
    <3> QED
      BY <3>1, <3>2
  <2>6. ASSUME NEW q \in Payments \ {p} PROVE IssuedFits(q)'
    <3>1. Working(q)' \subseteq Working(q) /\ (IssueAhead(q)' => IssueAhead(q))
      BY <2>1, <2>3 DEF IssueAhead, PostJobs
    <3> QED
      BY <1>2, <2>1, <3>1, IssuedFitsKept DEF OnceInv
  <2> QED
    BY <2>2, <2>3, <2>5, <2>6 DEF OnceInv
<1>5. CASE EnqueueNextPayment(s)
  <2> DEFINE p == slot[s].payment
  <2>1. PICK job : job = NewJob("post", p)
    OBVIOUS
  <2>2. job.job = "post" /\ job.payment = p
    BY <2>1 DEF NewJob
  <2>3. /\ jobs' = jobs \cup {job} /\ failed' = failed /\ issued' = issued /\ failures' = failures
        /\ Completed' = Completed /\ p \in Completed /\ Kind[p] = "NEXT" /\ slot[s].stage = "enqueuing"
    BY <1>5, <2>1 DEF EnqueueNextPayment, At, Completed, OnceInv, WorkFitsPayment, rows, sale
  <2>4. \A t \in Slots : slot'[t] = IF t = s THEN Idle ELSE slot[t]
    BY <1>5, SlotAfter DEF EnqueueNextPayment
  <2>5. PostJobs((jobs \cup failed)') = PostJobs(jobs \cup failed) \cup {job}
    BY <2>2, <2>3 DEF PostJobs
  <2>6. \A other \in PostJobs(jobs \cup failed) : other.payment # p
    BY <1>1 DEF OnceInv, WorkedOnOnce
  <2>7. (PostJobs(jobs) \cap failed)' = {}
    BY <2>2, <2>3, <2>6 DEF OnceInv, WorkedOnOnce, PostJobs
  <2>8. \A t \in Slots : slot'[t].stage # "idle" => slot'[t].payment # p /\ slot'[t] = slot[t]
    <3>1. ~Online(p)
      BY <2>3 DEF Online
    <3> QED
      BY <1>1, <2>4, <3>1, IdleType DEF OnceInv, WorkedOnOnce
  <2>9. WorkedOnOnce'
    <3>1. \A j, other \in PostJobs(jobs \cup failed)' : j.payment = other.payment => j = other
      BY <2>2, <2>5, <2>6 DEF OnceInv, WorkedOnOnce
    <3>2. \A t \in Slots, j \in PostJobs(jobs \cup failed)' :
            slot'[t].stage # "idle" => j.payment # slot'[t].payment
      BY <2>2, <2>5, <2>8 DEF OnceInv, WorkedOnOnce
    <3> QED
      BY <2>4, <2>7, <2>8, <3>1, <3>2, IdleType DEF OnceInv, WorkedOnOnce, OneWorks, Online
  <2>10. WorkFitsPayment'
    BY <2>2, <2>3, <2>4, IdleType DEF OnceInv, WorkFitsPayment, Online
  <2>11. \A q \in Payments : Working(q)' \subseteq Working(q) /\ (IssueAhead(q)' => IssueAhead(q))
    <3>1. \A q \in Payments : Working(q)' \subseteq Working(q)
      BY <2>4, IdleType DEF Working
    <3>2. s \in Working(p)
      BY <2>3 DEF Working
    <3> QED
      BY <2>2, <2>5, <3>1, <3>2 DEF IssueAhead
  <2>12. ASSUME NEW q \in Payments PROVE IssuedFits(q)'
    BY <1>2, <2>3, <2>11, IssuedFitsKept DEF OnceInv
  <2> QED
    BY <2>9, <2>10, <2>12 DEF OnceInv
<1>6. CASE Finish(s)
  <2>1. \A t \in Slots : slot'[t] = IF t = s THEN Idle ELSE slot[t]
    BY <1>6, SlotAfter DEF Finish
  <2>2. /\ Completed' = Completed /\ jobs' = jobs /\ failed' = failed
        /\ issued' = issued /\ failures' = failures
    BY <1>6 DEF Finish, Completed, rows, sale, queue
  <2>3. WorkedOnOnce' /\ WorkFitsPayment'
    BY <2>1, <2>2, IdleType DEF OnceInv, WorkedOnOnce, OneWorks, WorkFitsPayment, PostJobs, Online
  <2>4. \A q \in Payments : Working(q)' \subseteq Working(q)
    BY <2>1, IdleType DEF Working
  <2>5. \A q \in Payments : IssueAhead(q)' => IssueAhead(q)
    BY <2>2, <2>4 DEF IssueAhead, PostJobs
  <2>6. ASSUME NEW q \in Payments PROVE IssuedFits(q)'
    BY <1>2, <2>2, <2>4, <2>5, IssuedFitsKept DEF OnceInv
  <2> QED
    BY <2>3, <2>6 DEF OnceInv
<1> QED
  BY <1>3, <1>4, <1>5, <1>6 DEF SlotStep, PostPaymentStep

LEMMA FailOnce ==
  ASSUME Typed, OnceInv, NEW s \in Slots, Fail(s)
  PROVE  OnceInv'
<1> USE DEF Slots
<1>1. slot[s].stage # "idle"
  BY DEF Fail, Typed, WorkIsDefined
<1>2. \A t \in Slots : slot'[t] = IF t = s THEN Idle ELSE slot[t]
  BY SlotAfter DEF Fail
<1>3. /\ issued' = issued /\ Completed' = Completed /\ failures' = failures + 1
      /\ failures \in Nat /\ \A q \in Payments : issued[q] \in Nat
  BY DEF Fail, Completed, rows, sale, Typed, TypeOK
<1>4. \A q \in Payments : Working(q)' \subseteq Working(q)
  BY <1>2, IdleType DEF Working
<1>5. ASSUME NEW q \in Payments, IssueAhead(q)' => Online(q) \/ IssueAhead(q) \/ issued[q] <= failures
      PROVE  IssuedFits(q)'
  <2>1. failures' \in Nat /\ failures' >= failures
    BY <1>3
  <2> QED
    BY <1>3, <1>4, <1>5, <2>1, IssuedFitsKept DEF OnceInv
<1>6. ASSUME NEW q \in Payments, ~Online(q)
      PROVE  IssuedFits(q)'
  BY <1>3, <1>6 DEF OnceInv, IssuedFits, Online
<1>7. CASE jobs' = jobs /\ failed' = failed
  <2>1. WorkedOnOnce' /\ WorkFitsPayment'
    BY <1>2, <1>3, <1>7, IdleType DEF OnceInv, WorkedOnOnce, OneWorks, WorkFitsPayment, PostJobs, Online
  <2> QED
    BY <1>5, <1>6, <2>1 DEF OnceInv
<1>8. CASE s = Worker
  <2> DEFINE p == slot[Worker].payment
  <2>1. PICK job : /\ job.job = slot[Worker].job /\ job.payment = p
                   /\ \/ jobs' = jobs \cup {job} /\ failed' = failed
                      \/ jobs' = jobs /\ failed' = failed \cup {job}
    <3> DEFINE last == [job |-> slot[Worker].job, payment |-> slot[Worker].payment,
                        attempts |-> slot[Worker].attempts]
               again == [last EXCEPT !.attempts = @ - 1]
    <3>1. \/ jobs' = jobs \cup {again} /\ failed' = failed
          \/ jobs' = jobs /\ failed' = failed \cup {last}
      BY <1>8 DEF Fail, WorkerFails
    <3>2. /\ last.job = slot[Worker].job /\ last.payment = p
          /\ again.job = slot[Worker].job /\ again.payment = p
      OBVIOUS
    <3> HIDE DEF last, again
    <3> QED
      BY <3>1, <3>2
  <2>2. \A other \in PostJobs(jobs \cup failed) : other.payment # p
    BY <1>1, <1>8 DEF OnceInv, WorkedOnOnce
  <2>3. IF job.job = "post" THEN Kind[p] = "NEXT" /\ p \in Completed ELSE Kind[p] = "PAYSTACK"
    BY <1>1, <1>8, <2>1 DEF OnceInv, WorkFitsPayment
  <2>4. PostJobs(jobs \cup failed)' \subseteq PostJobs(jobs \cup failed) \cup {job}
    BY <2>1 DEF PostJobs
  <2>5. WorkedOnOnce'
    <3>1. (PostJobs(jobs) \cap failed)' = {}
      BY <2>1, <2>2 DEF OnceInv, WorkedOnOnce, PostJobs
    <3>2. \A j, other \in PostJobs(jobs \cup failed)' : j.payment = other.payment => j = other
      BY <2>1, <2>2, <2>4 DEF OnceInv, WorkedOnOnce
    <3>3. job \in PostJobs(jobs \cup failed)' => \A t \in Slots : slot'[t].stage # "idle" => slot'[t].payment # p
      <4>1. job \in PostJobs(jobs \cup failed)' => ~Online(p)
        BY <2>3 DEF PostJobs, Online
      <4> QED
        BY <1>1, <1>2, <1>8, <4>1, IdleType DEF OnceInv, WorkedOnOnce
    <3>4. \A t \in Slots, j \in PostJobs(jobs \cup failed)' :
            slot'[t].stage # "idle" => j.payment # slot'[t].payment
      BY <1>2, <2>1, <2>4, <3>3, IdleType DEF OnceInv, WorkedOnOnce
    <3> QED
      BY <1>2, <3>1, <3>2, <3>4, IdleType DEF OnceInv, WorkedOnOnce, OneWorks, Online
  <2>6. WorkFitsPayment'
    BY <1>2, <1>3, <1>8, <2>1, <2>3, IdleType DEF OnceInv, WorkFitsPayment, Online
  <2> QED
    BY <1>5, <1>6, <2>5, <2>6 DEF OnceInv
<1> QED
  BY <1>7, <1>8 DEF Fail, queue

LEMMA RunJobOnce ==
  ASSUME Typed, OnceInv, NEW job \in jobs, RunJob(job)
  PROVE  OnceInv'
<1> USE DEF Slots
<1>1. slot[Worker] = Idle /\ (~Concurrent => \A t \in Slots : slot[t] = Idle)
  BY DEF RunJob, VerifyNothingToDo, VerifyPayment, ProcessNextPayment, TakesJob, MayStart
<1>2. /\ Completed' = Completed /\ issued' = issued /\ failures' = failures
      /\ jobs' = jobs \ {job} /\ failed' = failed
  BY DEF RunJob, VerifyNothingToDo, VerifyPayment, ProcessNextPayment, TakesJob, Completed, rows, sale
<1>3. /\ (PostJobs(jobs) \cap failed)' = {}
      /\ PostJobs(jobs \cup failed)' \subseteq PostJobs(jobs \cup failed)
      /\ job.job = "post" => job \notin PostJobs(jobs \cup failed)'
  BY <1>2 DEF OnceInv, WorkedOnOnce, PostJobs
<1>4. job.payment \in Payments /\ job.job \in {"verify", "post"} /\ failures \in Nat
  BY DEF Typed, TypeOK, JobType
<1>5. CASE VerifyNothingToDo(job)
  <2>1. slot' = slot
    BY <1>5 DEF VerifyNothingToDo
  <2>2. WorkedOnOnce'
    BY <1>3, <2>1 DEF OnceInv, WorkedOnOnce, OneWorks, Online
  <2>3. WorkFitsPayment'
    BY <1>2, <2>1 DEF OnceInv, WorkFitsPayment, Online
  <2>4. \A q \in Payments : Working(q)' = Working(q) /\ (IssueAhead(q)' => IssueAhead(q))
    BY <1>3, <2>1 DEF IssueAhead, Working
  <2>5. ASSUME NEW q \in Payments PROVE IssuedFits(q)'
    BY <1>2, <1>4, <2>4, IssuedFitsKept DEF OnceInv
  <2> QED
    BY <2>2, <2>3, <2>5 DEF OnceInv
<1>6. ASSUME NEW stage \in {"marking", "summing"}, TakesJob(job, stage)
      PROVE  /\ slot'[Worker].stage = stage /\ slot'[Worker].payment = job.payment
             /\ slot'[Worker].job = job.job
             /\ \A t \in Slots \ {Worker} : slot'[t] = slot[t]
  <2> DEFINE work == [stage |-> stage, payment |-> job.payment, snapshot |-> {},
                      job |-> job.job, attempts |-> job.attempts]
  <2>1. work.stage = stage /\ work.payment = job.payment /\ work.job = job.job
    OBVIOUS
  <2>2. slot' = [slot EXCEPT ![Worker] = work]
    BY <1>6 DEF TakesJob
  <2> HIDE DEF work
  <2> QED
    BY <2>1, <2>2 DEF Typed, TypeOK
<1>7. CASE VerifyPayment(job) \/ ProcessNextPayment(job)
  <2>1. PICK stage \in {"marking", "summing"} :
          /\ TakesJob(job, stage)
          /\ IF job.job = "post" THEN stage = "summing"
                                 ELSE stage = "marking" /\ job.payment \notin Completed
    BY <1>7 DEF VerifyPayment, ProcessNextPayment, Completed
  <2>2. /\ slot'[Worker].stage = stage /\ slot'[Worker].payment = job.payment
        /\ slot'[Worker].job = job.job
        /\ \A t \in Slots \ {Worker} : slot'[t] = slot[t]
    BY <1>6, <2>1
  <2>3. IF job.job = "post" THEN Kind[job.payment] = "NEXT" /\ job.payment \in Completed
                            ELSE Kind[job.payment] = "PAYSTACK"
    BY DEF OnceInv, WorkFitsPayment
  <2>4. job.job = "post" <=> ~Online(job.payment)
    BY <2>3 DEF Online
  <2>5. job.job = "post" => job \in PostJobs(jobs \cup failed)
    BY DEF PostJobs
  <2>6. \A other \in PostJobs(jobs \cup failed)' : other.payment # job.payment
    <3>1. CASE job.job = "post"
      BY <1>3, <2>5, <3>1 DEF OnceInv, WorkedOnOnce
    <3>2. CASE job.job # "post"
      BY <1>3, <2>3, <3>2 DEF OnceInv, WorkFitsPayment, PostJobs
    <3> QED
      BY <3>1, <3>2
  <2>7. job.job = "post" => \A t \in Slots : slot[t].stage # "idle" => slot[t].payment # job.payment
    BY <2>5 DEF OnceInv, WorkedOnOnce
  <2>8. WorkedOnOnce'
    <3>1. ~Concurrent => OneWorks'
      BY <1>1, <2>2, IdleType DEF OneWorks
    <3>2. \A t, u \in Slots :
            /\ slot'[t].stage # "idle" /\ slot'[u].stage # "idle" /\ slot'[t].payment = slot'[u].payment
            /\ ~Online(slot'[t].payment)
            => t = u
      BY <2>2, <2>4, <2>7 DEF OnceInv, WorkedOnOnce
    <3>3. \A t \in Slots, other \in PostJobs(jobs \cup failed)' :
            slot'[t].stage # "idle" => other.payment # slot'[t].payment
      BY <1>3, <2>2, <2>6 DEF OnceInv, WorkedOnOnce
    <3>4. \A j, other \in PostJobs(jobs \cup failed)' : j.payment = other.payment => j = other
      BY <1>3 DEF OnceInv, WorkedOnOnce
    <3> QED
      BY <1>3, <3>1, <3>2, <3>3, <3>4 DEF WorkedOnOnce, Online
  <2>9. WorkFitsPayment'
    <3>1. slot'[Worker].stage = "marking" \/ slot'[Worker].payment \in Completed
      BY <2>1, <2>2, <2>3
    <3>2. slot'[Worker].stage = "marking" => Online(slot'[Worker].payment)
      BY <2>1, <2>2, <2>4
    <3>3. \A t \in Slots :
            /\ slot'[t].stage \notin {"idle", "marking"} => slot'[t].payment \in Completed'
            /\ slot'[t].stage = "enqueuing" => Kind[slot'[t].payment] = "NEXT"
            /\ slot'[t].stage = "marking" => Online(slot'[t].payment)
      BY <1>2, <2>2, <3>1, <3>2 DEF OnceInv, WorkFitsPayment
    <3> QED
      BY <1>2, <2>2, <2>3, <3>3 DEF OnceInv, WorkFitsPayment, Online
  <2>10. \A q \in Payments \ {job.payment} : Working(q)' = Working(q) /\ (IssueAhead(q)' => IssueAhead(q))
    <3>1. slot[Worker].stage = "idle"
      BY <1>1, IdleType
    <3>2. \A q \in Payments \ {job.payment} : Working(q)' = Working(q)
      BY <2>2, <3>1 DEF Working
    <3> QED
      BY <1>3, <3>2 DEF IssueAhead
  <2>11. IssuedFits(job.payment)'
    <3>1. CASE job.job = "post"
      <4>1. IssueAhead(job.payment)
        BY <2>5, <3>1 DEF IssueAhead
      <4> QED
        BY <1>2, <1>4, <2>4, <3>1, <4>1 DEF OnceInv, IssuedFits, Online
    <3>2. CASE job.job # "post"
      BY <1>2, <1>4, <2>1, <2>8, <3>2, IssuedFitsStarted DEF OnceInv
    <3> QED
      BY <3>1, <3>2
  <2>12. ASSUME NEW q \in Payments \ {job.payment} PROVE IssuedFits(q)'
    BY <1>2, <1>4, <2>10, IssuedFitsKept DEF OnceInv
  <2> QED
    BY <2>8, <2>9, <2>11, <2>12 DEF OnceInv
<1> QED
  BY <1>5, <1>7 DEF RunJob

LEMMA NextOnce ==
  ASSUME ~LateFailures, Typed, OnceInv, [Next]_vars
  PROVE  OnceInv'
<1>1. ASSUME Completed' = Completed, issued' = issued, slot' = slot, failures' = failures,
             PostJobs(jobs)' \cap failed' = {}, PostJobs(jobs \cup failed)' = PostJobs(jobs \cup failed),
             \A job \in (jobs \cup failed)' :
               job \in jobs \cup failed \/ (job.job # "post" /\ Kind[job.payment] = "PAYSTACK")
      PROVE  OnceInv'
  <2>1. WorkedOnOnce'
    BY <1>1 DEF OnceInv, WorkedOnOnce, OneWorks, Slots, Online
  <2>2. WorkFitsPayment'
    BY <1>1 DEF OnceInv, WorkFitsPayment, Slots, Online
  <2>3. \A q \in Payments : IssuedFits(q)'
    BY <1>1 DEF OnceInv, IssuedFits, IssueAhead, Working, Together, Slots, Online
  <2> QED
    BY <2>1, <2>2, <2>3 DEF OnceInv
<1>2. ASSUME NEW p \in Payments, InitiatePayment(p) \/ ReceiveFailure(p)
      PROVE  OnceInv'
  <2>1. Completed' = Completed
    BY <1>2 DEF InitiatePayment, ReceiveFailure, Becomes, Completed, Typed, TypeOK
  <2>2. /\ issued' = issued /\ slot' = slot /\ failures' = failures
        /\ jobs' = jobs /\ failed' = failed
    BY <1>2 DEF InitiatePayment, ReceiveFailure, sale, queue
  <2> QED
    BY <1>1, <2>1, <2>2 DEF OnceInv, WorkedOnOnce, PostJobs
<1>3. ASSUME NEW p \in Payments, RequestVerification(p)
      PROVE  OnceInv'
  <2>1. PICK job : job = NewJob("verify", p)
    OBVIOUS
  <2>2. job.job = "verify" /\ job.payment = p
    BY <2>1 DEF NewJob
  <2>3. /\ jobs' = jobs \cup {job} /\ failed' = failed /\ Kind[p] = "PAYSTACK"
        /\ issued' = issued /\ slot' = slot /\ failures' = failures /\ Completed' = Completed
    BY <1>3, <2>1 DEF RequestVerification, Completed, rows, sale
  <2>4. PostJobs(jobs') = PostJobs(jobs) /\ PostJobs(jobs \cup failed)' = PostJobs(jobs \cup failed)
    BY <2>2, <2>3 DEF PostJobs
  <2> QED
    BY <1>1, <2>2, <2>3, <2>4 DEF OnceInv, WorkedOnOnce
<1>4. ASSUME NEW job \in failed, RetryFailedJob(job)
      PROVE  OnceInv'
  <2>1. /\ jobs' = jobs \cup {job} /\ failed' = failed \ {job}
        /\ issued' = issued /\ slot' = slot /\ failures' = failures /\ Completed' = Completed
    BY <1>4 DEF RetryFailedJob, Completed, rows, sale
  <2>2. (jobs \cup failed)' = jobs \cup failed
    BY <2>1
  <2>3. (PostJobs(jobs) \cap failed)' = {}
    BY <2>1 DEF OnceInv, WorkedOnOnce, PostJobs
  <2> QED
    BY <1>1, <2>1, <2>2, <2>3 DEF PostJobs
<1>5. CASE UNCHANGED vars
  BY <1>1, <1>5 DEF vars, rows, sale, queue, Completed, OnceInv, WorkedOnOnce, PostJobs
<1> QED
  BY <1>2, <1>3, <1>4, <1>5, RequestStartsOnce, SlotStepOnce, FailOnce, RunJobOnce DEF Next

LEMMA InitOnce == Init => OnceInv
<1> SUFFICES ASSUME Init PROVE OnceInv
  OBVIOUS
<1>1. \A s \in Slots : slot[s].stage = "idle"
  BY IdleType DEF Init
<1>2. jobs = {} /\ failed = {} /\ failures = 0 /\ \A p \in Payments : issued[p] = 0
  BY DEF Init
<1>3. WorkedOnOnce
  BY <1>1, <1>2 DEF WorkedOnOnce, OneWorks, PostJobs
<1>4. WorkFitsPayment
  BY <1>1, <1>2 DEF WorkFitsPayment, Slots
<1>5. ASSUME NEW p \in Payments PROVE IssuedFits(p)
  BY <1>2, <1>3, <1>5, WorkingIsCounted DEF IssuedFits
<1> QED
  BY <1>3, <1>4, <1>5 DEF OnceInv

\* As long as no failure follows a success, whatever requests and jobs
\* overlap, fail and are retried, the tokens of an online payment are issued
\* at most as often as handlers can overlap, so once if they are served one
\* at a time; those of a payment recorded at once are issued once, and at most
\* once more for every failure.
THEOREM TokensIssuedOnce ==
  ~LateFailures /\ Spec => []IssuedOnce
<1> SUFFICES ASSUME ~LateFailures PROVE Spec => []IssuedOnce
  OBVIOUS
<1>1. Typed /\ OnceInv /\ [Next]_vars => Typed' /\ OnceInv'
  BY NextTyped, NextOnce
<1>2. Typed /\ OnceInv => IssuedOnce
  <2> SUFFICES ASSUME Typed, OnceInv, NEW p \in Payments
               PROVE  issued[p] <= IF Online(p) THEN Together ELSE 1 + failures
    BY DEF IssuedOnce, Online
  <2>1. IssuedFits(p) /\ issued[p] \in Nat
    BY DEF OnceInv, Typed, TypeOK
  <2>2. Cardinality(Working(p)) \in Nat
    BY WorkingIsCounted DEF OnceInv
  <2>3. Together \in Nat
    <3>1. IsFiniteSet(Slots)
      BY FS_AddElement DEF Slots
    <3> QED
      BY <3>1, FS_CardinalityType DEF Together
  <2> QED
    BY <2>1, <2>2, <2>3 DEF IssuedFits
<1> QED
  BY <1>1, <1>2, InitTyped, InitOnce, PTL DEF Spec

=============================================================================
