-------------------------- MODULE PaymentCorrection ------------------------
(***************************************************************************)
(* The correction of missing payments: a job that gives every sale a       *)
(* payment for each code of its devices, one row at a time, and then adds  *)
(* their amounts to the total it read before.  The job goes on to process  *)
(* a row it does not have, so every attempt of it fails and is repeated.   *)
(*                                                                         *)
(* A code is worth one unit.                                               *)
(***************************************************************************)
EXTENDS Integers

CONSTANTS
  CodeDevices,           \* devices that have codes
  SoldIn,                \* the sale of each
  CodesOf,               \* bound: the most codes of each
  CorrectionAttempts,
  PayMeanwhile,          \* whether sales are paid for while the job runs
  MaxCorrectionFailures  \* bound: failed queries and deaths

Sold == {SoldIn[d] : d \in CodeDevices}

ASSUME CorrectionAssumption ==
  /\ CodesOf \in [CodeDevices -> Nat \ {0}]
  /\ CorrectionAttempts \in Nat \ {0} /\ PayMeanwhile \in BOOLEAN /\ MaxCorrectionFailures \in Nat

VARIABLES
  codes,        \* codes each device has
  payments,     \* payments each sale has
  totalPaid,    \* totalPaid of each sale
  correction,   \* the job: its state, the attempts left, and what it has read
  asked,        \* whether it was ever queued
  failures      \* failed queries and deaths so far

correctionVars == <<codes, payments, totalPaid, correction, asked, failures>>

Quiet == [state |-> "none", left |-> 0]
Snapshot == [CodeDevices -> Nat]

CorrectionTypeOK ==
  /\ codes \in [CodeDevices -> Nat]
  /\ payments \in [Sold -> Nat] /\ totalPaid \in [Sold -> Nat]
  /\ correction = Quiet
     \/ correction \in [state : {"waiting"}, left : 1 .. CorrectionAttempts]
     \/ correction \in [state : {"running"}, left : 1 .. CorrectionAttempts, seen : Snapshot,
                        todo : SUBSET CodeDevices]
     \/ correction \in [state : {"paying"}, left : 1 .. CorrectionAttempts, seen : Snapshot,
                        todo : SUBSET CodeDevices, device : CodeDevices, missing : Nat, added : Nat, total : Nat]
  /\ asked \in BOOLEAN /\ failures \in 0 .. MaxCorrectionFailures

\* A sale was paid for as often as any of its devices got a code, or less
\* when payments were lost; its total follows from its payments.
CorrectionInit ==
  /\ codes = CodesOf
  /\ payments \in [Sold -> UNION {0 .. CodesOf[d] : d \in CodeDevices}]
  /\ totalPaid = payments
  /\ correction = Quiet /\ asked = FALSE /\ failures = 0

-----------------------------------------------------------------------------
\* The request that queues the job.
AskCorrection ==
  /\ ~asked /\ asked' = TRUE
  /\ correction' = [state |-> "waiting", left |-> CorrectionAttempts]
  /\ UNCHANGED <<codes, payments, totalPaid, failures>>

\* correctMissingPayments reads every device that has codes, with its codes.
StartCorrection ==
  /\ correction.state = "waiting"
  /\ correction' = [state |-> "running", left |-> correction.left, seen |-> codes,
                    todo |-> {d \in CodeDevices : codes[d] > 0}]
  /\ UNCHANGED <<codes, payments, totalPaid, asked, failures>>

\* Mutant of Missing: payments that exist are not skipped.
MissingAll(d) == correction.seen[d]

\* The codes after as many as the sale has payments.
Missing(d) == correction.seen[d] - payments[SoldIn[d]]

\* A device with one code, or whose sale has payments enough, is skipped.
ReadSale(d) ==
  /\ correction.state = "running" /\ d \in correction.todo
  /\ correction' =
       IF correction.seen[d] <= 1 \/ Missing(d) <= 0 THEN [correction EXCEPT !.todo = @ \ {d}]
       ELSE [state |-> "paying", left |-> correction.left, seen |-> correction.seen,
             todo |-> correction.todo \ {d}, device |-> d, missing |-> Missing(d), added |-> 0,
             total |-> totalPaid[SoldIn[d]]]
  /\ UNCHANGED <<codes, payments, totalPaid, asked, failures>>

Continue == [state |-> "running", left |-> correction.left, seen |-> correction.seen, todo |-> correction.todo]

CreatePayment ==
  /\ correction.state = "paying" /\ correction.missing > 0
  /\ payments' = [payments EXCEPT ![SoldIn[correction.device]] = @ + 1]
  /\ correction' = [correction EXCEPT !.missing = @ - 1, !.added = @ + 1]
  /\ UNCHANGED <<codes, totalPaid, asked, failures>>

\* Mutant of NewTotal: the last payment is forgotten.
NewTotalShort == correction.total + correction.added - 1

NewTotal == correction.total + correction.added

UpdateTotal ==
  /\ correction.state = "paying" /\ correction.missing = 0
  /\ totalPaid' = [totalPaid EXCEPT ![SoldIn[correction.device]] = NewTotal]
  /\ correction' = Continue
  /\ UNCHANGED <<codes, payments, asked, failures>>

\* A query of a device fails: it is counted, and the next device is next.
DeviceFails ==
  /\ correction.state = "paying" /\ failures < MaxCorrectionFailures
  /\ failures' = failures + 1
  /\ correction' = Continue
  /\ UNCHANGED <<codes, payments, totalPaid, asked>>

\* Mutant of Retried: the last attempt is followed by another.
RetriedOnceMore == IF correction.left > 0 THEN [state |-> "waiting", left |-> correction.left - 1] ELSE Quiet

\* The attempt is over: by the row that is missing, when all went well, or by
\* a failed mail or reading before.
Retried == IF correction.left > 1 THEN [state |-> "waiting", left |-> correction.left - 1] ELSE Quiet

CorrectionEnds ==
  /\ correction.state = "running"
  /\ correction' = Retried
  /\ UNCHANGED <<codes, payments, totalPaid, asked, failures>>

\* The process dies, and the stalled job runs again.
CorrectionDies ==
  /\ correction.state = "paying" /\ failures < MaxCorrectionFailures
  /\ failures' = failures + 1
  /\ correction' = [state |-> "waiting", left |-> correction.left]
  /\ UNCHANGED <<codes, payments, totalPaid, asked>>

\* A customer pays for a device's sale, and the device gets a code.
Pay(d) ==
  /\ PayMeanwhile \/ correction.state \in {"none", "waiting"}
  /\ codes[d] <= CodesOf[d]
  /\ codes' = [codes EXCEPT ![d] = @ + 1]
  /\ payments' = [payments EXCEPT ![SoldIn[d]] = @ + 1]
  /\ totalPaid' = [totalPaid EXCEPT ![SoldIn[d]] = @ + 1]
  /\ UNCHANGED <<correction, asked, failures>>

CorrectionNext ==
  \/ AskCorrection \/ StartCorrection \/ CreatePayment \/ UpdateTotal
  \/ DeviceFails \/ CorrectionEnds \/ CorrectionDies
  \/ \E d \in CodeDevices : ReadSale(d) \/ Pay(d)

CorrectionSpec == CorrectionInit /\ [][CorrectionNext]_correctionVars

-----------------------------------------------------------------------------
(* What must hold *)

\* Attempts and failures never make a second payment for a code: a sale that
\* lacks payments is brought up to the codes of one of its devices, and one
\* that does not is left alone (correctMissingPayments skips as many codes as
\* there are payments).
NeverOverpaid ==
  [][\A s \in Sold : payments'[s] > payments[s] /\ codes' = codes =>
       \E d \in CodeDevices : SoldIn[d] = s /\ payments'[s] <= codes[d]]_correctionVars

\* Between two devices a sale's total agrees with its payments, unless a query
\* failed or the process died after some of the payments: then the next attempt
\* takes them for paid, and the total is never put right.  It fails when sales
\* are paid for while the job runs.
TotalFollows ==
  failures = 0 =>
    \A s \in Sold : (correction.state = "paying" => SoldIn[correction.device] # s) => totalPaid[s] = payments[s]

\* The same, for every state of the job (correctMissingPayments).
PaymentsInOrder == CorrectionTypeOK /\ TotalFollows

=============================================================================
