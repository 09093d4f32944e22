---------------------------- MODULE SaleCreation ----------------------------
(***************************************************************************)
(* The creation of sales by agents and by the office, and its reversal     *)
(* (undoSaleCreation), while other requests do the same.                   *)
(*                                                                         *)
(* createSale is a saga: the checks, a transaction that writes the sale, a *)
(* contract, the debit of the agent's wallet, a transaction that writes    *)
(* the payment and the installer's task, and the job that post-processes   *)
(* the payment.  Only the debit is compensated.  The stock is decremented  *)
(* within the first transaction but not as a part of it.                   *)
(*                                                                         *)
(* All sales here are of one product and, if an agent's, of one agent; the *)
(* checks of a request are one step, and so is each of its transactions.   *)
(***************************************************************************)
EXTENDS Integers, FiniteSets, FiniteSetsExt

CONSTANTS
  Sales,           \* the requests to create a sale; each creates one at most
  AgentSales,      \* those of the agent; the others are paid online
  Instalment,      \* those on a plan; the others are ONE_OFF
  Quantity,        \* units each takes from the stock
  DevicesOf,       \* the devices each is for
  Amount,          \* totalAmountToPay of each
  Devices,
  NoSale,
  Operators,       \* people reversing sales
  NumBatches,      \* batches of the product, the oldest first
  InitialStock,    \* remainingQuantity of each
  InitialBalance,  \* of the agent's wallet
  Racing,          \* may two requests be between their checks and the sale?
  MaxFailures      \* bound: failures of the database or of the process

Batches == 1 .. NumBatches

ASSUME SalesAssumption ==
  /\ IsFiniteSet(Sales) /\ NoSale \notin Sales
  /\ AgentSales \subseteq Sales /\ Instalment \subseteq Sales
ASSUME ItemsAssumption ==
  /\ Quantity \in [Sales -> Nat \ {0}] /\ Amount \in [Sales -> Nat \ {0}]
  /\ DevicesOf \in [Sales -> SUBSET Devices]
ASSUME StockAssumption ==
  /\ NumBatches \in Nat \ {0} /\ InitialStock \in [Batches -> Nat]
  /\ InitialBalance \in Nat /\ MaxFailures \in Nat /\ Racing \in BOOLEAN

VARIABLES
  stage,       \* how far the request of each sale is
  allocation,  \* what each sale takes from each batch
  stock,       \* InventoryBatch.remainingQuantity
  sale,        \* Sales.status, or that there is no such row (any more)
  totalPaid,   \* Sales.totalPaid
  payment,     \* status of the payment row of each sale
  task,        \* status of its installer's task
  charged,     \* sales whose debit stands
  balance,     \* of the agent's wallet
  assigned,    \* devices assigned to the agent
  jobs,        \* sales with a process-next-payment job
  undo,        \* what each operator has read of the sale to be reversed
  failures

goods == <<allocation, stock>>
money == <<charged, balance>>
rows == <<sale, totalPaid, payment, task>>
vars == <<stage, goods, rows, money, assigned, jobs, undo, failures>>

SaleStatus == {"none", "UNPAID", "IN_INSTALLMENT", "COMPLETED", "undone"}

Stage == {"new", "validated", "contracting", "debiting", "recording", "refunding",
          "enqueuing", "paying", "ended", "rolledback", "abandoned"}

TypeOK ==
  /\ stage \in [Sales -> Stage]
  /\ allocation \in [Sales -> [Batches -> Nat]]
  /\ stock \in [Batches -> Int]
  /\ sale \in [Sales -> SaleStatus]
  /\ totalPaid \in [Sales -> Nat]
  /\ payment \in [Sales -> {"none", "PENDING", "COMPLETED"}]
  /\ task \in [Sales -> {"none", "PENDING", "CANCELLED"}]
  /\ charged \subseteq AgentSales
  /\ balance \in Nat
  /\ assigned \subseteq Devices
  /\ jobs \subseteq Sales
  /\ undo \in [Operators -> [sale : Sales \cup {NoSale}, totalPaid : Nat, task : BOOLEAN]]
  /\ failures \in 0 .. MaxFailures

NoUndo == [sale |-> NoSale, totalPaid |-> 0, task |-> FALSE]

Init ==
  /\ stage = [s \in Sales |-> "new"]
  /\ allocation = [s \in Sales |-> [b \in Batches |-> 0]]
  /\ stock = InitialStock
  /\ sale = [s \in Sales |-> "none"]
  /\ totalPaid = [s \in Sales |-> 0]
  /\ payment = [s \in Sales |-> "none"]
  /\ task = [s \in Sales |-> "none"]
  /\ charged = {}
  /\ balance = InitialBalance
  /\ assigned = Devices
  /\ jobs = {}
  /\ undo = [o \in Operators |-> NoUndo]
  /\ failures = 0

-----------------------------------------------------------------------------

Moves(s, to) == stage' = [stage EXCEPT ![s] = to]
Exists(s) == sale[s] \notin {"none", "undone"}
Smaller(m, n) == IF m < n THEN m ELSE n
Larger(m, n) == IF m < n THEN n ELSE m

Failing == failures < MaxFailures /\ failures' = failures + 1

\* What the batches before b hold.
Before(b) == SumFunction([i \in 1 .. b - 1 |-> Larger(stock[i], 0)])

\* Mutant of Allocation: everything from the oldest batch.
AllocationFromOldest(q) == [b \in Batches |-> IF b = 1 THEN q ELSE 0]

\* processBatches: the oldest batches first, each as far as it goes.
Allocation(q) ==
  [b \in Batches |-> Smaller(Larger(stock[b], 0), Larger(q - Before(b), 0))]

\* validateSaleProductQuantity.
InStock(q) == Before(NumBatches + 1) >= q

\* validateDeviceAvailability: no device of s is in another sale.
DevicesFree(s) == \A t \in Sales : Exists(t) => DevicesOf[t] \cap DevicesOf[s] = {}

\* The checks of createSale, and the allocation of the stock they see.
ValidateSale(s) ==
  /\ stage[s] = "new"
  /\ Racing \/ \A t \in Sales : stage[t] # "validated"
  /\ s \in AgentSales => DevicesOf[s] \subseteq assigned /\ balance >= Amount[s]
  /\ InStock(Quantity[s])
  /\ DevicesFree(s)
  /\ allocation' = [allocation EXCEPT ![s] = Allocation(Quantity[s])]
  /\ Moves(s, "validated")
  /\ UNCHANGED <<stock, rows, money, assigned, jobs, undo, failures>>

Paying(s) == IF s \in AgentSales THEN "debiting" ELSE "paying"

\* The sale with its items, and the stock that is gone.
CommitSale(s) ==
  /\ stage[s] = "validated"
  /\ sale' = [sale EXCEPT ![s] = "UNPAID"]
  /\ stock' = [b \in Batches |-> stock[b] - allocation[s][b]]
  /\ Moves(s, IF s \in Instalment THEN "contracting" ELSE Paying(s))
  /\ UNCHANGED <<allocation, totalPaid, payment, task, money, assigned, jobs, undo, failures>>

\* The transaction is rolled back, the decrements made so far are not.
CommitSaleFails(s) ==
  /\ stage[s] = "validated"
  /\ Failing
  /\ \E done \in 0 .. NumBatches :
       LET taken == [b \in Batches |-> IF b <= done THEN allocation[s][b] ELSE 0]
       IN  /\ allocation' = [allocation EXCEPT ![s] = taken]
           /\ stock' = [b \in Batches |-> stock[b] - taken[b]]
  /\ Moves(s, "rolledback")
  /\ UNCHANGED <<rows, money, assigned, jobs, undo>>

\* The contract of a plan; the update of a sale that is gone throws.
CreateContract(s) ==
  /\ stage[s] = "contracting"
  /\ Moves(s, IF Exists(s) THEN Paying(s) ELSE "ended")
  /\ UNCHANGED <<goods, rows, money, assigned, jobs, undo, failures>>

\* Mutant of DebitWallet: the balance was checked before.
DebitUnchecked(s) ==
  /\ stage[s] = "debiting"
  /\ charged' = charged \cup {s}
  /\ balance' = balance - Amount[s]
  /\ Moves(s, "recording")
  /\ UNCHANGED <<goods, rows, assigned, jobs, undo, failures>>

\* debitWallet checks the balance again; without enough the request ends and
\* the sale stays as it is.
DebitWallet(s) ==
  /\ stage[s] = "debiting"
  /\ IF balance >= Amount[s]
       THEN /\ charged' = charged \cup {s}
            /\ balance' = balance - Amount[s]
            /\ Moves(s, "recording")
       ELSE /\ Moves(s, "ended")
            /\ UNCHANGED money
  /\ UNCHANGED <<goods, rows, assigned, jobs, undo, failures>>

\* The payment and the installer's task, in one transaction.
RecordPayment(s) ==
  /\ stage[s] = "recording"
  /\ Exists(s)
  /\ payment' = [payment EXCEPT ![s] = "COMPLETED"]
  /\ task' = [task EXCEPT ![s] = "PENDING"]
  /\ Moves(s, "enqueuing")
  /\ UNCHANGED <<goods, sale, totalPaid, money, assigned, jobs, undo, failures>>

\* Mutant of RecordPaymentFails: no compensation.
RecordPaymentThrows(s) ==
  /\ stage[s] = "recording"
  /\ \/ ~Exists(s) /\ UNCHANGED failures
     \/ Failing
  /\ Moves(s, "ended")
  /\ UNCHANGED <<goods, rows, money, assigned, jobs, undo>>

\* The transaction fails, or the sale to connect the payment to is gone.
RecordPaymentFails(s) ==
  /\ stage[s] = "recording"
  /\ \/ ~Exists(s) /\ UNCHANGED failures
     \/ Failing
  /\ Moves(s, "refunding")
  /\ UNCHANGED <<goods, rows, money, assigned, jobs, undo>>

\* The compensation of the debit.
RefundDebit(s) ==
  /\ stage[s] = "refunding"
  /\ charged' = charged \ {s}
  /\ balance' = balance + Amount[s]
  /\ Moves(s, "ended")
  /\ UNCHANGED <<goods, rows, assigned, jobs, undo, failures>>

EnqueueNextPayment(s) ==
  /\ stage[s] = "enqueuing"
  /\ jobs' = jobs \cup {s}
  /\ Moves(s, "ended")
  /\ UNCHANGED <<goods, rows, money, assigned, undo, failures>>

\* generatePaymentPayload: a PENDING payment, if the sale is still there.
GeneratePayment(s) ==
  /\ stage[s] = "paying"
  /\ payment' = [payment EXCEPT ![s] = IF Exists(s) THEN "PENDING" ELSE "none"]
  /\ Moves(s, "ended")
  /\ UNCHANGED <<goods, sale, totalPaid, task, money, assigned, jobs, undo, failures>>

\* The request throws or its process dies.  Between the debit and the
\* payment row, or its compensation, this leaves a debit without a payment.
AbandonSale(s) ==
  /\ stage[s] \in {"contracting", "debiting", "recording", "refunding", "enqueuing", "paying"}
  /\ Failing
  /\ Moves(s, IF stage[s] \in {"recording", "refunding"} THEN "abandoned" ELSE "ended")
  /\ UNCHANGED <<goods, rows, money, assigned, jobs, undo>>

-----------------------------------------------------------------------------

\* handlePostPayment, for what matters here.
PostProcessed(s) ==
  /\ totalPaid' = [totalPaid EXCEPT ![s] = Amount[s]]
  /\ sale' = [sale EXCEPT ![s] = IF s \in Instalment THEN "IN_INSTALLMENT" ELSE "COMPLETED"]

\* The job of a sale that is gone fails until its attempts are used up.
ProcessNextPayment(s) ==
  /\ s \in jobs
  /\ jobs' = jobs \ {s}
  /\ IF Exists(s) THEN PostProcessed(s) ELSE UNCHANGED <<sale, totalPaid>>
  /\ UNCHANGED <<stage, goods, payment, task, money, assigned, undo, failures>>

\* The customer pays online and the gateway reports it.
ReceivePayment(s) ==
  /\ payment[s] = "PENDING"
  /\ payment' = [payment EXCEPT ![s] = "COMPLETED"]
  /\ PostProcessed(s)
  /\ UNCHANGED <<stage, goods, task, money, assigned, jobs, undo, failures>>

\* The office assigns a device to the agent.
AssignDevice(d) ==
  /\ d \notin assigned
  /\ assigned' = assigned \cup {d}
  /\ UNCHANGED <<stage, goods, rows, money, jobs, undo, failures>>

-----------------------------------------------------------------------------

\* undoSaleCreation reads the sale, refuses one that is COMPLETED ...
ReadSaleToUndo(o, s) ==
  /\ undo[o] = NoUndo
  /\ Exists(s)
  /\ sale[s] # "COMPLETED"
  /\ undo' = [undo EXCEPT ![o] = [sale |-> s, totalPaid |-> totalPaid[s],
                                  task |-> task[s] = "PENDING"]]
  /\ UNCHANGED <<stage, goods, rows, money, assigned, jobs, failures>>

EndsUndo(o) == undo' = [undo EXCEPT ![o] = NoUndo]

\* unassignDevice, outside the transaction, its errors ignored.
UnassignDevices(s) == assigned' \in {assigned, assigned \ DevicesOf[s]}

\* Mutant of CreditOf: what the sale was to cost.
CreditAmountToPay(o) == IF undo[o].sale \in AgentSales THEN Amount[undo[o].sale] ELSE 0

\* restoreAgentWallet: what had been paid when the sale was read.
CreditOf(o) == IF undo[o].sale \in AgentSales THEN undo[o].totalPaid ELSE 0

\* Mutant of UndoSale: another operator may have reversed the sale.
UndoSaleAgain(o) ==
  /\ undo[o] # NoUndo
  /\ LET s == undo[o].sale
     IN  /\ stock' = [b \in Batches |-> stock[b] + allocation[s][b]]
         /\ sale' = [sale EXCEPT ![s] = "undone"]
         /\ payment' = [payment EXCEPT ![s] = "none"]
         /\ task' = [task EXCEPT ![s] = IF undo[o].task THEN "CANCELLED" ELSE @]
         /\ UnassignDevices(s)
  /\ balance' = balance + CreditOf(o)
  /\ EndsUndo(o)
  /\ UNCHANGED <<stage, allocation, totalPaid, charged, jobs, failures>>

\* ... and reverses it in a transaction, on what it read; the payment goes
\* with the sale, the tasks that were read are cancelled.
UndoSale(o) ==
  /\ undo[o] # NoUndo
  /\ LET s == undo[o].sale
     IN  /\ Exists(s)
         /\ stock' = [b \in Batches |-> stock[b] + allocation[s][b]]
         /\ sale' = [sale EXCEPT ![s] = "undone"]
         /\ payment' = [payment EXCEPT ![s] = "none"]
         /\ task' = [task EXCEPT ![s] = IF undo[o].task THEN "CANCELLED" ELSE @]
         /\ UnassignDevices(s)
  /\ balance' = balance + CreditOf(o)
  /\ EndsUndo(o)
  /\ UNCHANGED <<stage, allocation, totalPaid, charged, jobs, failures>>

\* The transaction is rolled back, because the sale is gone or the database
\* fails; the devices may be unassigned by then.
UndoFails(o) ==
  /\ undo[o] # NoUndo
  /\ \/ ~Exists(undo[o].sale) /\ UNCHANGED failures
     \/ Failing
  /\ UnassignDevices(undo[o].sale)
  /\ EndsUndo(o)
  /\ UNCHANGED <<stage, goods, rows, money, jobs>>

-----------------------------------------------------------------------------

CreateSaleStep(s) ==
  \/ CommitSale(s)
  \/ CreateContract(s)
  \/ DebitWallet(s)
  \/ RecordPayment(s)
  \/ RecordPaymentFails(s)
  \/ RefundDebit(s)
  \/ EnqueueNextPayment(s)
  \/ GeneratePayment(s)

Next ==
  \/ \E s \in Sales :
       \/ ValidateSale(s)
       \/ CreateSaleStep(s)
       \/ CommitSaleFails(s)
       \/ AbandonSale(s)
       \/ ProcessNextPayment(s)
       \/ ReceivePayment(s)
  \/ \E d \in Devices : AssignDevice(d)
  \/ \E o \in Operators :
       \/ \E s \in Sales : ReadSaleToUndo(o, s)
       \/ UndoSale(o)
       \/ UndoFails(o)

Spec == Init /\ [][Next]_vars

-----------------------------------------------------------------------------
(* Properties *)

\* What the sales, and those that were rolled back, keep of batch b.
Kept(s, b) == IF Exists(s) \/ stage[s] = "rolledback" THEN allocation[s][b] ELSE 0
Sold(b) == SumFunction([s \in Sales |-> Kept(s, b)])

\* What is missing from a batch is what the sales took, and no more than it
\* held: reversing restores it exactly once, and only a rolled back sale keeps
\* what it had taken.
StockAccounted == \A b \in Batches : stock[b] + Sold(b) = InitialStock[b] /\ stock[b] >= 0

\* When the request of an agent's sale has ended, without dying between the
\* debit and its compensation, the agent is charged exactly for a recorded
\* payment, with which an installer was asked for.
ChargedIsRecorded ==
  \A s \in AgentSales : stage[s] = "ended" /\ Exists(s) =>
    /\ s \in charged <=> payment[s] = "COMPLETED"
    /\ payment[s] = "COMPLETED" <=> task[s] = "PENDING"

\* What the agent has paid for the sales that stand.
Spent == SumFunction([s \in AgentSales |-> IF payment[s] = "COMPLETED" THEN Amount[s] ELSE 0])

\* Refunds and reversals never give back more than was taken.
NeverRefundedTwice == balance + Spent <= InitialBalance

=============================================================================
