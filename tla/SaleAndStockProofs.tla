------------------------- MODULE SaleAndStockProofs -------------------------
(***************************************************************************)
(* Proofs about SaleCreation, for any sales, devices, amounts, operators   *)
(* and failures: its types, what the saga of createSale leaves behind,     *)
(* what reversals give back to the agent, and, if the requests do not race *)
(* between their checks and their sale, that no device is sold twice and   *)
(* that what is missing from the stock is what the sales took.             *)
(* Then about StockRoom, for any warehouses, products and orders: its      *)
(* types, and, for requests that do not overlap where they would disturb   *)
(* each other, that warehouses stay in order, that a transfer moves once   *)
(* and that no unit is lost or invented.                                   *)
(***************************************************************************)
EXTENDS SaleCreation, StockRoom, SumTheorems, TLAPS

\* The part of the type invariant the proofs need.
RowTypes ==
  /\ stage \in [Sales -> Stage]
  /\ sale \in [Sales -> SaleStatus]
  /\ payment \in [Sales -> {"none", "PENDING", "COMPLETED"}]
  /\ task \in [Sales -> {"none", "PENDING", "CANCELLED"}]
  /\ undo \in [Operators -> [sale : Sales \cup {NoSale}, totalPaid : Nat, task : BOOLEAN]]
  /\ totalPaid \in [Sales -> Nat]

\* Every step belongs to a sale, to an operator or to a device.
LEMMA NextCases ==
  ASSUME Next
  PROVE  \/ \E s \in Sales :
              \/ ValidateSale(s) \/ CommitSale(s) \/ CommitSaleFails(s) \/ CreateContract(s)
              \/ DebitWallet(s) \/ RecordPayment(s) \/ RecordPaymentFails(s) \/ RefundDebit(s)
              \/ EnqueueNextPayment(s) \/ GeneratePayment(s) \/ AbandonSale(s)
              \/ ProcessNextPayment(s) \/ ReceivePayment(s)
         \/ \E d \in Devices : AssignDevice(d)
         \/ \E o \in Operators, s \in Sales : ReadSaleToUndo(o, s)
         \/ \E o \in Operators : UndoSale(o) \/ UndoFails(o)
  BY DEF Next, CreateSaleStep

LEMMA InitRowTypes == Init => RowTypes
  BY DEF Init, RowTypes, Stage, SaleStatus, NoUndo

LEMMA StepRowTypes ==
  ASSUME RowTypes, Next
  PROVE  RowTypes'
<1> USE DEF RowTypes, Stage, SaleStatus
<1>1. ASSUME NEW s \in Sales, ValidateSale(s) PROVE RowTypes'
  BY <1>1 DEF ValidateSale, Moves, rows
<1>2. ASSUME NEW s \in Sales, CommitSale(s) PROVE RowTypes'
  BY <1>2 DEF CommitSale, Moves, Paying
<1>3. ASSUME NEW s \in Sales, CommitSaleFails(s) PROVE RowTypes'
  BY <1>3 DEF CommitSaleFails, Moves, rows
<1>4. ASSUME NEW s \in Sales, CreateContract(s) PROVE RowTypes'
  BY <1>4 DEF CreateContract, Moves, Paying, rows
<1>5. ASSUME NEW s \in Sales, DebitWallet(s) PROVE RowTypes'
  BY <1>5 DEF DebitWallet, Moves, rows
<1>6. ASSUME NEW s \in Sales, RecordPayment(s) PROVE RowTypes'
  BY <1>6 DEF RecordPayment, Moves
<1>7. ASSUME NEW s \in Sales, RecordPaymentFails(s) PROVE RowTypes'
  BY <1>7 DEF RecordPaymentFails, Moves, rows
<1>8. ASSUME NEW s \in Sales, RefundDebit(s) PROVE RowTypes'
  BY <1>8 DEF RefundDebit, Moves, rows
<1>9. ASSUME NEW s \in Sales, EnqueueNextPayment(s) PROVE RowTypes'
  BY <1>9 DEF EnqueueNextPayment, Moves, rows
<1>10. ASSUME NEW s \in Sales, GeneratePayment(s) PROVE RowTypes'
  BY <1>10 DEF GeneratePayment, Moves
<1>11. ASSUME NEW s \in Sales, AbandonSale(s) PROVE RowTypes'
  BY <1>11 DEF AbandonSale, Moves, rows
<1>12. ASSUME NEW s \in Sales, ProcessNextPayment(s) PROVE RowTypes'
  BY <1>12, ItemsAssumption DEF ProcessNextPayment, PostProcessed
<1>13. ASSUME NEW s \in Sales, ReceivePayment(s) PROVE RowTypes'
  BY <1>13, ItemsAssumption DEF ReceivePayment, PostProcessed
<1>14. ASSUME NEW d \in Devices, AssignDevice(d) PROVE RowTypes'
  BY <1>14 DEF AssignDevice, rows
<1>15. ASSUME NEW o \in Operators, NEW s \in Sales, ReadSaleToUndo(o, s) PROVE RowTypes'
  BY <1>15 DEF ReadSaleToUndo, rows
<1>16. ASSUME NEW o \in Operators, UndoSale(o) PROVE RowTypes'
  BY <1>16 DEF UndoSale, EndsUndo, NoUndo
<1>17. ASSUME NEW o \in Operators, UndoFails(o) PROVE RowTypes'
  BY <1>17 DEF UndoFails, EndsUndo, NoUndo, rows
<1> QED
  BY NextCases, <1>1, <1>2, <1>3, <1>4, <1>5, <1>6, <1>7, <1>8, <1>9, <1>10, <1>11,
     <1>12, <1>13, <1>14, <1>15, <1>16, <1>17

-----------------------------------------------------------------------------
(* The saga *)

NotCharged(s) == s \notin charged /\ payment[s] = "none" /\ task[s] = "none"

\* What each stage of an agent's request knows of its money.
Saga(s) ==
  /\ stage[s] # "paying" /\ payment[s] # "PENDING"
  /\ stage[s] \in {"new", "validated", "contracting", "debiting"} => NotCharged(s)
  /\ stage[s] \in {"recording", "refunding"} =>
       s \in charged /\ payment[s] = "none" /\ task[s] = "none"
  /\ stage[s] = "enqueuing" /\ Exists(s) =>
       s \in charged /\ payment[s] = "COMPLETED" /\ task[s] = "PENDING"
  /\ stage[s] = "ended" /\ Exists(s) =>
       /\ s \in charged <=> payment[s] = "COMPLETED"
       /\ payment[s] = "COMPLETED" <=> task[s] = "PENDING"

\* An operator has read a task only of a sale that has one.
UndoneTasks == \A o \in Operators : undo[o].task => task[undo[o].sale] # "none"

SagaInv == RowTypes /\ UndoneTasks /\ \A s \in AgentSales : Saga(s)

LEMMA StepUndoneTasks ==
  ASSUME RowTypes, UndoneTasks, Next
  PROVE  UndoneTasks'
<1> SUFFICES ASSUME NEW p \in Operators, (undo[p].task)'
             PROVE  (task[undo[p].sale] # "none")'
  BY DEF UndoneTasks
<1> USE DEF RowTypes, UndoneTasks
<1>1. ASSUME UNCHANGED <<task, undo>> PROVE (task[undo[p].sale] # "none")'
  BY <1>1
<1>2. ASSUME NEW s \in Sales, RecordPayment(s) PROVE (task[undo[p].sale] # "none")'
  BY <1>2 DEF RecordPayment
<1>3. ASSUME NEW o \in Operators, NEW s \in Sales, ReadSaleToUndo(o, s)
      PROVE  (task[undo[p].sale] # "none")'
  BY <1>3 DEF ReadSaleToUndo, rows
<1>4. ASSUME NEW o \in Operators, UndoSale(o) PROVE (task[undo[p].sale] # "none")'
  BY <1>4 DEF UndoSale, EndsUndo, NoUndo
<1>5. ASSUME NEW o \in Operators, UndoFails(o) PROVE (task[undo[p].sale] # "none")'
  BY <1>5 DEF UndoFails, EndsUndo, NoUndo, rows
<1>6. ASSUME NEW s \in Sales,
             \/ ValidateSale(s) \/ CommitSale(s) \/ CommitSaleFails(s) \/ CreateContract(s)
             \/ DebitWallet(s) \/ RecordPaymentFails(s) \/ RefundDebit(s)
             \/ EnqueueNextPayment(s) \/ GeneratePayment(s) \/ AbandonSale(s)
             \/ ProcessNextPayment(s) \/ ReceivePayment(s)
      PROVE  UNCHANGED <<task, undo>>
  BY <1>6 DEF ValidateSale, CommitSale, CommitSaleFails, CreateContract, DebitWallet,
     RecordPaymentFails, RefundDebit, EnqueueNextPayment, GeneratePayment, AbandonSale,
     ProcessNextPayment, ReceivePayment, rows
<1>7. ASSUME NEW d \in Devices, AssignDevice(d) PROVE UNCHANGED <<task, undo>>
  BY <1>7 DEF AssignDevice, rows
<1> QED  BY NextCases, <1>1, <1>2, <1>3, <1>4, <1>5, <1>6, <1>7

LEMMA InitSaga == Init => SagaInv
<1>1. Init => \A s \in AgentSales : Saga(s)
  BY SalesAssumption DEF Init, Saga, NotCharged
<1>2. Init => UndoneTasks
  BY DEF Init, UndoneTasks, NoUndo
<1> QED  BY <1>1, <1>2, InitRowTypes DEF SagaInv

LEMMA StepSaga ==
  ASSUME SagaInv, Next
  PROVE  SagaInv'
<1>0. RowTypes' /\ UndoneTasks'
  BY StepRowTypes, StepUndoneTasks DEF SagaInv
<1> SUFFICES ASSUME NEW a \in AgentSales PROVE Saga(a)'
  BY <1>0 DEF SagaInv
<1>a. a \in Sales /\ Saga(a)
  BY SalesAssumption DEF SagaInv
<1> USE <1>a DEF SagaInv, RowTypes, Saga, NotCharged, Exists
<1>1. ASSUME NEW s \in Sales, ValidateSale(s) PROVE Saga(a)'
  BY <1>1 DEF ValidateSale, Moves, rows, money
<1>2. ASSUME NEW s \in Sales, CommitSale(s) PROVE Saga(a)'
  BY <1>2 DEF CommitSale, Moves, Paying, money
<1>3. ASSUME NEW s \in Sales, CommitSaleFails(s) PROVE Saga(a)'
  BY <1>3 DEF CommitSaleFails, Moves, rows, money
<1>4. ASSUME NEW s \in Sales, CreateContract(s) PROVE Saga(a)'
  BY <1>4 DEF CreateContract, Moves, Paying, rows, money
<1>5. ASSUME NEW s \in Sales, DebitWallet(s) PROVE Saga(a)'
  BY <1>5 DEF DebitWallet, Moves, rows, money
<1>6. ASSUME NEW s \in Sales, RecordPayment(s) PROVE Saga(a)'
  BY <1>6 DEF RecordPayment, Moves, money
<1>7. ASSUME NEW s \in Sales, RecordPaymentFails(s) PROVE Saga(a)'
  BY <1>7 DEF RecordPaymentFails, Moves, rows, money
<1>8. ASSUME NEW s \in Sales, RefundDebit(s) PROVE Saga(a)'
  BY <1>8 DEF RefundDebit, Moves, rows
<1>9. ASSUME NEW s \in Sales, EnqueueNextPayment(s) PROVE Saga(a)'
  BY <1>9 DEF EnqueueNextPayment, Moves, rows, money
<1>10. ASSUME NEW s \in Sales, GeneratePayment(s) PROVE Saga(a)'
  BY <1>10 DEF GeneratePayment, Moves, money
<1>11. ASSUME NEW s \in Sales, AbandonSale(s) PROVE Saga(a)'
  BY <1>11 DEF AbandonSale, Moves, rows, money
<1>12. ASSUME NEW s \in Sales, ProcessNextPayment(s) PROVE Saga(a)'
  BY <1>12 DEF ProcessNextPayment, PostProcessed, money
<1>13. ASSUME NEW s \in Sales, ReceivePayment(s) PROVE Saga(a)'
  BY <1>13 DEF ReceivePayment, PostProcessed, money
<1>14. ASSUME NEW d \in Devices, AssignDevice(d) PROVE Saga(a)'
  BY <1>14 DEF AssignDevice, rows, money
<1>15. ASSUME NEW o \in Operators, NEW s \in Sales, ReadSaleToUndo(o, s) PROVE Saga(a)'
  BY <1>15 DEF ReadSaleToUndo, rows, money
<1>16. ASSUME NEW o \in Operators, UndoSale(o) PROVE Saga(a)'
  <2>1. undo[o].task => task[undo[o].sale] # "none"
    BY DEF UndoneTasks
  <2> QED  BY <1>16, <2>1 DEF UndoSale
<1>17. ASSUME NEW o \in Operators, UndoFails(o) PROVE Saga(a)'
  BY <1>17 DEF UndoFails, rows, money
<1> QED
  BY NextCases, <1>1, <1>2, <1>3, <1>4, <1>5, <1>6, <1>7, <1>8, <1>9, <1>10, <1>11,
     <1>12, <1>13, <1>14, <1>15, <1>16, <1>17

LEMMA StutterSaga == SagaInv /\ UNCHANGED vars => SagaInv'
  BY DEF SagaInv, RowTypes, UndoneTasks, Saga, NotCharged, Exists, vars, rows, money

\* createSale charges the agent exactly for a recorded payment and an
\* installer's task, whichever step of it fails and whoever reverses the
\* sale meanwhile; only a request that dies between the debit and its
\* compensation is excepted.
THEOREM SagaIsConsistent == Spec => []ChargedIsRecorded
<1>1. Init => SagaInv  BY InitSaga
<1>2. SagaInv /\ [Next]_vars => SagaInv'  BY StepSaga, StutterSaga
<1>3. SagaInv => ChargedIsRecorded
  BY DEF SagaInv, Saga, ChargedIsRecorded
<1> QED  BY <1>1, <1>2, <1>3, PTL DEF Spec

-----------------------------------------------------------------------------
(* Requests *)

\* A request that passed its checks is alone; there is no sale before it is
\* committed, and no online payment without a sale.
RequestInv ==
  /\ RowTypes
  /\ \A s \in Sales : stage[s] \in {"new", "validated"} => sale[s] = "none"
  /\ \A s \in Sales : payment[s] = "PENDING" => Exists(s)
  /\ \A s, t \in Sales : stage[s] = "validated" /\ stage[t] = "validated" => s = t

LEMMA InitRequests == Init => RequestInv
  BY InitRowTypes DEF Init, RequestInv, Exists

\* A step after which no other sale exists, no other request is validated
\* and no other online payment is waiting preserves the invariant.
LEMMA FewerRequests ==
  ASSUME RequestInv, RowTypes',
         \A t \in Sales : Exists(t)' => Exists(t),
         \A t \in Sales : sale[t] = "none" => sale'[t] = "none",
         \A t \in Sales : stage'[t] \in {"new", "validated"} => stage'[t] = stage[t],
         \A t \in Sales : (payment[t] = "PENDING")' => Exists(t)'
  PROVE  RequestInv'
<1> USE DEF RequestInv
<1>1. \A s \in Sales : (stage[s] \in {"new", "validated"})' => (sale[s] = "none")'
  OBVIOUS
<1>2. \A s, t \in Sales : (stage[s] = "validated" /\ stage[t] = "validated")' => s = t
  OBVIOUS
<1> QED  BY <1>1, <1>2

LEMMA ValidateRequests ==
  ASSUME RequestInv, ~Racing, RowTypes', NEW s \in Sales, ValidateSale(s)
  PROVE  RequestInv'
<1> USE DEF RequestInv, RowTypes
<1>1. /\ stage[s] = "new" /\ stage' = [stage EXCEPT ![s] = "validated"]
      /\ \A t \in Sales : stage[t] # "validated"
      /\ UNCHANGED <<sale, payment>>
  BY DEF ValidateSale, Moves, rows
<1>2. \A t \in Sales : (stage[t] = "validated")' => t = s
  BY <1>1
<1>3. \A t \in Sales : (payment[t] = "PENDING" => Exists(t))'
  BY <1>1 DEF Exists
<1>4. \A t \in Sales : (stage[t] \in {"new", "validated"} => sale[t] = "none")'
  BY <1>1
<1> QED  BY <1>2, <1>3, <1>4

LEMMA CommitRequests ==
  ASSUME RequestInv, RowTypes', NEW s \in Sales, CommitSale(s)
  PROVE  RequestInv'
<1> USE DEF RequestInv, RowTypes
<1>1. /\ stage[s] = "validated" /\ sale' = [sale EXCEPT ![s] = "UNPAID"]
      /\ \E next \in {"contracting", "debiting", "paying"} : stage' = [stage EXCEPT ![s] = next]
      /\ payment' = payment
  BY DEF CommitSale, Moves, Paying
<1>2. \A t \in Sales : (stage[t] # "validated")'
  BY <1>1
<1>3. \A t \in Sales : (payment[t] = "PENDING" => Exists(t))'
  BY <1>1 DEF Exists
<1>4. \A t \in Sales : (stage[t] \in {"new", "validated"} => sale[t] = "none")'
  BY <1>1
<1> QED  BY <1>2, <1>3, <1>4

LEMMA StepRequests ==
  ASSUME RequestInv, ~Racing, Next
  PROVE  RequestInv'
<1>0. RowTypes /\ RowTypes'
  BY StepRowTypes DEF RequestInv
<1>a. \A t \in Sales : payment[t] = "PENDING" => Exists(t)
  BY DEF RequestInv
<1>1. ASSUME NEW s \in Sales, ValidateSale(s) PROVE RequestInv'
  BY <1>0, <1>1, ValidateRequests
<1>2. ASSUME NEW s \in Sales, CommitSale(s) PROVE RequestInv'
  BY <1>0, <1>2, CommitRequests
<1>3. ASSUME NEW s \in Sales,
             \/ CommitSaleFails(s) \/ CreateContract(s) \/ DebitWallet(s)
             \/ RecordPaymentFails(s) \/ RefundDebit(s) \/ EnqueueNextPayment(s) \/ AbandonSale(s)
      PROVE  RequestInv'
  <2>1. /\ UNCHANGED <<sale, payment>>
        /\ \E next \in Stage \ {"new", "validated"} : stage' = [stage EXCEPT ![s] = next]
    BY <1>3 DEF CommitSaleFails, CreateContract, DebitWallet, RecordPaymentFails, RefundDebit,
       EnqueueNextPayment, AbandonSale, Moves, Paying, Stage, rows
  <2> QED  BY <1>0, <1>a, <2>1, FewerRequests DEF RowTypes, Exists
<1>4. ASSUME NEW s \in Sales, RecordPayment(s) PROVE RequestInv'
  <2>1. /\ sale' = sale /\ payment' = [payment EXCEPT ![s] = "COMPLETED"]
        /\ stage' = [stage EXCEPT ![s] = "enqueuing"]
    BY <1>4 DEF RecordPayment, Moves
  <2> QED  BY <1>0, <1>a, <2>1, FewerRequests DEF RowTypes, Exists
<1>5. ASSUME NEW s \in Sales, GeneratePayment(s) PROVE RequestInv'
  <2>1. /\ sale' = sale
        /\ payment' = [payment EXCEPT ![s] = IF Exists(s) THEN "PENDING" ELSE "none"]
        /\ stage' = [stage EXCEPT ![s] = "ended"]
    BY <1>5 DEF GeneratePayment, Moves
  <2> QED  BY <1>0, <1>a, <2>1, FewerRequests DEF RowTypes, Exists
<1>6. ASSUME NEW s \in Sales, ProcessNextPayment(s) PROVE RequestInv'
  BY <1>0, <1>a, <1>6, FewerRequests DEF ProcessNextPayment, PostProcessed, RowTypes, Exists
<1>7. ASSUME NEW s \in Sales, ReceivePayment(s) PROVE RequestInv'
  BY <1>0, <1>a, <1>7, FewerRequests DEF ReceivePayment, PostProcessed, RowTypes, Exists
<1>8. ASSUME UNCHANGED <<stage, sale, payment>> PROVE RequestInv'
  BY <1>0, <1>a, <1>8, FewerRequests DEF Exists
<1>9. ASSUME NEW o \in Operators, UndoSale(o) PROVE RequestInv'
  <2> DEFINE u == undo[o].sale
  <2>1. /\ sale' = [sale EXCEPT ![u] = "undone"] /\ payment' = [payment EXCEPT ![u] = "none"]
        /\ stage' = stage /\ Exists(u)
    BY <1>9 DEF UndoSale
  <2> QED  BY <1>0, <1>a, <2>1, FewerRequests DEF RowTypes, Exists
<1>10. ASSUME NEW d \in Devices, AssignDevice(d) PROVE UNCHANGED <<stage, sale, payment>>
  BY <1>10 DEF AssignDevice, rows
<1>11. ASSUME NEW o \in Operators, NEW s \in Sales, ReadSaleToUndo(o, s)
       PROVE  UNCHANGED <<stage, sale, payment>>
  BY <1>11 DEF ReadSaleToUndo, rows
<1>12. ASSUME NEW o \in Operators, UndoFails(o) PROVE UNCHANGED <<stage, sale, payment>>
  BY <1>12 DEF UndoFails, rows
<1> QED
  BY NextCases, <1>1, <1>2, <1>3, <1>4, <1>5, <1>6, <1>7, <1>8, <1>9, <1>10, <1>11, <1>12

LEMMA StutterRequests == RequestInv /\ UNCHANGED vars => RequestInv'
  BY DEF RequestInv, RowTypes, Exists, vars, rows

-----------------------------------------------------------------------------
(* Types *)

\* Only requests of the agent debit the wallet, and an operator at work has
\* read a sale.
OnlyAgentsDebit ==
  \A s \in Sales :
    stage[s] \in {"debiting", "recording", "refunding", "enqueuing"} => s \in AgentSales
UndoReads == \A o \in Operators : undo[o] # NoUndo => undo[o].sale \in Sales

TypeInv == TypeOK /\ OnlyAgentsDebit /\ UndoReads

\* The allocation takes nothing below zero and no more than a batch holds.
LEMMA AllocationBounds ==
  ASSUME stock \in [Batches -> Int], NEW q \in Nat
  PROVE  /\ Allocation(q) \in [Batches -> Nat]
         /\ \A b \in Batches : stock[b] >= 0 => Allocation(q)[b] <= stock[b]
<1>1. ASSUME NEW b \in Batches
      PROVE  Before(b) \in Int
  <2> DEFINE held == [i \in 1 .. b - 1 |-> Larger(stock[i], 0)]
  <2>1. b \in Nat \ {0} /\ b - 1 \in Int /\ 1 .. b - 1 \subseteq Batches
    BY StockAssumption DEF Batches
  <2>2. \A i \in 1 .. b - 1 : held[i] \in Int
    BY <2>1 DEF Larger
  <2>3. IsFiniteSet(1 .. b - 1) /\ DOMAIN held = 1 .. b - 1
    BY <2>1, FS_Interval
  <2>4. Before(b) = SumFunctionOnSet(held, 1 .. b - 1)
    BY <2>3 DEF Before, SumFunction
  <2> HIDE DEF held
  <2> QED
    BY <2>2, <2>3, <2>4, SumType
<1>2. ASSUME NEW b \in Batches
      PROVE  /\ Allocation(q)[b] \in Nat
             /\ stock[b] >= 0 => Allocation(q)[b] <= stock[b]
  BY <1>1, <1>2 DEF Allocation, Smaller, Larger
<1> QED
  BY <1>2 DEF Allocation

LEMMA InitTypes == Init => TypeInv
<1> SUFFICES ASSUME Init PROVE TypeInv
  OBVIOUS
<1>1. stock \in [Batches -> Int]
  BY StockAssumption DEF Init
<1> QED
  BY <1>1, InitRowTypes, StockAssumption
     DEF Init, RowTypes, TypeInv, TypeOK, OnlyAgentsDebit, UndoReads

LEMMA StepTypes ==
  ASSUME TypeInv, Next
  PROVE  TypeInv'
<1> DEFINE goodsOK == allocation \in [Sales -> [Batches -> Nat]] /\ stock \in [Batches -> Int]
<1> DEFINE restOK == /\ charged \subseteq AgentSales /\ balance \in Nat /\ assigned \subseteq Devices
                     /\ jobs \subseteq Sales /\ failures \in 0 .. MaxFailures
<1>a. RowTypes /\ RowTypes'
  BY StepRowTypes DEF TypeInv, TypeOK, RowTypes
<1>b. goodsOK /\ restOK /\ OnlyAgentsDebit /\ UndoReads
  BY DEF TypeInv, TypeOK
<1> SUFFICES goodsOK' /\ restOK' /\ OnlyAgentsDebit' /\ UndoReads'
  BY <1>a DEF TypeInv, TypeOK, RowTypes
<1>1. ASSUME NEW s \in Sales, ValidateSale(s)
      PROVE  goodsOK' /\ restOK' /\ OnlyAgentsDebit' /\ UndoReads'
  <2>1. Allocation(Quantity[s]) \in [Batches -> Nat]
    BY <1>b, AllocationBounds, ItemsAssumption
  <2>2. goodsOK'
    BY <1>b, <1>1, <2>1 DEF ValidateSale
  <2>3. OnlyAgentsDebit'
    BY <1>a, <1>b, <1>1 DEF ValidateSale, Moves, OnlyAgentsDebit, RowTypes
  <2> QED
    BY <1>b, <1>1, <2>2, <2>3 DEF ValidateSale, UndoReads, rows, money
<1>2. ASSUME NEW s \in Sales, CommitSale(s)
      PROVE  goodsOK' /\ restOK' /\ OnlyAgentsDebit' /\ UndoReads'
  <2>1. goodsOK'
    BY <1>b, <1>2 DEF CommitSale
  <2>2. OnlyAgentsDebit'
    BY <1>a, <1>b, <1>2 DEF CommitSale, Moves, Paying, OnlyAgentsDebit, RowTypes
  <2> QED
    BY <1>b, <1>2, <2>1, <2>2 DEF CommitSale, UndoReads, money
<1>3. ASSUME NEW s \in Sales, CommitSaleFails(s)
      PROVE  goodsOK' /\ restOK' /\ OnlyAgentsDebit' /\ UndoReads'
  <2>1. PICK done \in 0 .. NumBatches :
          LET taken == [b \in Batches |-> IF b <= done THEN allocation[s][b] ELSE 0]
          IN  /\ allocation' = [allocation EXCEPT ![s] = taken]
              /\ stock' = [b \in Batches |-> stock[b] - taken[b]]
    BY <1>3 DEF CommitSaleFails
  <2> DEFINE taken == [b \in Batches |-> IF b <= done THEN allocation[s][b] ELSE 0]
  <2>2. taken \in [Batches -> Nat]
    BY <1>b
  <2>3. allocation' = [allocation EXCEPT ![s] = taken] /\ stock' = [b \in Batches |-> stock[b] - taken[b]]
    BY <2>1
  <2> HIDE DEF taken
  <2>4. goodsOK'
    BY <1>b, <2>2, <2>3
  <2>5. OnlyAgentsDebit'
    BY <1>a, <1>b, <1>3 DEF CommitSaleFails, Moves, OnlyAgentsDebit, RowTypes
  <2>6. failures' \in 0 .. MaxFailures
    BY <1>b, <1>3, StockAssumption DEF CommitSaleFails, Failing
  <2> QED
    BY <1>b, <1>3, <2>4, <2>5, <2>6 DEF CommitSaleFails, UndoReads, rows, money
<1>4. ASSUME NEW s \in Sales,
             \/ CreateContract(s) \/ DebitWallet(s) \/ RecordPayment(s) \/ RecordPaymentFails(s)
             \/ RefundDebit(s) \/ EnqueueNextPayment(s) \/ GeneratePayment(s) \/ AbandonSale(s)
      PROVE  goodsOK' /\ restOK' /\ OnlyAgentsDebit' /\ UndoReads'
  <2>1. UNCHANGED <<allocation, stock, undo, assigned>>
    BY <1>4 DEF CreateContract, DebitWallet, RecordPayment, RecordPaymentFails, RefundDebit,
       EnqueueNextPayment, GeneratePayment, AbandonSale, goods
  <2>2. OnlyAgentsDebit'
    BY <1>a, <1>b, <1>4 DEF CreateContract, DebitWallet, RecordPayment, RecordPaymentFails, RefundDebit,
       EnqueueNextPayment, GeneratePayment, AbandonSale, Moves, Paying, OnlyAgentsDebit, RowTypes
  <2>3. charged' \subseteq AgentSales
    BY <1>b, <1>4 DEF CreateContract, DebitWallet, RecordPayment, RecordPaymentFails, RefundDebit,
       EnqueueNextPayment, GeneratePayment, AbandonSale, OnlyAgentsDebit, money
  <2>4. balance' \in Nat
    BY <1>b, <1>4, ItemsAssumption DEF CreateContract, DebitWallet, RecordPayment, RecordPaymentFails,
       RefundDebit, EnqueueNextPayment, GeneratePayment, AbandonSale, money
  <2>5. jobs' \subseteq Sales /\ failures' \in 0 .. MaxFailures
    BY <1>b, <1>4, StockAssumption DEF CreateContract, DebitWallet, RecordPayment, RecordPaymentFails,
       RefundDebit, EnqueueNextPayment, GeneratePayment, AbandonSale, Failing
  <2> QED
    BY <1>b, <2>1, <2>2, <2>3, <2>4, <2>5 DEF UndoReads
<1>5. ASSUME NEW s \in Sales, ProcessNextPayment(s) \/ ReceivePayment(s)
      PROVE  goodsOK' /\ restOK' /\ OnlyAgentsDebit' /\ UndoReads'
  BY <1>b, <1>5 DEF ProcessNextPayment, ReceivePayment, OnlyAgentsDebit, UndoReads, goods, money
<1>6. ASSUME NEW d \in Devices, AssignDevice(d)
      PROVE  goodsOK' /\ restOK' /\ OnlyAgentsDebit' /\ UndoReads'
  BY <1>b, <1>6 DEF AssignDevice, OnlyAgentsDebit, UndoReads, goods, money
<1>7. ASSUME NEW o \in Operators, NEW s \in Sales, ReadSaleToUndo(o, s)
      PROVE  goodsOK' /\ restOK' /\ OnlyAgentsDebit' /\ UndoReads'
  <2>1. UndoReads'
    BY <1>a, <1>b, <1>7 DEF ReadSaleToUndo, UndoReads, RowTypes
  <2> QED
    BY <1>b, <1>7, <2>1 DEF ReadSaleToUndo, OnlyAgentsDebit, goods, money
<1>8. ASSUME NEW o \in Operators, UndoSale(o)
      PROVE  goodsOK' /\ restOK' /\ OnlyAgentsDebit' /\ UndoReads'
  <2>1. UndoReads' /\ undo[o].sale \in Sales
    BY <1>a, <1>b, <1>8 DEF UndoSale, EndsUndo, UndoReads, RowTypes
  <2>2. goodsOK'
    BY <1>b, <1>8, <2>1 DEF UndoSale
  <2>3. CreditOf(o) \in Nat
    BY <1>a DEF CreditOf, RowTypes
  <2>4. balance' \in Nat /\ assigned' \subseteq Devices
    BY <1>b, <1>8, <2>3 DEF UndoSale, UnassignDevices
  <2> QED
    BY <1>b, <1>8, <2>1, <2>2, <2>4 DEF UndoSale, OnlyAgentsDebit
<1>9. ASSUME NEW o \in Operators, UndoFails(o)
      PROVE  goodsOK' /\ restOK' /\ OnlyAgentsDebit' /\ UndoReads'
  <2>1. UndoReads'
    BY <1>a, <1>b, <1>9 DEF UndoFails, EndsUndo, UndoReads, RowTypes
  <2>2. assigned' \subseteq Devices /\ failures' \in 0 .. MaxFailures
    BY <1>b, <1>9, StockAssumption DEF UndoFails, UnassignDevices, Failing
  <2> QED
    BY <1>b, <1>9, <2>1, <2>2 DEF UndoFails, OnlyAgentsDebit, goods, money
<1> QED
  BY NextCases, <1>1, <1>2, <1>3, <1>4, <1>5, <1>6, <1>7, <1>8, <1>9

LEMMA StutterTypes == TypeInv /\ UNCHANGED vars => TypeInv'
BY DEF TypeInv, TypeOK, OnlyAgentsDebit, UndoReads, vars, goods, rows, money

LEMMA TypeInvariant == Spec => []TypeInv
BY InitTypes, StepTypes, StutterTypes, PTL DEF Spec

\* The types hold whatever races: in particular debitWallet and the refunds
\* never leave the wallet of the agent below zero.
THEOREM SaleTypeCorrect == Spec => []TypeOK
<1>1. TypeInv => TypeOK
  BY DEF TypeInv
<1> QED
  BY <1>1, TypeInvariant, PTL

-----------------------------------------------------------------------------
(* The stock *)

\* A request that passed its checks fits into the stock that is left, and a
\* rolled back one has no sale.
StockInv ==
  /\ StockAccounted
  /\ \A s \in Sales, b \in Batches : stage[s] = "validated" => allocation[s][b] <= stock[b]
  /\ \A s \in Sales : stage[s] = "rolledback" => sale[s] = "none"

KeptOf(b) == [s \in Sales |-> Kept(s, b)]

LEMMA SoldIsSum ==
  ASSUME TypeOK
  PROVE  \A b \in Batches :
           /\ \A s \in Sales : KeptOf(b)[s] = Kept(s, b) /\ Kept(s, b) \in Nat
           /\ Sold(b) = SumFunctionOnSet(KeptOf(b), Sales) /\ Sold(b) \in Int
           /\ stock[b] \in Int /\ InitialStock[b] \in Int
<1> SUFFICES ASSUME NEW b \in Batches
             PROVE  /\ \A s \in Sales : KeptOf(b)[s] = Kept(s, b) /\ Kept(s, b) \in Nat
                    /\ Sold(b) = SumFunctionOnSet(KeptOf(b), Sales) /\ Sold(b) \in Int
                    /\ stock[b] \in Int /\ InitialStock[b] \in Int
  OBVIOUS
<1>1. \A s \in Sales : KeptOf(b)[s] = Kept(s, b) /\ Kept(s, b) \in Nat
  BY DEF KeptOf, Kept, TypeOK
<1>2. Sold(b) = SumFunctionOnSet(KeptOf(b), Sales)
  BY DEF Sold, SumFunction, KeptOf
<1> QED
  BY <1>1, <1>2, SumType, SalesAssumption, StockAssumption DEF TypeOK

\* When one sale moves, only its part of the sum changes.
LEMMA OneSaleMoves ==
  ASSUME TypeOK, TypeOK', NEW s \in Sales, NEW b \in Batches,
         \A t \in Sales \ {s} : Kept(t, b)' = Kept(t, b)
  PROVE  Sold(b)' = Sold(b) - Kept(s, b) + Kept(s, b)'
<1>1. PICK before : before = KeptOf(b)
  OBVIOUS
<1>2. PICK after : after = KeptOf(b)'
  OBVIOUS
<1>3. \A t \in Sales : /\ before[t] = Kept(t, b) /\ after[t] = Kept(t, b)'
                       /\ before[t] \in Int /\ after[t] \in Int
  BY <1>1, <1>2 DEF KeptOf, Kept, TypeOK
<1>4. Sold(b) = SumFunctionOnSet(before, Sales) /\ Sold(b)' = SumFunctionOnSet(after, Sales)
  BY <1>1, <1>2 DEF Sold, SumFunction, KeptOf
<1>5. SumFunctionOnSet(after, Sales) = SumFunctionOnSet(before, Sales) - before[s] + after[s]
  BY <1>3, SumChange, SalesAssumption
<1> QED
  BY <1>3, <1>4, <1>5

\* A step that gives as much to the stock as a sale keeps less.
LEMMA StockMoves ==
  ASSUME TypeOK, TypeOK', StockAccounted, NEW s \in Sales,
         \A t \in Sales \ {s}, b \in Batches : Kept(t, b)' = Kept(t, b),
         \A b \in Batches : stock'[b] = stock[b] + Kept(s, b) - Kept(s, b)' /\ stock'[b] >= 0
  PROVE  StockAccounted'
<1> SUFFICES ASSUME NEW b \in Batches
             PROVE  stock'[b] + Sold(b)' = InitialStock[b] /\ stock'[b] >= 0
  BY DEF StockAccounted
<1>1. Sold(b)' = Sold(b) - Kept(s, b) + Kept(s, b)'
  BY OneSaleMoves
<1>2. stock[b] + Sold(b) = InitialStock[b] /\ stock'[b] = stock[b] + Kept(s, b) - Kept(s, b)'
  BY DEF StockAccounted
<1>3. Kept(s, b) \in Int /\ Kept(s, b)' \in Int /\ Sold(b) \in Int /\ stock[b] \in Int
  <2>1. Kept(s, b)' \in Int
    BY DEF Kept, TypeOK
  <2> QED
    BY <2>1, SoldIsSum
<1> QED
  BY <1>1, <1>2, <1>3

LEMMA StockStays ==
  ASSUME StockAccounted, UNCHANGED stock, \A t \in Sales, b \in Batches : Kept(t, b)' = Kept(t, b)
  PROVE  StockAccounted'
<1>1. \A b \in Batches : Sold(b)' = Sold(b)
  BY DEF Sold
<1> QED
  BY <1>1 DEF StockAccounted

LEMMA InitStock == Init => StockInv
<1> SUFFICES ASSUME Init PROVE StockInv
  OBVIOUS
<1>1. TypeOK
  BY InitTypes DEF TypeInv
<1>2. \A b \in Batches, s \in Sales : Kept(s, b) = 0
  BY DEF Init, Kept, Exists
<1>3. \A b \in Batches : Sold(b) = 0
  BY <1>1, <1>2, SoldIsSum, SumZero, SalesAssumption
<1> QED
  BY <1>3, StockAssumption DEF Init, StockInv, StockAccounted

LEMMA ValidateStock ==
  ASSUME TypeInv, RequestInv, StockInv, NEW s \in Sales, ValidateSale(s)
  PROVE  StockInv'
<1>1. /\ stage[s] = "new" /\ sale[s] = "none" /\ UNCHANGED <<stock, sale>>
      /\ stage' = [stage EXCEPT ![s] = "validated"]
      /\ allocation' = [allocation EXCEPT ![s] = Allocation(Quantity[s])]
  BY DEF ValidateSale, Moves, rows, RequestInv
<1>2. StockAccounted'
  BY <1>1, StockStays DEF TypeInv, TypeOK, StockInv, Kept, Exists
<1>3. \A b \in Batches : allocation'[s][b] <= stock'[b]
  BY <1>1, AllocationBounds, ItemsAssumption DEF TypeInv, TypeOK, StockInv, StockAccounted
<1> QED
  BY <1>1, <1>2, <1>3 DEF TypeInv, TypeOK, StockInv

LEMMA CommitStock ==
  ASSUME TypeInv, TypeInv', RequestInv, StockInv, NEW s \in Sales, CommitSale(s)
  PROVE  StockInv'
<1>1. /\ stage[s] = "validated" /\ sale[s] = "none" /\ allocation' = allocation
      /\ sale' = [sale EXCEPT ![s] = "UNPAID"]
      /\ \E next \in {"contracting", "debiting", "paying"} : stage' = [stage EXCEPT ![s] = next]
      /\ stock' = [b \in Batches |-> stock[b] - allocation[s][b]]
  BY DEF CommitSale, Moves, Paying, RequestInv
<1>2. \A b \in Batches : /\ Kept(s, b) = 0 /\ Kept(s, b)' = allocation[s][b]
                         /\ \A t \in Sales \ {s} : Kept(t, b)' = Kept(t, b)
  BY <1>1 DEF TypeInv, TypeOK, Kept, Exists
<1>3. \A b \in Batches : stock'[b] = stock[b] + Kept(s, b) - Kept(s, b)' /\ stock'[b] >= 0
  BY <1>1, <1>2 DEF TypeInv, TypeOK, StockInv
<1>4. StockAccounted'
  BY <1>2, <1>3, StockMoves DEF TypeInv, StockInv
<1>5. \A t \in Sales : stage'[t] # "validated"
  BY <1>1 DEF TypeInv, TypeOK, RequestInv
<1> QED
  BY <1>1, <1>4, <1>5 DEF TypeInv, TypeOK, StockInv

LEMMA FailStock ==
  ASSUME TypeInv, TypeInv', RequestInv, StockInv, NEW s \in Sales, CommitSaleFails(s)
  PROVE  StockInv'
<1>1. PICK done \in 0 .. NumBatches :
        LET taken == [b \in Batches |-> IF b <= done THEN allocation[s][b] ELSE 0]
        IN  /\ allocation' = [allocation EXCEPT ![s] = taken]
            /\ stock' = [b \in Batches |-> stock[b] - taken[b]]
  BY DEF CommitSaleFails
<1> DEFINE taken == [b \in Batches |-> IF b <= done THEN allocation[s][b] ELSE 0]
<1>2. allocation' = [allocation EXCEPT ![s] = taken] /\ stock' = [b \in Batches |-> stock[b] - taken[b]]
  BY <1>1
<1>3. /\ stage[s] = "validated" /\ sale[s] = "none" /\ sale' = sale
      /\ stage' = [stage EXCEPT ![s] = "rolledback"]
  BY DEF CommitSaleFails, Moves, RequestInv, rows
<1>4. \A b \in Batches : taken[b] \in Nat /\ taken[b] <= stock[b]
  BY <1>3 DEF TypeInv, TypeOK, StockInv, StockAccounted
<1> HIDE DEF taken
<1>5. \A b \in Batches : /\ Kept(s, b) = 0 /\ Kept(s, b)' = taken[b]
                         /\ \A t \in Sales \ {s} : Kept(t, b)' = Kept(t, b)
  BY <1>2, <1>3 DEF TypeInv, TypeOK, Kept, Exists
<1>6. \A b \in Batches : stock'[b] = stock[b] + Kept(s, b) - Kept(s, b)' /\ stock'[b] >= 0
  BY <1>2, <1>4, <1>5 DEF TypeInv, TypeOK
<1>7. StockAccounted'
  BY <1>5, <1>6, StockMoves DEF TypeInv, StockInv
<1>8. \A t \in Sales : stage'[t] # "validated"
  BY <1>3 DEF TypeInv, TypeOK, RequestInv
<1> QED
  BY <1>3, <1>7, <1>8 DEF TypeInv, TypeOK, StockInv

LEMMA UndoStock ==
  ASSUME TypeInv, TypeInv', RequestInv, StockInv, NEW o \in Operators, UndoSale(o)
  PROVE  StockInv'
<1>1. PICK s \in Sales : s = undo[o].sale
  BY DEF UndoSale, TypeInv, UndoReads
<1>2. /\ Exists(s) /\ UNCHANGED <<stage, allocation>>
      /\ stock' = [b \in Batches |-> stock[b] + allocation[s][b]]
      /\ sale' = [sale EXCEPT ![s] = "undone"]
  BY <1>1 DEF UndoSale
<1>3. stage[s] \notin {"rolledback", "validated"}
  BY <1>2 DEF StockInv, RequestInv, Exists
<1>4. \A b \in Batches : /\ Kept(s, b) = allocation[s][b] /\ Kept(s, b)' = 0
                         /\ \A t \in Sales \ {s} : Kept(t, b)' = Kept(t, b)
  BY <1>2, <1>3 DEF TypeInv, TypeOK, Kept, Exists
<1>5. \A b \in Batches : /\ stock'[b] = stock[b] + Kept(s, b) - Kept(s, b)'
                         /\ stock'[b] >= stock[b] /\ stock[b] >= 0
  BY <1>2, <1>4 DEF TypeInv, TypeOK, StockInv, StockAccounted
<1>6. \A b \in Batches : stock'[b] >= 0
  BY <1>5 DEF TypeInv, TypeOK
<1>7. StockAccounted'
  BY <1>4, <1>5, <1>6, StockMoves DEF TypeInv, StockInv
<1>8. \A t \in Sales, b \in Batches : stage'[t] = "validated" => allocation'[t][b] <= stock'[b]
  BY <1>2, <1>5 DEF TypeInv, TypeOK, StockInv
<1> QED
  BY <1>2, <1>3, <1>7, <1>8 DEF TypeInv, TypeOK, StockInv

LEMMA StepStock ==
  ASSUME TypeInv, TypeInv', RequestInv, StockInv, Next
  PROVE  StockInv'
<1>1. ASSUME NEW s \in Sales,
             \/ CreateContract(s) \/ DebitWallet(s) \/ RecordPayment(s) \/ RecordPaymentFails(s)
             \/ RefundDebit(s) \/ EnqueueNextPayment(s) \/ GeneratePayment(s) \/ AbandonSale(s)
      PROVE  StockInv'
  <2>1. /\ UNCHANGED <<allocation, stock, sale>>
        /\ stage[s] \notin {"validated", "rolledback"}
        /\ \E next \in Stage \ {"validated", "rolledback"} : stage' = [stage EXCEPT ![s] = next]
    BY <1>1 DEF CreateContract, DebitWallet, RecordPayment, RecordPaymentFails, RefundDebit,
       EnqueueNextPayment, GeneratePayment, AbandonSale, Moves, Paying, Stage, goods, rows
  <2>2. \A t \in Sales, b \in Batches : Kept(t, b)' = Kept(t, b)
    BY <2>1 DEF Kept, Exists, TypeInv, TypeOK
  <2> QED
    BY <2>1, <2>2, StockStays DEF StockInv, TypeInv, TypeOK
<1>2. ASSUME NEW s \in Sales, ProcessNextPayment(s) \/ ReceivePayment(s)
      PROVE  StockInv'
  <2>1. /\ UNCHANGED <<allocation, stock, stage>>
        /\ \/ sale' = sale
           \/ Exists(s) /\ \E status \in {"IN_INSTALLMENT", "COMPLETED"} :
                             sale' = [sale EXCEPT ![s] = status]
    BY <1>2 DEF ProcessNextPayment, ReceivePayment, PostProcessed, goods, RequestInv
  <2>2. \A t \in Sales, b \in Batches : Kept(t, b)' = Kept(t, b)
    BY <2>1 DEF Kept, Exists, TypeInv, TypeOK
  <2>3. \A t \in Sales : sale[t] = "none" => sale'[t] = "none"
    BY <2>1 DEF Exists, TypeInv, TypeOK
  <2> QED
    BY <2>1, <2>2, <2>3, StockStays DEF StockInv
<1>3. ASSUME UNCHANGED <<allocation, stock, stage, sale>>
      PROVE  StockInv'
  BY <1>3, StockStays DEF StockInv, Kept, Exists
<1>4. ASSUME \/ \E d \in Devices : AssignDevice(d)
             \/ \E o \in Operators, s \in Sales : ReadSaleToUndo(o, s)
             \/ \E o \in Operators : UndoFails(o)
      PROVE  UNCHANGED <<allocation, stock, stage, sale>>
  BY <1>4 DEF AssignDevice, ReadSaleToUndo, UndoFails, goods, rows
<1> QED
  BY NextCases, ValidateStock, CommitStock, FailStock, UndoStock, <1>1, <1>2, <1>3, <1>4

LEMMA StutterStock == StockInv /\ UNCHANGED vars => StockInv'
<1> SUFFICES ASSUME StockInv, UNCHANGED vars PROVE StockInv'
  OBVIOUS
<1> QED
  BY StockStays DEF StockInv, Kept, Exists, vars, goods, rows

\* As long as no two requests are between their checks and their sale, what is
\* missing from the stock is what the sales took, whatever is reversed, by
\* however many operators at once, and whichever transaction fails halfway.
THEOREM StockIsAccounted == ~Racing => (Spec => []StockAccounted)
<1> SUFFICES ASSUME ~Racing PROVE Spec => []StockAccounted
  OBVIOUS
<1>1. Init => TypeInv /\ RequestInv /\ StockInv
  BY InitTypes, InitRequests, InitStock
<1>2. TypeInv /\ RequestInv /\ StockInv /\ [Next]_vars => (TypeInv /\ RequestInv /\ StockInv)'
  BY StepTypes, StutterTypes, StepRequests, StutterRequests, StepStock, StutterStock
<1>3. StockInv => StockAccounted
  BY DEF StockInv
<1> QED
  BY <1>1, <1>2, <1>3, PTL DEF Spec

-----------------------------------------------------------------------------
(* Refunds *)

\* What the agent has paid for sale s, whether or not it is recorded yet.
Owed(s) == IF stage[s] \in {"recording", "refunding"} \/ payment[s] = "COMPLETED"
           THEN Amount[s] ELSE 0
Owing == [s \in AgentSales |-> Owed(s)]

\* The request is past its payment: the sale has one as long as it is there.
Settled(s) == stage[s] \in {"enqueuing", "ended"} /\ (Exists(s) => payment[s] = "COMPLETED")

\* What is counted as paid, on the sale or by an operator who has read it, was
\* paid by a payment that is there as long as the sale is.
PaidInv ==
  \A s \in AgentSales :
    /\ s \in jobs \/ totalPaid[s] # 0 => Settled(s)
    /\ totalPaid[s] <= Amount[s]
    /\ \A o \in Operators :
         undo[o].sale = s => /\ undo[o].totalPaid # 0 => Settled(s)
                             /\ undo[o].totalPaid <= Amount[s]

RefundInv == balance + SumFunctionOnSet(Owing, AgentSales) <= InitialBalance

LEMMA SettledStays ==
  ASSUME SagaInv, Next, NEW a \in AgentSales, Settled(a)
  PROVE  Settled(a)'
<1>a. a \in Sales /\ Saga(a)
  BY SalesAssumption DEF SagaInv
<1> USE <1>a DEF SagaInv, RowTypes, Settled, Saga, Exists
<1>1. ASSUME NEW s \in Sales,
             \/ ValidateSale(s) \/ CommitSale(s) \/ CommitSaleFails(s) \/ CreateContract(s)
             \/ DebitWallet(s) \/ RecordPayment(s) \/ RecordPaymentFails(s) \/ RefundDebit(s)
      PROVE  Settled(a)'
  <2>1. stage[s] \notin {"enqueuing", "ended"}
    BY <1>1 DEF ValidateSale, CommitSale, CommitSaleFails, CreateContract, DebitWallet, RecordPayment,
       RecordPaymentFails, RefundDebit
  <2>2. s # a
    BY <2>1
  <2>3. stage'[a] = stage[a] /\ sale'[a] = sale[a] /\ payment'[a] = payment[a]
    BY <1>1, <2>2 DEF ValidateSale, CommitSale, CommitSaleFails, CreateContract, DebitWallet,
       RecordPayment, RecordPaymentFails, RefundDebit, Moves, rows
  <2> QED
    BY <2>3
<1>2. ASSUME NEW s \in Sales, EnqueueNextPayment(s) \/ AbandonSale(s)
      PROVE  Settled(a)'
  BY <1>2 DEF EnqueueNextPayment, AbandonSale, Moves, rows
<1>3. ASSUME NEW s \in Sales, GeneratePayment(s)
      PROVE  Settled(a)'
  BY <1>3 DEF GeneratePayment, Moves
<1>4. ASSUME NEW s \in Sales, ProcessNextPayment(s) \/ ReceivePayment(s)
      PROVE  Settled(a)'
  BY <1>4 DEF ProcessNextPayment, ReceivePayment, PostProcessed
<1>5. ASSUME \/ \E d \in Devices : AssignDevice(d)
             \/ \E o \in Operators, s \in Sales : ReadSaleToUndo(o, s)
             \/ \E o \in Operators : UndoFails(o)
      PROVE  Settled(a)'
  BY <1>5 DEF AssignDevice, ReadSaleToUndo, UndoFails, rows
<1>6. ASSUME NEW o \in Operators, UndoSale(o)
      PROVE  Settled(a)'
  BY <1>6 DEF UndoSale
<1> QED
  BY NextCases, <1>1, <1>2, <1>3, <1>4, <1>5, <1>6

LEMMA StepPaid ==
  ASSUME SagaInv, PaidInv, Next
  PROVE  PaidInv'
<1> SUFFICES ASSUME NEW a \in AgentSales
             PROVE  /\ a \in jobs' \/ totalPaid'[a] # 0 => Settled(a)'
                    /\ totalPaid'[a] <= Amount[a]
                    /\ \A o \in Operators :
                         undo'[o].sale = a => /\ undo'[o].totalPaid # 0 => Settled(a)'
                                              /\ undo'[o].totalPaid <= Amount[a]
  BY DEF PaidInv
<1>a. a \in Sales /\ Saga(a) /\ Amount[a] \in Nat /\ (Settled(a) => Settled(a)')
  BY SalesAssumption, ItemsAssumption, SettledStays DEF SagaInv
<1>b. RowTypes
  BY DEF SagaInv
<1>1. ASSUME UNCHANGED <<jobs, totalPaid, undo>>
      PROVE  /\ a \in jobs' \/ totalPaid'[a] # 0 => Settled(a)'
             /\ totalPaid'[a] <= Amount[a]
             /\ \A o \in Operators :
                  undo'[o].sale = a => /\ undo'[o].totalPaid # 0 => Settled(a)'
                                       /\ undo'[o].totalPaid <= Amount[a]
  BY <1>1, <1>a DEF PaidInv
<1>2. ASSUME NEW s \in Sales, EnqueueNextPayment(s)
      PROVE  /\ a \in jobs' \/ totalPaid'[a] # 0 => Settled(a)'
             /\ totalPaid'[a] <= Amount[a]
             /\ \A o \in Operators :
                  undo'[o].sale = a => /\ undo'[o].totalPaid # 0 => Settled(a)'
                                       /\ undo'[o].totalPaid <= Amount[a]
  <2>1. jobs' = jobs \cup {s} /\ UNCHANGED <<totalPaid, undo>> /\ stage[s] = "enqueuing"
    BY <1>2 DEF EnqueueNextPayment, rows
  <2>2. s = a => Settled(a)
    BY <1>a, <2>1 DEF Saga, Settled
  <2> QED
    BY <2>1, <2>2, <1>a DEF PaidInv
<1>3. ASSUME NEW s \in Sales, ProcessNextPayment(s) \/ ReceivePayment(s)
      PROVE  /\ a \in jobs' \/ totalPaid'[a] # 0 => Settled(a)'
             /\ totalPaid'[a] <= Amount[a]
             /\ \A o \in Operators :
                  undo'[o].sale = a => /\ undo'[o].totalPaid # 0 => Settled(a)'
                                       /\ undo'[o].totalPaid <= Amount[a]
  <2>1. jobs' \subseteq jobs /\ undo' = undo
    BY <1>3 DEF ProcessNextPayment, ReceivePayment
  <2>2. totalPaid'[a] # totalPaid[a] => s = a /\ totalPaid'[a] = Amount[a]
    BY <1>3, <1>a, <1>b DEF ProcessNextPayment, ReceivePayment, PostProcessed, RowTypes
  <2>3. s = a => a \in jobs
    BY <1>3, <1>a DEF ProcessNextPayment, ReceivePayment, Saga
  <2> QED
    BY <2>1, <2>2, <2>3, <1>a DEF PaidInv
<1>4. ASSUME NEW o \in Operators, NEW s \in Sales, ReadSaleToUndo(o, s)
      PROVE  /\ a \in jobs' \/ totalPaid'[a] # 0 => Settled(a)'
             /\ totalPaid'[a] <= Amount[a]
             /\ \A p \in Operators :
                  undo'[p].sale = a => /\ undo'[p].totalPaid # 0 => Settled(a)'
                                       /\ undo'[p].totalPaid <= Amount[a]
  <2>1. /\ UNCHANGED <<jobs, totalPaid>>
        /\ undo' = [undo EXCEPT ![o] = [sale |-> s, totalPaid |-> totalPaid[s],
                                        task |-> task[s] = "PENDING"]]
    BY <1>4 DEF ReadSaleToUndo, rows
  <2>2. undo'[o].sale = s /\ undo'[o].totalPaid = totalPaid[s]
        /\ \A p \in Operators \ {o} : undo'[p] = undo[p]
    BY <2>1, <1>b DEF RowTypes
  <2> QED
    BY <2>1, <2>2, <1>a DEF PaidInv
<1>5. ASSUME NEW o \in Operators, UndoSale(o) \/ UndoFails(o)
      PROVE  /\ a \in jobs' \/ totalPaid'[a] # 0 => Settled(a)'
             /\ totalPaid'[a] <= Amount[a]
             /\ \A p \in Operators :
                  undo'[p].sale = a => /\ undo'[p].totalPaid # 0 => Settled(a)'
                                       /\ undo'[p].totalPaid <= Amount[a]
  <2>1. UNCHANGED <<jobs, totalPaid>> /\ undo' = [undo EXCEPT ![o] = NoUndo]
    BY <1>5 DEF UndoSale, UndoFails, EndsUndo, rows
  <2>2. undo'[o].sale = NoSale /\ NoSale # a /\ \A p \in Operators \ {o} : undo'[p] = undo[p]
    BY <2>1, <1>a, <1>b, SalesAssumption DEF RowTypes, NoUndo
  <2> QED
    BY <2>1, <2>2, <1>a DEF PaidInv
<1>6. ASSUME NEW s \in Sales,
             \/ ValidateSale(s) \/ CommitSale(s) \/ CommitSaleFails(s) \/ CreateContract(s)
             \/ DebitWallet(s) \/ RecordPayment(s) \/ RecordPaymentFails(s) \/ RefundDebit(s)
             \/ GeneratePayment(s) \/ AbandonSale(s)
      PROVE  UNCHANGED <<jobs, totalPaid, undo>>
  BY <1>6 DEF ValidateSale, CommitSale, CommitSaleFails, CreateContract, DebitWallet, RecordPayment,
     RecordPaymentFails, RefundDebit, GeneratePayment, AbandonSale, rows
<1>7. ASSUME NEW d \in Devices, AssignDevice(d)
      PROVE  UNCHANGED <<jobs, totalPaid, undo>>
  BY <1>7 DEF AssignDevice, rows
<1> QED
  BY NextCases, <1>1, <1>2, <1>3, <1>4, <1>5, <1>6, <1>7

LEMMA InitPaid == Init => PaidInv
BY SalesAssumption, ItemsAssumption DEF Init, PaidInv, NoUndo

LEMMA OwingType ==
  /\ IsFiniteSet(AgentSales)
  /\ \A s \in AgentSales : s \in Sales /\ Amount[s] \in Nat /\ Owed(s) \in Int /\ Owing[s] = Owed(s)
<1>1. IsFiniteSet(AgentSales)
  BY SalesAssumption, FS_Subset
<1>2. \A s \in AgentSales : s \in Sales /\ Amount[s] \in Nat
  BY SalesAssumption, ItemsAssumption
<1>3. \A s \in AgentSales : Owed(s) \in Int /\ Owing[s] = Owed(s)
  BY <1>2 DEF Owed, Owing
<1> QED
  BY <1>1, <1>2, <1>3

\* A step on sale s that takes from the wallet what the agent owes more for it.
LEMMA RefundMoves ==
  ASSUME balance \in Int, balance' \in Int, RefundInv, NEW s,
         \A a \in AgentSales \ {s} : Owed(a)' = Owed(a),
         s \in AgentSales => balance' + Owed(s)' <= balance + Owed(s),
         s \notin AgentSales => balance' <= balance
  PROVE  RefundInv'
<1>1. PICK before : before = Owing
  OBVIOUS
<1>2. PICK after : after = Owing'
  OBVIOUS
<1>3. \A a \in AgentSales : /\ before[a] = Owed(a) /\ after[a] = Owed(a)'
                            /\ before[a] \in Int /\ after[a] \in Int
  BY <1>1, <1>2, OwingType DEF Owing, Owed
<1>4. PICK was \in Int : was = SumFunctionOnSet(before, AgentSales) /\ balance + was <= InitialBalance
  BY <1>1, <1>3, OwingType, SumType DEF RefundInv
<1>5. PICK is \in Int : is = SumFunctionOnSet(after, AgentSales)
  BY <1>3, OwingType, SumType
<1>6. is = IF s \in AgentSales THEN was - before[s] + after[s] ELSE was
  <2>1. CASE s \in AgentSales
    <3>1. SumFunctionOnSet(after, AgentSales)
            = SumFunctionOnSet(before, AgentSales) - before[s] + after[s]
      BY <1>3, <2>1, OwingType, SumChange
    <3> QED
      BY <1>4, <1>5, <2>1, <3>1
  <2>2. CASE s \notin AgentSales
    <3>1. SumFunctionOnSet(after, AgentSales) = SumFunctionOnSet(before, AgentSales)
      <4>1. \A a \in AgentSales : after[a] = before[a]
        BY <1>3, <2>2
      <4> QED
        BY <4>1, OwingType, SumSame
    <3> QED
      BY <1>4, <1>5, <2>2, <3>1
  <2> QED
    BY <2>1, <2>2
<1>7. InitialBalance \in Int
  BY StockAssumption
<1>8. balance' + is <= InitialBalance
  <2>1. CASE s \in AgentSales
    <3>1. balance' + after[s] <= balance + before[s] /\ before[s] \in Int /\ after[s] \in Int
      BY <1>3, <2>1
    <3> QED
      BY <1>4, <1>5, <1>6, <1>7, <2>1, <3>1
  <2>2. CASE s \notin AgentSales
    <3>1. balance' <= balance /\ is = was
      BY <1>6, <2>2
    <3> QED
      BY <1>4, <1>7, <3>1
  <2> QED
    BY <2>1, <2>2
<1> QED
  BY <1>2, <1>5, <1>8 DEF RefundInv

LEMMA InitRefund == Init => RefundInv
<1> SUFFICES ASSUME Init PROVE RefundInv
  OBVIOUS
<1>1. \A s \in AgentSales : Owing[s] = 0
  BY SalesAssumption DEF Init, Owing, Owed
<1>2. SumFunctionOnSet(Owing, AgentSales) = 0
  BY <1>1, OwingType, SumZero
<1> QED
  BY <1>2, StockAssumption DEF Init, RefundInv

LEMMA UndoRefund ==
  ASSUME TypeInv, TypeInv', PaidInv, RefundInv, NEW o \in Operators, UndoSale(o)
  PROVE  RefundInv'
<1>1. PICK s \in Sales : s = undo[o].sale
  BY DEF UndoSale, TypeInv, UndoReads
<1>2. /\ Exists(s) /\ stage' = stage /\ balance' = balance + CreditOf(o)
      /\ payment' = [payment EXCEPT ![s] = "none"]
  BY <1>1 DEF UndoSale
<1>3. \A a \in AgentSales \ {s} : Owed(a)' = Owed(a)
  BY <1>2, OwingType DEF Owed, TypeInv, TypeOK
<1>4. balance \in Int /\ balance' \in Int
  BY DEF TypeInv, TypeOK
<1>5. CASE s \in AgentSales
  <2>1. Amount[s] \in Nat /\ undo[o].totalPaid \in Nat /\ undo[o].totalPaid <= Amount[s]
        /\ CreditOf(o) = undo[o].totalPaid
    BY <1>1, <1>5, OwingType DEF PaidInv, CreditOf, TypeInv, TypeOK
  <2>2. CASE undo[o].totalPaid = 0
    <3>1. Owed(s)' <= Owed(s)
      BY <1>2, <2>1 DEF Owed, TypeInv, TypeOK
    <3>2. Owed(s)' \in Int /\ Owed(s) \in Int
      BY <2>1 DEF Owed
    <3>3. balance' = balance
      BY <1>2, <1>4, <2>1, <2>2
    <3> QED
      BY <1>3, <1>4, <1>5, <3>1, <3>2, <3>3, RefundMoves
  <2>3. CASE undo[o].totalPaid # 0
    <3>1. Settled(s)
      BY <1>1, <1>5, <2>3 DEF PaidInv
    <3>2. Owed(s) = Amount[s] /\ Owed(s)' = 0
      BY <1>2, <3>1 DEF Settled, Owed, TypeInv, TypeOK
    <3>3. balance' + Owed(s)' <= balance + Owed(s)
      BY <1>2, <1>4, <2>1, <3>2
    <3> QED
      BY <1>3, <1>4, <1>5, <3>3, RefundMoves
  <2> QED
    BY <2>2, <2>3
<1>6. CASE s \notin AgentSales
  <2>1. balance' <= balance
    BY <1>1, <1>2, <1>4, <1>6 DEF CreditOf
  <2> QED
    BY <1>3, <1>4, <1>6, <2>1, RefundMoves
<1> QED
  BY <1>5, <1>6

LEMMA StepRefund ==
  ASSUME TypeInv, TypeInv', SagaInv, PaidInv, RefundInv, Next
  PROVE  RefundInv'
<1>a. balance \in Int /\ balance' \in Int /\ balance <= balance
  BY DEF TypeInv, TypeOK
<1>b. \A s \in AgentSales : Saga(s) /\ Amount[s] \in Nat /\ Owed(s) \in Int
  BY OwingType DEF SagaInv
<1>1. ASSUME balance' = balance, NEW s,
             \A t \in Sales \ {s} : stage'[t] = stage[t] /\ payment'[t] = payment[t],
             s \in AgentSales => Owed(s)' \in Int /\ Owed(s)' <= Owed(s)
      PROVE  RefundInv'
  <2>1. \A a \in AgentSales \ {s} : Owed(a)' = Owed(a)
    BY <1>1, OwingType DEF Owed
  <2>2. s \in AgentSales => balance' + Owed(s)' <= balance + Owed(s)
    BY <1>1, <1>a, <1>b
  <2> QED
    BY <1>1, <1>a, <2>1, <2>2, RefundMoves
<1>2. ASSUME NEW s \in Sales,
             \/ ValidateSale(s) \/ CommitSale(s) \/ CommitSaleFails(s) \/ CreateContract(s)
             \/ RecordPayment(s) \/ RecordPaymentFails(s) \/ EnqueueNextPayment(s)
             \/ GeneratePayment(s) \/ AbandonSale(s) \/ ProcessNextPayment(s) \/ ReceivePayment(s)
      PROVE  RefundInv'
  <2>1. balance' = balance
    BY <1>2 DEF ValidateSale, CommitSale, CommitSaleFails, CreateContract, RecordPayment,
       RecordPaymentFails, EnqueueNextPayment, GeneratePayment, AbandonSale, ProcessNextPayment,
       ReceivePayment, money
  <2>2. \A t \in Sales \ {s} : stage'[t] = stage[t] /\ payment'[t] = payment[t]
    BY <1>2 DEF ValidateSale, CommitSale, CommitSaleFails, CreateContract, RecordPayment,
       RecordPaymentFails, EnqueueNextPayment, GeneratePayment, AbandonSale, ProcessNextPayment,
       ReceivePayment, Moves, rows, TypeInv, TypeOK
  <2>3. ASSUME s \in AgentSales
        PROVE  Owed(s)' \in Int /\ Owed(s)' <= Owed(s)
    <3>1. Amount[s] \in Nat /\ Saga(s)
      BY <1>b, <2>3
    <3>2. stage'[s] \in {"recording", "refunding"} \/ payment'[s] = "COMPLETED"
            => stage[s] \in {"recording", "refunding"} \/ payment[s] = "COMPLETED"
      BY <1>2, <3>1 DEF ValidateSale, CommitSale, CommitSaleFails, CreateContract, RecordPayment,
         RecordPaymentFails, EnqueueNextPayment, GeneratePayment, AbandonSale, ProcessNextPayment,
         ReceivePayment, Moves, Paying, rows, Saga, TypeInv, TypeOK
    <3> QED
      BY <3>1, <3>2 DEF Owed
  <2> QED
    BY <1>1, <2>1, <2>2, <2>3
<1>3. ASSUME NEW s \in Sales, DebitWallet(s)
      PROVE  RefundInv'
  <2>1. s \in AgentSales /\ stage[s] = "debiting" /\ payment' = payment
    BY <1>3 DEF DebitWallet, TypeInv, OnlyAgentsDebit, rows
  <2>2. payment[s] = "none" /\ Amount[s] \in Nat
    BY <1>b, <2>1 DEF Saga, NotCharged
  <2>3. \/ balance' = balance - Amount[s] /\ stage' = [stage EXCEPT ![s] = "recording"]
        \/ balance' = balance /\ stage' = [stage EXCEPT ![s] = "ended"]
    BY <1>3 DEF DebitWallet, Moves, money
  <2>4. \A a \in AgentSales \ {s} : Owed(a)' = Owed(a)
    BY <2>1, <2>3, OwingType DEF Owed, TypeInv, TypeOK
  <2>5. Owed(s) = 0 /\ Owed(s)' = IF stage'[s] = "recording" THEN Amount[s] ELSE 0
    BY <2>1, <2>2, <2>3 DEF Owed, TypeInv, TypeOK
  <2>6. \/ balance' = balance - Amount[s] /\ stage'[s] = "recording"
        \/ balance' = balance /\ stage'[s] = "ended"
    BY <2>1, <2>3 DEF TypeInv, TypeOK
  <2>7. balance' + Owed(s)' <= balance + Owed(s)
    <3>1. CASE balance' = balance - Amount[s] /\ stage'[s] = "recording"
      BY <1>a, <2>2, <2>5, <3>1
    <3>2. CASE balance' = balance /\ stage'[s] = "ended"
      BY <1>a, <2>5, <3>2
    <3> QED
      BY <2>6, <3>1, <3>2
  <2> QED
    BY <1>a, <2>1, <2>4, <2>7, RefundMoves
<1>4. ASSUME NEW s \in Sales, RefundDebit(s)
      PROVE  RefundInv'
  <2>1. /\ s \in AgentSales /\ stage[s] = "refunding" /\ payment' = payment
        /\ balance' = balance + Amount[s] /\ stage' = [stage EXCEPT ![s] = "ended"]
    BY <1>4 DEF RefundDebit, TypeInv, OnlyAgentsDebit, Moves, rows
  <2>2. payment[s] = "none" /\ Amount[s] \in Nat
    BY <1>b, <2>1 DEF Saga
  <2>4. \A a \in AgentSales \ {s} : Owed(a)' = Owed(a)
    BY <2>1, OwingType DEF Owed, TypeInv, TypeOK
  <2>5. balance' + Owed(s)' <= balance + Owed(s)
    BY <1>a, <2>1, <2>2 DEF Owed, TypeInv, TypeOK
  <2> QED
    BY <1>a, <2>1, <2>4, <2>5, RefundMoves
<1>5. ASSUME \/ \E d \in Devices : AssignDevice(d)
             \/ \E o \in Operators, s \in Sales : ReadSaleToUndo(o, s)
             \/ \E o \in Operators : UndoFails(o)
      PROVE  RefundInv'
  <2>1. UNCHANGED <<balance, stage, payment>>
    BY <1>5 DEF AssignDevice, ReadSaleToUndo, UndoFails, rows, money
  <2> QED
    BY <1>1, <2>1, SalesAssumption
<1> QED
  BY NextCases, UndoRefund, <1>2, <1>3, <1>4, <1>5

LEMMA StutterRefund == PaidInv /\ RefundInv /\ UNCHANGED vars => PaidInv' /\ RefundInv'
BY DEF PaidInv, RefundInv, Settled, Exists, Owing, Owed, vars, rows, money

\* Whatever fails and whoever reverses a sale, at the same time or twice, the
\* agent never gets back more than was taken: what is left in the wallet and
\* what was paid for the sales that stand is at most what was there before.
THEOREM RefundedOnce == Spec => []NeverRefundedTwice
<1>1. Init => TypeInv /\ SagaInv /\ PaidInv /\ RefundInv
  BY InitTypes, InitSaga, InitPaid, InitRefund
<1>2. TypeInv /\ SagaInv /\ PaidInv /\ RefundInv /\ [Next]_vars
        => (TypeInv /\ SagaInv /\ PaidInv /\ RefundInv)'
  BY StepTypes, StutterTypes, StepSaga, StutterSaga, StepPaid, StepRefund, StutterRefund
<1>3. TypeInv /\ RefundInv => NeverRefundedTwice
  <2> SUFFICES ASSUME TypeInv, RefundInv PROVE NeverRefundedTwice
    OBVIOUS
  <2> DEFINE spending == [s \in AgentSales |-> IF payment[s] = "COMPLETED" THEN Amount[s] ELSE 0]
  <2>1. Spent = SumFunctionOnSet(spending, AgentSales)
    BY DEF Spent, SumFunction
  <2>2. \A s \in AgentSales : spending[s] \in Int /\ Owing[s] \in Int /\ spending[s] <= Owing[s]
    BY OwingType DEF Owing, Owed
  <2> HIDE DEF spending
  <2>3. /\ SumFunctionOnSet(spending, AgentSales) <= SumFunctionOnSet(Owing, AgentSales)
        /\ SumFunctionOnSet(spending, AgentSales) \in Int /\ SumFunctionOnSet(Owing, AgentSales) \in Int
    BY <2>2, OwingType, SumLess
  <2>4. balance \in Int /\ InitialBalance \in Int /\ balance + SumFunctionOnSet(Owing, AgentSales) <= InitialBalance
    BY StockAssumption DEF TypeInv, TypeOK, RefundInv
  <2> QED
    BY <2>1, <2>3, <2>4 DEF NeverRefundedTwice
<1> QED
  BY <1>1, <1>2, <1>3, PTL DEF Spec


-----------------------------------------------------------------------------
(* What a loop over the batches of an inventory takes *)

\* The filled batches of i among the first k lots, the units of all lots, and
\* those the first k hold of i.
FilledOf(lots, i, k) == {b \in 1 .. k : lots[b].inventory = i /\ lots[b].left > 0}
Lefts(lots) == [b \in DOMAIN lots |-> lots[b].left]
UnitsBefore(lots, i, k) == UnitsOf(SubSeq(lots, 1, k), i)
Counted(lots) == \A b \in DOMAIN lots : lots[b].left \in Int

LEMMA UnitsBeforeIs ==
  ASSUME NEW R, NEW lots \in Seq(R), NEW i, NEW k \in 0 .. Len(lots)
  PROVE  UnitsBefore(lots, i, k) = SumFunctionOnSet(Lefts(lots), FilledOf(lots, i, k))
<1> DEFINE first == SubSeq(lots, 1, k)
<1> DEFINE filled == {b \in DOMAIN first : first[b].inventory = i /\ first[b].left > 0}
<1> DEFINE units == [b \in filled |-> first[b].left]
<1>1. DOMAIN first = 1 .. k /\ \A b \in 1 .. k : first[b] = lots[b] /\ b \in DOMAIN lots
  OBVIOUS
<1>2. UnitsBefore(lots, i, k) = SumFunctionOnSet(units, filled)
  BY DEF UnitsBefore, UnitsOf, SumFunction
<1> HIDE DEF first
<1>3. filled = FilledOf(lots, i, k)
  BY <1>1 DEF FilledOf
<1>4. \A b \in filled : units[b] = Lefts(lots)[b]
  BY <1>1 DEF Lefts
<1>5. IsFiniteSet(filled)
  <2>1. filled \subseteq 1 .. k /\ IsFiniteSet(1 .. k)
    BY <1>1, FS_Interval
  <2> QED
    BY <2>1, FS_Subset
<1> HIDE DEF units, filled
<1> QED
  BY <1>2, <1>3, <1>4, <1>5, SumSame

LEMMA FilledFinite ==
  ASSUME NEW lots, NEW i, NEW k \in Nat
  PROVE  IsFiniteSet(FilledOf(lots, i, k))
<1>1. FilledOf(lots, i, k) \subseteq 1 .. k /\ IsFiniteSet(1 .. k)
  BY FS_Interval DEF FilledOf
<1> QED
  BY <1>1, FS_Subset

LEMMA UnitsBeforeStep ==
  ASSUME NEW R, NEW lots \in Seq(R), Counted(lots), NEW i, NEW k \in 1 .. Len(lots)
  PROVE  UnitsBefore(lots, i, k) =
           UnitsBefore(lots, i, k - 1) + (IF lots[k].inventory = i /\ lots[k].left > 0 THEN lots[k].left ELSE 0)
<1> DEFINE old == FilledOf(lots, i, k - 1)
           new == FilledOf(lots, i, k)
<1>1. k - 1 \in 0 .. Len(lots) /\ k \in 0 .. Len(lots) /\ k \in DOMAIN lots
  OBVIOUS
<1>2. /\ UnitsBefore(lots, i, k - 1) = SumFunctionOnSet(Lefts(lots), old)
      /\ UnitsBefore(lots, i, k) = SumFunctionOnSet(Lefts(lots), new)
  BY <1>1, UnitsBeforeIs
<1>3. IsFiniteSet(old) /\ k \notin old /\ \A b \in old \cup {k} : Lefts(lots)[b] \in Int
  <2>1. old \subseteq DOMAIN lots /\ k \notin old
    BY <1>1 DEF FilledOf
  <2>2. IsFiniteSet(old)
    BY <1>1, FilledFinite
  <2>3. \A b \in DOMAIN lots : Lefts(lots)[b] \in Int
    BY DEF Lefts, Counted
  <2> QED
    BY <1>1, <2>1, <2>2, <2>3
<1>4. Lefts(lots)[k] = lots[k].left
  BY <1>1 DEF Lefts
<1>5. CASE lots[k].inventory = i /\ lots[k].left > 0
  <2>1. new = old \cup {k}
    BY <1>1, <1>5 DEF FilledOf
  <2>2. SumFunctionOnSet(Lefts(lots), old \cup {k}) = Lefts(lots)[k] + SumFunctionOnSet(Lefts(lots), old)
    BY <1>3, SumAdd
  <2>3. SumFunctionOnSet(Lefts(lots), old) \in Int /\ lots[k].left \in Int
    BY <1>1, <1>3, SumType DEF Counted
  <2> QED
    BY <1>2, <1>4, <1>5, <2>1, <2>2, <2>3
<1>6. CASE ~(lots[k].inventory = i /\ lots[k].left > 0)
  <2>1. new = old
    BY <1>1, <1>6 DEF FilledOf
  <2>2. SumFunctionOnSet(Lefts(lots), old) \in Int
    BY <1>3, SumType
  <2> QED
    BY <1>2, <1>6, <2>1, <2>2
<1> QED
  BY <1>5, <1>6

LEMMA UnitsBeforeNat ==
  ASSUME NEW R, NEW lots \in Seq(R), Counted(lots), NEW i
  PROVE  /\ UnitsBefore(lots, i, 0) = 0
         /\ \A k \in 0 .. Len(lots) : UnitsBefore(lots, i, k) \in Nat
         /\ UnitsOf(lots, i) = UnitsBefore(lots, i, Len(lots))
<1>1. UnitsBefore(lots, i, 0) = 0
  <2>1. FilledOf(lots, i, 0) = {} /\ 0 \in 0 .. Len(lots)
    BY DEF FilledOf
  <2> QED
    BY <2>1, UnitsBeforeIs, SumEmpty
<1>2. ASSUME NEW k \in 0 .. Len(lots)
      PROVE  UnitsBefore(lots, i, k) \in Nat
  <2>1. \A b \in FilledOf(lots, i, k) : Lefts(lots)[b] \in Nat
    BY DEF FilledOf, Lefts, Counted
  <2>2. SumFunctionOnSet(Lefts(lots), FilledOf(lots, i, k)) \in Nat
    BY <2>1, FilledFinite, SumNat
  <2> QED
    BY <2>2, UnitsBeforeIs
<1>3. SubSeq(lots, 1, Len(lots)) = lots
  OBVIOUS
<1> QED
  BY <1>1, <1>2, <1>3 DEF UnitsBefore

LEMMA TakeAt ==
  ASSUME NEW R, NEW lots \in Seq(R), Counted(lots), NEW i, NEW n \in Nat
  PROVE  /\ Take(lots, i, n) \in Seq(Nat)
         /\ Len(Take(lots, i, n)) = Len(lots)
         /\ \A b \in DOMAIN lots :
              /\ lots[b].inventory # i => Take(lots, i, n)[b] = 0
              /\ Take(lots, i, n)[b] # 0 => Take(lots, i, n)[b] <= lots[b].left
              /\ Take(lots, i, n)[b] =
                   Least(UnitsBefore(lots, i, b), n) - Least(UnitsBefore(lots, i, b - 1), n)
<1> DEFINE take == Take(lots, i, n)
<1>1. take = [b \in 1 .. Len(lots) |->
                IF lots[b].inventory # i \/ lots[b].left <= 0 THEN 0
                ELSE IF UnitsBefore(lots, i, b - 1) >= n THEN 0
                     ELSE Least(lots[b].left, n - UnitsBefore(lots, i, b - 1))]
  BY DEF Take, UnitsBefore
<1> HIDE DEF take
<1>2. ASSUME NEW b \in DOMAIN lots
      PROVE  /\ take[b] \in Nat
             /\ lots[b].inventory # i => take[b] = 0
             /\ take[b] # 0 => take[b] <= lots[b].left
             /\ take[b] = Least(UnitsBefore(lots, i, b), n) - Least(UnitsBefore(lots, i, b - 1), n)
  <2>1. b \in 1 .. Len(lots) /\ b \in 0 .. Len(lots) /\ b - 1 \in 0 .. Len(lots) /\ lots[b].left \in Int
    BY DEF Counted
  <2>2. UnitsBefore(lots, i, b) \in Nat /\ UnitsBefore(lots, i, b - 1) \in Nat
    BY <2>1, UnitsBeforeNat
  <2>3. UnitsBefore(lots, i, b) =
           UnitsBefore(lots, i, b - 1) + (IF lots[b].inventory = i /\ lots[b].left > 0 THEN lots[b].left ELSE 0)
    BY <2>1, UnitsBeforeStep
  <2>4. take[b] = IF lots[b].inventory # i \/ lots[b].left <= 0 THEN 0
                  ELSE IF UnitsBefore(lots, i, b - 1) >= n THEN 0
                       ELSE Least(lots[b].left, n - UnitsBefore(lots, i, b - 1))
    BY <1>1, <2>1
  <2> DEFINE u == UnitsBefore(lots, i, b - 1)
             v == UnitsBefore(lots, i, b)
             l == lots[b].left
  <2> HIDE DEF u, v, l
  <2>5. CASE lots[b].inventory # i \/ l <= 0
    BY <2>1, <2>2, <2>3, <2>4, <2>5 DEF Least, u, v, l
  <2>6. CASE lots[b].inventory = i /\ l > 0
    <3>1. v = u + l /\ u \in Nat /\ l \in Nat /\ v \in Nat
      BY <2>1, <2>2, <2>3, <2>6 DEF u, v, l
    <3>2. take[b] = IF u >= n THEN 0 ELSE IF l < n - u THEN l ELSE n - u
      BY <2>1, <2>4, <2>6, <3>1 DEF Least, u, l
    <3>3. take[b] \in Nat /\ take[b] <= l
      BY <3>1, <3>2
    <3>4. take[b] = (IF v < n THEN v ELSE n) - (IF u < n THEN u ELSE n)
      BY <3>1, <3>2
    <3> QED
      BY <2>6, <3>3, <3>4 DEF Least, u, v, l
  <2> QED
    BY <2>1, <2>5, <2>6 DEF l
<1>3. take \in [1 .. Len(lots) -> Nat]
  <2>1. take = [b \in 1 .. Len(lots) |-> take[b]] /\ DOMAIN lots = 1 .. Len(lots)
    BY <1>1
  <2>2. \A b \in 1 .. Len(lots) : take[b] \in Nat
    BY <1>2, <2>1
  <2> QED
    BY <2>1, <2>2
<1>4. take \in Seq(Nat) /\ Len(take) = Len(lots)
  BY <1>3
<1> QED
  BY <1>2, <1>4 DEF take

\* It takes the units it is asked for, when there are as many.
THEOREM TakeSums ==
  ASSUME NEW R, NEW lots \in Seq(R), Counted(lots), NEW i, NEW n \in Nat, n <= UnitsOf(lots, i)
  PROVE  SumFunction(Take(lots, i, n)) = n
<1> DEFINE take == Take(lots, i, n)
           sum(k) == SumFunctionOnSet(take, 1 .. k)
           T == {k \in Nat : k <= Len(lots) => sum(k) = Least(UnitsBefore(lots, i, k), n)}
<1>0. /\ take \in Seq(Nat) /\ Len(take) = Len(lots)
      /\ \A b \in DOMAIN lots : take[b] = Least(UnitsBefore(lots, i, b), n) - Least(UnitsBefore(lots, i, b - 1), n)
  BY TakeAt
<1>t. Len(lots) \in Nat /\ \A k : k \in T <=> k \in Nat /\ (k <= Len(lots) => sum(k) = Least(UnitsBefore(lots, i, k), n))
  OBVIOUS
<1> HIDE DEF take, T
<1>1. 0 \in T
  <2>1. 1 .. 0 = {} /\ UnitsBefore(lots, i, 0) = 0
    BY UnitsBeforeNat
  <2>2. sum(0) = 0
    BY <2>1, SumEmpty
  <2> QED
    BY <1>t, <2>1, <2>2 DEF Least
<1>2. ASSUME NEW k \in Nat, k \in T
      PROVE  k + 1 \in T
  <2> SUFFICES ASSUME k + 1 <= Len(lots)
               PROVE  sum(k + 1) = Least(UnitsBefore(lots, i, k + 1), n)
    BY <1>t, <1>2
  <2>1. sum(k) = Least(UnitsBefore(lots, i, k), n)
    <3>1. k <= Len(lots)
      BY <1>t
    <3> QED
      BY <1>t, <1>2, <3>1
  <2>2. 1 .. (k + 1) = (1 .. k) \cup {k + 1} /\ k + 1 \notin 1 .. k /\ IsFiniteSet(1 .. k)
    <3>1. 1 .. (k + 1) = (1 .. k) \cup {k + 1} /\ k + 1 \notin 1 .. k
      OBVIOUS
    <3> QED
      BY <3>1, FS_Interval
  <2>3. \A b \in (1 .. k) \cup {k + 1} : take[b] \in Int
    BY <1>0
  <2>4. SumFunctionOnSet(take, (1 .. k) \cup {k + 1}) = take[k + 1] + SumFunctionOnSet(take, 1 .. k)
    BY <2>2, <2>3, SumAdd
  <2>5. take[k + 1] = Least(UnitsBefore(lots, i, k + 1), n) - Least(UnitsBefore(lots, i, k), n)
    <3>1. k + 1 \in DOMAIN lots /\ (k + 1) - 1 = k
      OBVIOUS
    <3> QED
      BY <1>0, <3>1
  <2>6. Least(UnitsBefore(lots, i, k + 1), n) \in Int /\ Least(UnitsBefore(lots, i, k), n) \in Int
    <3>1. k \in 0 .. Len(lots) /\ k + 1 \in 0 .. Len(lots)
      OBVIOUS
    <3>2. UnitsBefore(lots, i, k) \in Nat /\ UnitsBefore(lots, i, k + 1) \in Nat
      BY <3>1, UnitsBeforeNat
    <3> QED
      BY <3>2 DEF Least
  <2>7. sum(k + 1) = take[k + 1] + sum(k)
    BY <2>2, <2>4
  <2> HIDE DEF sum
  <2> QED
    BY <2>1, <2>5, <2>6, <2>7
<1>3. Len(lots) \in T
  BY <1>1, <1>2, UpTo
<1>4. sum(Len(lots)) = Least(UnitsBefore(lots, i, Len(lots)), n)
  BY <1>t, <1>3
<1>5. SumFunction(take) = sum(Len(lots))
  BY <1>0 DEF SumFunction
<1>6. UnitsOf(lots, i) = UnitsBefore(lots, i, Len(lots)) /\ UnitsBefore(lots, i, Len(lots)) \in Nat
  BY UnitsBeforeNat
<1> QED
  BY <1>4, <1>5, <1>6 DEF Least, take

-----------------------------------------------------------------------------
(* Batches *)

BatchRow(m) == [inventory : 1 .. m, price : Prices, left : Int]
BatchRows(m) == Seq(BatchRow(m))

\* The units held of the inventories of K.
HeldOf(lots, K) == {b \in DOMAIN lots : lots[b].inventory \in K}
Held(lots, K) == SumFunctionOnSet(Lefts(lots), HeldOf(lots, K))

LEMMA SeqAt ==
  ASSUME NEW R, NEW lots \in Seq(R)
  PROVE  /\ Len(lots) \in Nat /\ DOMAIN lots = 1 .. Len(lots)
         /\ lots \in [1 .. Len(lots) -> R]
         /\ \A b \in DOMAIN lots : lots[b] \in R
  OBVIOUS

LEMMA SeqFrom ==
  ASSUME NEW R, NEW n \in Nat, NEW lots \in [1 .. n -> R]
  PROVE  lots \in Seq(R) /\ Len(lots) = n
  OBVIOUS

LEMMA RowsAt ==
  ASSUME NEW m \in Nat, NEW lots \in BatchRows(m)
  PROVE  /\ Len(lots) \in Nat /\ DOMAIN lots = 1 .. Len(lots)
         /\ \A b \in DOMAIN lots : /\ lots[b] \in BatchRow(m)
                                  /\ lots[b].inventory \in 1 .. m /\ lots[b].price \in Prices /\ lots[b].left \in Int
<1>1. \A b \in DOMAIN lots : lots[b] \in BatchRow(m)
  BY SeqAt DEF BatchRows
<1>2. \A r \in BatchRow(m) : r.inventory \in 1 .. m /\ r.price \in Prices /\ r.left \in Int
  BY DEF BatchRow
<1> QED
  BY <1>1, <1>2, SeqAt DEF BatchRows

LEMMA HeldFacts ==
  ASSUME NEW m \in Nat, NEW lots \in BatchRows(m), NEW K
  PROVE  /\ IsFiniteSet(HeldOf(lots, K)) /\ HeldOf(lots, K) \subseteq DOMAIN lots
         /\ \A b \in DOMAIN lots : Lefts(lots)[b] = lots[b].left /\ lots[b].left \in Int
         /\ Held(lots, K) \in Int
         /\ Counted(lots)
<1>1. IsFiniteSet(HeldOf(lots, K)) /\ HeldOf(lots, K) \subseteq DOMAIN lots
  <2>1. HeldOf(lots, K) \subseteq 1 .. Len(lots) /\ IsFiniteSet(1 .. Len(lots)) /\ DOMAIN lots = 1 .. Len(lots)
    BY FS_Interval DEF HeldOf, BatchRows
  <2> QED
    BY <2>1, FS_Subset
<1>2. \A b \in DOMAIN lots : Lefts(lots)[b] = lots[b].left /\ lots[b].left \in Int
  BY RowsAt DEF Lefts
<1>3. Held(lots, K) \in Int
  BY <1>1, <1>2, SumType DEF Held
<1> QED
  BY <1>1, <1>2, <1>3 DEF Counted

\* A row's units replaced.
Refilled(lots, next, e, v) == next = [lots EXCEPT ![e].left = v]

LEMMA RowsExcept ==
  ASSUME NEW m \in Nat, NEW lots \in BatchRows(m), NEW e \in DOMAIN lots, NEW v \in Int,
         NEW next, Refilled(lots, next, e, v)
  PROVE  /\ next \in BatchRows(m) /\ DOMAIN next = DOMAIN lots
         /\ next[e].left = v
         /\ \A d \in DOMAIN lots : /\ next[d].inventory = lots[d].inventory
                                   /\ next[d].price = lots[d].price
                                   /\ next[d].price \in Prices
                                   /\ next[d].left \in Int /\ lots[d].left \in Int
                                   /\ d # e => next[d].left = lots[d].left
<1> DEFINE r == [lots[e] EXCEPT !.left = v]
<1>1. lots \in [1 .. Len(lots) -> BatchRow(m)] /\ Len(lots) \in Nat /\ DOMAIN lots = 1 .. Len(lots)
  BY SeqAt DEF BatchRows
<1>2. next = [d \in 1 .. Len(lots) |-> IF d = e THEN r ELSE lots[d]]
  BY <1>1 DEF Refilled
<1>3. r \in BatchRow(m) /\ r.left = v /\ r.inventory = lots[e].inventory /\ r.price = lots[e].price
  BY RowsAt DEF BatchRow
<1> HIDE DEF r
<1>4. next \in [1 .. Len(lots) -> BatchRow(m)] /\ DOMAIN next = DOMAIN lots
  BY <1>1, <1>2, <1>3
<1>5. next \in BatchRows(m)
  BY <1>1, <1>4, SeqFrom DEF BatchRows
<1>6. next[e].left = v /\ \A d \in DOMAIN lots : /\ next[d].inventory = lots[d].inventory
                                                 /\ next[d].price = lots[d].price
                                                 /\ d # e => next[d].left = lots[d].left
  BY <1>1, <1>2, <1>3
<1> QED
  BY <1>4, <1>5, <1>6, RowsAt

\* One batch more or less filled.
LEMMA HeldChange ==
  ASSUME NEW m \in Nat, NEW lots \in BatchRows(m), NEW next \in BatchRows(m), NEW K, NEW e \in DOMAIN lots,
         DOMAIN next = DOMAIN lots,
         \A d \in DOMAIN lots : next[d].inventory = lots[d].inventory /\ (d # e => next[d].left = lots[d].left)
  PROVE  Held(next, K) = Held(lots, K) + (IF lots[e].inventory \in K THEN next[e].left - lots[e].left ELSE 0)
<1> DEFINE held == HeldOf(lots, K)
<1>1. HeldOf(next, K) = held
  BY DEF HeldOf
<1>2. /\ IsFiniteSet(held) /\ held \subseteq DOMAIN lots
      /\ \A b \in DOMAIN lots : Lefts(lots)[b] = lots[b].left /\ lots[b].left \in Int
      /\ \A b \in DOMAIN lots : Lefts(next)[b] = next[b].left /\ next[b].left \in Int
      /\ Held(lots, K) \in Int
  BY HeldFacts
<1>3. /\ Held(lots, K) = SumFunctionOnSet(Lefts(lots), held)
      /\ Held(next, K) = SumFunctionOnSet(Lefts(next), held)
  BY <1>1 DEF Held
<1>4. CASE lots[e].inventory \in K
  <2>1. e \in held
    BY <1>4 DEF HeldOf
  <2>2. \A y \in held : Lefts(lots)[y] \in Int
    BY <1>2
  <2>3. \A y \in held \ {e} : Lefts(next)[y] = Lefts(lots)[y]
    BY <1>2
  <2>4. Lefts(next)[e] \in Int
    BY <1>2
  <2>5. SumFunctionOnSet(Lefts(next), held) = SumFunctionOnSet(Lefts(lots), held) - Lefts(lots)[e] + Lefts(next)[e]
    BY <1>2, <2>1, <2>2, <2>3, <2>4, SumChange
  <2> QED
    BY <1>2, <1>3, <1>4, <2>5
<1>5. CASE lots[e].inventory \notin K
  <2>1. \A y \in held : Lefts(next)[y] = Lefts(lots)[y]
    BY <1>2, <1>5 DEF HeldOf
  <2>2. SumFunctionOnSet(Lefts(next), held) = SumFunctionOnSet(Lefts(lots), held)
    BY <1>2, <2>1, SumSame
  <2> QED
    BY <1>2, <1>3, <1>5, <2>2
<1> QED
  BY <1>4, <1>5

\* One batch more.
LEMMA HeldAppend ==
  ASSUME NEW m \in Nat, NEW lots \in BatchRows(m), NEW K,
         NEW r \in BatchRow(m)
  PROVE  /\ Append(lots, r) \in BatchRows(m)
         /\ Held(Append(lots, r), K) = Held(lots, K) + (IF r.inventory \in K THEN r.left ELSE 0)
<1> DEFINE next == Append(lots, r)
           held == HeldOf(lots, K)
           last == Len(lots) + 1
<1>1. /\ next \in BatchRows(m) /\ Len(lots) \in Nat /\ DOMAIN next = DOMAIN lots \cup {last} /\ last \notin DOMAIN lots
      /\ next[last] = r /\ \A d \in DOMAIN lots : next[d] = lots[d]
  BY DEF BatchRows
<1> HIDE DEF next, last
<1>2. /\ IsFiniteSet(held) /\ held \subseteq DOMAIN lots /\ last \notin held
      /\ \A b \in DOMAIN lots : Lefts(lots)[b] = lots[b].left /\ lots[b].left \in Int
      /\ \A b \in DOMAIN next : Lefts(next)[b] = next[b].left /\ next[b].left \in Int
      /\ Held(lots, K) \in Int
  <2>1. last \notin held
    BY <1>1 DEF HeldOf
  <2> QED
    BY <1>1, <2>1, HeldFacts
<1>3. SumFunctionOnSet(Lefts(next), held) = Held(lots, K)
  <2>1. \A y \in held : Lefts(next)[y] = Lefts(lots)[y]
    BY <1>1, <1>2
  <2> QED
    BY <1>2, <2>1, SumSame DEF Held
<1>4. CASE r.inventory \in K
  <2>1. HeldOf(next, K) = held \cup {last}
    BY <1>1, <1>4 DEF HeldOf
  <2>2. \A y \in held \cup {last} : Lefts(next)[y] \in Int
    BY <1>1, <1>2
  <2>3. Held(next, K) = Lefts(next)[last] + SumFunctionOnSet(Lefts(next), held)
    BY <1>2, <2>1, <2>2, SumAdd DEF Held
  <2>4. Lefts(next)[last] = r.left /\ r.left \in Int
    BY <1>1, <1>2
  <2> QED
    BY <1>1, <1>2, <1>3, <1>4, <2>3, <2>4 DEF next
<1>5. CASE r.inventory \notin K
  <2>1. HeldOf(next, K) = held
    BY <1>1, <1>5 DEF HeldOf
  <2>2. Held(next, K) = Held(lots, K)
    BY <1>3, <2>1 DEF Held
  <2> QED
    BY <1>1, <1>2, <1>5, <2>2 DEF next
<1> QED
  BY <1>4, <1>5

NoneOwed(lots) == \A b \in DOMAIN lots : lots[b].left >= 0

\* Units that move from a batch to another inventory.
LEMMA MoveBatchIs ==
  ASSUME NEW m \in Nat, NEW lots \in BatchRows(m), NEW b \in DOMAIN lots, NEW n \in Nat, NEW to \in 1 .. m
  PROVE  /\ MoveBatch(lots, b, n, to) \in BatchRows(m)
         /\ DOMAIN lots \subseteq DOMAIN MoveBatch(lots, b, n, to)
         /\ \A d \in DOMAIN lots :
              /\ MoveBatch(lots, b, n, to)[d].inventory = lots[d].inventory
              /\ d # b => MoveBatch(lots, b, n, to)[d].left >= lots[d].left
         /\ NoneOwed(lots) /\ n <= lots[b].left => NoneOwed(MoveBatch(lots, b, n, to))
         /\ \A K : (n # 0 => (lots[b].inventory \in K <=> to \in K)) => Held(MoveBatch(lots, b, n, to), K) = Held(lots, K)
<1>1. CASE n = 0
  <2>1. MoveBatch(lots, b, n, to) = lots
    BY <1>1 DEF MoveBatch
  <2>2. \A d \in DOMAIN lots : lots[d].left \in Int
    BY RowsAt
  <2> QED
    BY <2>1, <2>2
<1>2. CASE n # 0
  <2> DEFINE less == [lots EXCEPT ![b].left = @ - n]
             same == {d \in DOMAIN less : less[d].inventory = to /\ less[d].price = less[b].price}
  <2>1. /\ less \in BatchRows(m) /\ DOMAIN less = DOMAIN lots
        /\ \A d \in DOMAIN lots : /\ less[d].inventory = lots[d].inventory /\ less[d].price \in Prices
                                  /\ less[d].left \in Int /\ lots[d].left \in Int
                                  /\ d # b => less[d].left = lots[d].left
        /\ less[b].left = lots[b].left - n
    <3>1. Refilled(lots, less, b, lots[b].left - n) /\ lots[b].left - n \in Int
      BY RowsAt DEF Refilled
    <3> HIDE DEF less
    <3> QED
      BY <3>1, RowsExcept
  <2> HIDE DEF less
  <2>2. \A K : Held(less, K) = Held(lots, K) + (IF lots[b].inventory \in K THEN - n ELSE 0)
    <3> SUFFICES ASSUME NEW K
                 PROVE  Held(less, K) = Held(lots, K) + (IF lots[b].inventory \in K THEN - n ELSE 0)
      OBVIOUS
    <3>1. Held(less, K) = Held(lots, K) + (IF lots[b].inventory \in K THEN less[b].left - lots[b].left ELSE 0)
      BY <2>1, HeldChange
    <3>2. less[b].left - lots[b].left = - n
      BY <2>1
    <3> QED
      BY <3>1, <3>2
  <2>3. NoneOwed(lots) /\ n <= lots[b].left => NoneOwed(less)
    BY <2>1 DEF NoneOwed
  <2>4. CASE same = {}
    <3> DEFINE r == Row(to, less[b].price, n)
    <3>1. MoveBatch(lots, b, n, to) = Append(less, r)
      BY <1>2, <2>4 DEF MoveBatch, less
    <3>2. r \in BatchRow(m) /\ r.inventory = to /\ r.left = n
      BY <2>1 DEF Row, BatchRow
    <3> HIDE DEF r
    <3>3. /\ DOMAIN Append(less, r) = DOMAIN less \cup {Len(less) + 1} /\ Append(less, r)[Len(less) + 1] = r
          /\ \A d \in DOMAIN less : Append(less, r)[d] = less[d]
      <4>1. less \in Seq(BatchRow(m))
        BY <2>1 DEF BatchRows
      <4> QED
        BY <3>2, <4>1
    <3>4. \A K : Append(less, r) \in BatchRows(m) /\ Held(less, K) \in Int /\ Held(lots, K) \in Int
                 /\ Held(Append(less, r), K) = Held(less, K) + (IF to \in K THEN n ELSE 0)
      BY <2>1, <3>2, HeldAppend, HeldFacts
    <3>5. NoneOwed(lots) /\ n <= lots[b].left => NoneOwed(Append(less, r))
      BY <2>3, <3>2, <3>3 DEF NoneOwed
    <3>6. \A K : (lots[b].inventory \in K <=> to \in K) => Held(Append(less, r), K) = Held(lots, K)
      BY <2>2, <3>4
    <3> QED
      BY <1>2, <2>1, <3>1, <3>3, <3>4, <3>5, <3>6, SMTT(30)
  <2>5. CASE same # {}
    <3> DEFINE e == Min(same)
               more == [less EXCEPT ![e].left = @ + n]
    <3>1. MoveBatch(lots, b, n, to) = more
      BY <1>2, <2>5 DEF MoveBatch, less
    <3>2. e \in same
      <4>1. same \subseteq Nat
        BY <2>1 DEF BatchRows
      <4> HIDE DEF same
      <4> QED
        BY <2>5, <4>1, MinIsIn
    <3>3. e \in DOMAIN less /\ less[e].inventory = to
      BY <3>2
    <3> HIDE DEF e
    <3>4. /\ more \in BatchRows(m) /\ DOMAIN more = DOMAIN lots
          /\ \A d \in DOMAIN lots : /\ more[d].inventory = less[d].inventory
                                    /\ more[d].left \in Int
                                    /\ d # e => more[d].left = less[d].left
          /\ more[e].left = less[e].left + n
      <4>1. Refilled(less, more, e, less[e].left + n) /\ less[e].left + n \in Int
        BY <2>1, <3>3 DEF Refilled
      <4> HIDE DEF more
      <4> QED
        BY <2>1, <3>3, <4>1, RowsExcept
    <3> HIDE DEF more
    <3>5. \A K : Held(more, K) = Held(less, K) + (IF to \in K THEN n ELSE 0)
      <4> SUFFICES ASSUME NEW K
                   PROVE  Held(more, K) = Held(less, K) + (IF to \in K THEN n ELSE 0)
        OBVIOUS
      <4>1. Held(more, K) = Held(less, K) + (IF less[e].inventory \in K THEN more[e].left - less[e].left ELSE 0)
        BY <2>1, <3>3, <3>4, HeldChange
      <4>2. more[e].left - less[e].left = n
        BY <2>1, <3>3, <3>4
      <4> QED
        BY <3>3, <4>1, <4>2
    <3>6. \A K : Held(less, K) \in Int /\ Held(lots, K) \in Int
      BY <2>1, HeldFacts
    <3>7. \A K : (lots[b].inventory \in K <=> to \in K) => Held(more, K) = Held(lots, K)
      BY <2>2, <3>5, <3>6
    <3>8. \A d \in DOMAIN lots : more[d].left >= less[d].left
      BY <2>1, <3>4
    <3>9. NoneOwed(lots) /\ n <= lots[b].left => NoneOwed(more)
      BY <2>1, <2>3, <3>4, <3>8 DEF NoneOwed
    <3>10. \A d \in DOMAIN lots : d # b => more[d].left >= lots[d].left
      BY <2>1, <3>8
    <3> HIDE DEF same
    <3> QED
      BY <1>2, <2>1, <3>1, <3>4, <3>7, <3>9, <3>10
  <2> QED
    BY <2>4, <2>5
<1> QED
  BY <1>1, <1>2

\* The rows between the moves.
AreMoves(after, lots, take, to) ==
  /\ after[0] = lots
  /\ \A b \in 1 .. Len(take) : after[b] = MoveBatch(after[b - 1], b, take[b], to)
  /\ MoveAll(lots, take, to) = after[Len(take)]

LEMMA MoveAllSteps ==
  ASSUME NEW lots, NEW take, Len(take) \in Nat, NEW to
  PROVE  \E after : AreMoves(after, lots, take, to)
<1> DEFINE IsAfter(n, after) ==
             after = [b \in 0 .. n |-> IF b = 0 THEN lots ELSE MoveBatch(after[b - 1], b, take[b], to)]
           T == {n \in Nat : \E after : IsAfter(n, after)}
<1>1. 0 \in T
  <2>1. 0 .. 0 = {0}
    OBVIOUS
  <2>2. IsAfter(0, [b \in 0 .. 0 |-> lots])
    BY <2>1
  <2> QED
    BY <2>2
<1>2. ASSUME NEW n \in Nat, n \in T
      PROVE  n + 1 \in T
  <2>1. PICK after : IsAfter(n, after)
    BY <1>2
  <2> DEFINE more == [b \in 0 .. n + 1 |-> IF b = n + 1 THEN MoveBatch(after[n], n + 1, take[n + 1], to) ELSE after[b]]
  <2>2. \A b \in 0 .. n : more[b] = after[b]
    OBVIOUS
  <2>3. \A b \in 0 .. n + 1 : more[b] = IF b = 0 THEN lots ELSE MoveBatch(more[b - 1], b, take[b], to)
    <3> SUFFICES ASSUME NEW b \in 0 .. n + 1
                 PROVE  more[b] = IF b = 0 THEN lots ELSE MoveBatch(more[b - 1], b, take[b], to)
      OBVIOUS
    <3>1. CASE b = n + 1
      <4>1. b # 0 /\ b - 1 = n /\ n \in 0 .. n
        BY <3>1
      <4>2. more[b - 1] = after[n]
        BY <2>2, <4>1
      <4>3. more[b] = MoveBatch(after[n], n + 1, take[n + 1], to)
        BY <3>1
      <4> HIDE DEF more
      <4> QED
        BY <3>1, <4>1, <4>2, <4>3
    <3>2. CASE b # n + 1
      <4>1. b \in 0 .. n /\ (b # 0 => b - 1 \in 0 .. n)
        BY <3>2
      <4>2. after[b] = IF b = 0 THEN lots ELSE MoveBatch(after[b - 1], b, take[b], to)
        BY <2>1, <4>1
      <4> HIDE DEF more
      <4> QED
        BY <2>2, <4>1, <4>2
    <3> QED
      BY <3>1, <3>2
  <2>4. more = [b \in 0 .. n + 1 |-> more[b]]
    OBVIOUS
  <2> HIDE DEF more
  <2>5. IsAfter(n + 1, more)
    BY <2>3, <2>4
  <2> QED
    BY <2>5
<1> HIDE DEF T
<1>3. Len(take) \in T
  BY <1>1, <1>2, UpTo
<1> DEFINE after == CHOOSE f : IsAfter(Len(take), f)
<1>4. IsAfter(Len(take), after)
  BY <1>3 DEF T
<1>5. MoveAll(lots, take, to) = after[Len(take)]
  BY DEF MoveAll
<1> HIDE DEF after
<1>6. after[0] = lots /\ \A b \in 1 .. Len(take) : after[b] = MoveBatch(after[b - 1], b, take[b], to)
  BY <1>4
<1> QED
  BY <1>5, <1>6 DEF AreMoves

\* The rows after all moves.
LEMMA MoveAllIs ==
  ASSUME NEW m \in Nat, NEW lots \in BatchRows(m), NEW take \in Seq(Nat), Len(take) <= Len(lots), NEW to \in 1 .. m
  PROVE  /\ MoveAll(lots, take, to) \in BatchRows(m)
         /\ DOMAIN lots \subseteq DOMAIN MoveAll(lots, take, to)
         /\ \A d \in DOMAIN lots : MoveAll(lots, take, to)[d].inventory = lots[d].inventory
         /\ NoneOwed(lots) /\ (\A b \in DOMAIN take : take[b] <= lots[b].left) => NoneOwed(MoveAll(lots, take, to))
         /\ \A K : (\A b \in DOMAIN take : take[b] # 0 => (lots[b].inventory \in K <=> to \in K))
                     => Held(MoveAll(lots, take, to), K) = Held(lots, K)
<1>0. /\ Len(take) \in Nat /\ DOMAIN take = 1 .. Len(take) /\ \A b \in DOMAIN take : take[b] \in Nat
      /\ DOMAIN lots = 1 .. Len(lots) /\ Len(lots) \in Nat /\ \A d \in DOMAIN lots : lots[d].left \in Int
  BY SeqAt, RowsAt
<1>m. PICK after : AreMoves(after, lots, take, to)
  BY <1>0, MoveAllSteps
<1>1. /\ after[0] = lots
      /\ \A b \in 1 .. Len(take) : after[b] = MoveBatch(after[b - 1], b, take[b], to)
      /\ MoveAll(lots, take, to) = after[Len(take)]
  BY <1>m DEF AreMoves
<1> DEFINE Enough == NoneOwed(lots) /\ \A b \in DOMAIN take : take[b] <= lots[b].left
           Same(K) == \A b \in DOMAIN take : take[b] # 0 => (lots[b].inventory \in K <=> to \in K)
           Moved(next, k) ==
             /\ next \in BatchRows(m) /\ DOMAIN lots \subseteq DOMAIN next
             /\ \A d \in DOMAIN lots : /\ next[d].inventory = lots[d].inventory
                                       /\ d > k => next[d].left >= lots[d].left
             /\ Enough => NoneOwed(next)
             /\ \A K : Same(K) => Held(next, K) = Held(lots, K)
<1> DEFINE T == {k \in Nat : k <= Len(take) => Moved(after[k], k)}
<1>2. 0 \in T
  <2>1. Moved(lots, 0)
    BY <1>0
  <2> HIDE DEF Moved
  <2> QED
    BY <1>1, <2>1
<1>3. ASSUME NEW k \in Nat, k \in T
      PROVE  k + 1 \in T
  <2> SUFFICES ASSUME k + 1 <= Len(take)
               PROVE  Moved(after[k + 1], k + 1)
    OBVIOUS
  <2>1. k <= Len(take) /\ k + 1 \in DOMAIN take /\ k + 1 \in DOMAIN lots /\ (k + 1) - 1 = k
    BY <1>0
  <2> DEFINE old == after[k]
             new == after[k + 1]
             b == k + 1
             n == take[k + 1]
  <2>2. Moved(old, k)
    BY <1>3, <2>1
  <2>3. new = MoveBatch(old, b, n, to)
    BY <1>0, <1>1, <2>1
  <2>4. b \in DOMAIN lots /\ b \in DOMAIN old /\ n \in Nat /\ b \in DOMAIN take /\ b > k /\ b = k + 1 /\ n = take[b]
    BY <1>0, <2>1, <2>2
  <2>5. old \in BatchRows(m) /\ \A d \in DOMAIN old : old[d].left \in Int
    BY <2>2, RowsAt
  <2> HIDE DEF old, new, b, n, T
  <2>6. /\ new \in BatchRows(m) /\ DOMAIN old \subseteq DOMAIN new
        /\ \A d \in DOMAIN old : new[d].inventory = old[d].inventory /\ (d # b => new[d].left >= old[d].left)
        /\ NoneOwed(old) /\ n <= old[b].left => NoneOwed(new)
        /\ \A K : (n # 0 => (old[b].inventory \in K <=> to \in K)) => Held(new, K) = Held(old, K)
    <3>1. b \in DOMAIN old /\ n \in Nat /\ old \in BatchRows(m)
      BY <2>4, <2>5
    <3> HIDE DEF Moved, Enough, Same
    <3> QED
      BY <2>3, <3>1, MoveBatchIs, SMTT(30)
  <2>7. \A d \in DOMAIN new : new[d].left \in Int
    BY <2>6, RowsAt
  <2>8. \A d \in DOMAIN lots : new[d].inventory = lots[d].inventory /\ (d > b => new[d].left >= lots[d].left)
    <3> SUFFICES ASSUME NEW d \in DOMAIN lots
                 PROVE  new[d].inventory = lots[d].inventory /\ (d > b => new[d].left >= lots[d].left)
      OBVIOUS
    <3>1. /\ old[d].inventory = lots[d].inventory /\ (d > k => old[d].left >= lots[d].left)
          /\ d \in DOMAIN old /\ d \in DOMAIN new
      BY <2>2, <2>6
    <3>2. d > b => d > k /\ d # b
      BY <1>0, <2>4
    <3>3. old[d].left \in Int /\ new[d].left \in Int /\ lots[d].left \in Int
      BY <1>0, <2>5, <2>7, <3>1
    <3> HIDE DEF Moved
    <3> QED
      BY <2>6, <3>1, <3>2, <3>3
  <2>9. Enough => NoneOwed(new)
    <3> SUFFICES ASSUME Enough
                 PROVE  NoneOwed(new)
      OBVIOUS
    <3>1. n <= lots[b].left /\ lots[b].left <= old[b].left
      BY <2>2, <2>4
    <3>2. n <= old[b].left
      BY <1>0, <2>4, <2>5, <3>1
    <3> QED
      BY <2>2, <2>6, <3>2
  <2>10. \A K : Same(K) => Held(new, K) = Held(lots, K)
    <3> SUFFICES ASSUME NEW K, Same(K)
                 PROVE  Held(new, K) = Held(lots, K)
      OBVIOUS
    <3>1. n # 0 => (lots[b].inventory \in K <=> to \in K)
      BY <2>4
    <3>2. old[b].inventory = lots[b].inventory
      BY <2>2, <2>4
    <3> QED
      BY <2>2, <2>6, <3>1, <3>2
  <2>11. DOMAIN lots \subseteq DOMAIN new
    BY <2>2, <2>6
  <2> HIDE DEF Enough, Same
  <2> QED
    BY <2>4, <2>6, <2>8, <2>9, <2>10, <2>11 DEF new
<1> HIDE DEF T
<1>4. Len(take) \in T
  BY <1>0, <1>2, <1>3, UpTo
<1> HIDE DEF Moved
<1>5. Moved(after[Len(take)], Len(take))
  BY <1>0, <1>4 DEF T
<1> QED
  BY <1>1, <1>5 DEF Moved

\* What a sale takes of each batch.
TakenOf(lots, item, b) ==
  SumFunction([use \in Parts(item.product) |-> Take(lots, use.inventory, use.units * item.quantity)[b]])

LEMMA PartsAre ==
  ASSUME NEW p \in Products
  PROVE  /\ IsFiniteSet(Parts(p))
         /\ \A use \in Parts(p) : use.inventory \in Nat /\ use.units \in Nat
<1> DEFINE R == [inventory : Nat, units : Nat \ {0}]
<1>1. Uses[p] \in Seq(R)
  BY SaleStockAssumption
<1>2. DOMAIN Uses[p] = 1 .. Len(Uses[p]) /\ Len(Uses[p]) \in Nat /\ \A n \in DOMAIN Uses[p] : Uses[p][n] \in R
  BY <1>1, SeqAt
<1>3. IsFiniteSet(Parts(p))
  <2>1. IsFiniteSet(DOMAIN Uses[p])
    <3>1. 1 \in Int /\ Len(Uses[p]) \in Int
      BY <1>2
    <3>2. IsFiniteSet(1 .. Len(Uses[p]))
      BY <3>1, FS_Interval
    <3> QED
      BY <1>2, <3>2
  <2> DEFINE f == [n \in DOMAIN Uses[p] |-> Uses[p][n]]
  <2>2. f \in Surjection(DOMAIN Uses[p], Parts(p))
    BY DEF Parts, Surjection
  <2> QED
    BY <2>1, <2>2, FS_Surjection
<1>4. \A use \in Parts(p) : use \in R
  BY <1>2 DEF Parts
<1> QED
  BY <1>3, <1>4

LEMMA TakenOfNat ==
  ASSUME NEW R, NEW lots \in Seq(R), Counted(lots), NEW b \in DOMAIN lots,
         NEW item \in [product : Products, quantity : Nat \ {0}]
  PROVE  TakenOf(lots, item, b) \in Nat
<1> DEFINE parts == Parts(item.product)
           f == [use \in parts |-> Take(lots, use.inventory, use.units * item.quantity)[b]]
<1>1. item.product \in Products /\ item.quantity \in Nat
  OBVIOUS
<1>2. IsFiniteSet(parts) /\ \A use \in parts : use.inventory \in Nat /\ use.units \in Nat
  BY <1>1, PartsAre
<1>3. \A use \in parts : f[use] \in Nat
  <2> SUFFICES ASSUME NEW use \in parts
               PROVE  Take(lots, use.inventory, use.units * item.quantity)[b] \in Nat
    OBVIOUS
  <2> DEFINE n == use.units * item.quantity
  <2>1. n \in Nat
    BY <1>1, <1>2
  <2> HIDE DEF n
  <2>2. Take(lots, use.inventory, n) \in Seq(Nat) /\ Len(Take(lots, use.inventory, n)) = Len(lots)
    BY <2>1, TakeAt
  <2>3. b \in DOMAIN Take(lots, use.inventory, n)
    BY <2>2, SeqAt
  <2>4. Take(lots, use.inventory, n)[b] \in Nat
    BY <2>2, <2>3, SeqAt
  <2> QED
    BY <2>4 DEF n
<1>4. TakenOf(lots, item, b) = SumFunctionOnSet(f, parts)
  BY DEF TakenOf, SumFunction
<1> HIDE DEF parts, f
<1> QED
  BY <1>2, <1>3, <1>4, SumNat

LEMMA TakenBySaleAt ==
  ASSUME NEW R, NEW lots \in Seq(R), Counted(lots),
         NEW items \in Seq([product : Products, quantity : Nat \ {0}])
  PROVE  /\ TakenBySale(items, lots) \in Seq(Nat)
         /\ Len(TakenBySale(items, lots)) = Len(lots)
         /\ \A b \in DOMAIN lots :
              TakenBySale(items, lots)[b] = SumFunctionOnSet([n \in DOMAIN items |-> TakenOf(lots, items[n], b)], DOMAIN items)
<1> DEFINE take == TakenBySale(items, lots)
           of(b) == [n \in DOMAIN items |-> TakenOf(lots, items[n], b)]
<1>1. take = [b \in 1 .. Len(lots) |-> SumFunctionOnSet(of(b), DOMAIN items)]
  BY SeqAt DEF TakenBySale, TakenOf, SumFunction
<1> HIDE DEF take
<1>2. DOMAIN lots = 1 .. Len(lots) /\ Len(lots) \in Nat
  BY SeqAt
<1>3. /\ IsFiniteSet(DOMAIN items)
      /\ \A n \in DOMAIN items : items[n] \in [product : Products, quantity : Nat \ {0}]
  <2> DEFINE I == [product : Products, quantity : Nat \ {0}]
  <2>1. items \in Seq(I)
    OBVIOUS
  <2> HIDE DEF I
  <2>2. DOMAIN items = 1 .. Len(items) /\ Len(items) \in Nat /\ \A n \in DOMAIN items : items[n] \in I
    BY <2>1, SeqAt
  <2> QED
    BY <2>2, FS_Interval DEF I
<1>4. ASSUME NEW b \in DOMAIN lots
      PROVE  SumFunctionOnSet(of(b), DOMAIN items) \in Nat
  <2>1. \A n \in DOMAIN items : of(b)[n] \in Nat
    BY <1>3, TakenOfNat
  <2> HIDE DEF of
  <2> QED
    BY <1>3, <2>1, SumNat
<1>5. take \in [1 .. Len(lots) -> Nat]
  <2> HIDE DEF of
  <2> QED
    BY <1>1, <1>2, <1>4
<1>6. take \in Seq(Nat) /\ Len(take) = Len(lots)
  BY <1>2, <1>5, SeqFrom
<1> QED
  BY <1>1, <1>2, <1>6 DEF take

-----------------------------------------------------------------------------
(* The lots and the requests a step leaves behind *)

TransferRow(m) == [inventory : 1 .. m, to : Warehouses, done : Nat, status : {"PENDING", "FULFILLED", "REJECTED"}]
InventoryRow == [item : Items, at : Warehouses, hidden : BOOLEAN]

StockRows ==
  /\ warehouse \in [Warehouses -> [state : {"none", "live", "deleted"}, main : BOOLEAN, active : BOOLEAN]]
  /\ inventory \in Seq(InventoryRow) /\ Len(inventory) <= MaxInventories
  /\ batch \in BatchRows(Len(inventory))
  /\ transfer \in Seq(TransferRow(Len(inventory))) /\ Len(transfer) <= MaxTransfers
  /\ allocated \in [SaleIds -> Seq(Nat)] /\ \A s \in SaleIds : Len(allocated[s]) <= Len(batch)
  /\ received \in [Items -> Nat]
  /\ moved \in Seq(Nat) /\ Len(moved) = Len(transfer)

\* What a request read is still there when it writes.
Fits(u) ==
  /\ u.op = "request" => u.i \in DOMAIN inventory
  /\ u.op \in {"fulfil", "reject"} => u.t \in DOMAIN transfer
  /\ u.op \in {"fulfil", "sell"} => Len(u.take) <= Len(batch)
  /\ u.op = "fulfil" => /\ SumFunction(u.take) = u.quantity
                        /\ \A b \in DOMAIN u.take : u.take[b] # 0 => batch[b].inventory = transfer[u.t].inventory

StockDesks ==
  /\ desk \in [Clerks -> Busy \cup {Idle}]
  /\ \A c \in Clerks : Fits(desk[c])

\* Two requests that are served at the same time may be.
OverlapsOnly ==
  \A c, d \in Clerks : c # d => desk[c] = Idle \/ desk[d] = Idle \/ {desk[c].op, desk[d].op} \in Overlap

\* A row stays, with the inventory it belongs to.
Grows ==
  /\ Len(inventory) <= Len(inventory') /\ Len(batch) <= Len(batch') /\ Len(transfer) <= Len(transfer')
  /\ \A b \in DOMAIN batch : batch'[b].inventory = batch[b].inventory
  /\ \A t \in DOMAIN transfer : transfer'[t].inventory = transfer[t].inventory

LEMMA WorkIs ==
  ASSUME NEW u \in Busy \cup {Idle}
  PROVE  /\ u.op = "create" => u.w \in Warehouses /\ u.main \in BOOLEAN
         /\ u.op = "delete" => u.w \in Warehouses
         /\ u.op = "request" => u.i \in 1 .. MaxInventories /\ u.w \in Warehouses
         /\ u.op = "reject" => u.t \in 1 .. MaxTransfers
         /\ u.op = "fulfil" => u.t \in 1 .. MaxTransfers /\ u.quantity \in Nat /\ u.take \in Seq(Nat)
         /\ u.op = "sell" => u.s \in SaleIds /\ u.take \in Seq(Nat)
         /\ u.op = "none" <=> u = Idle
BY DEF Busy, Idle

LEMMA SeqWider ==
  ASSUME NEW R, NEW Q, R \subseteq Q, NEW lots \in Seq(R)
  PROVE  lots \in Seq(Q)
<1>1. lots \in [1 .. Len(lots) -> Q] /\ Len(lots) \in Nat
  BY SeqAt
<1> QED
  BY <1>1, SeqFrom

LEMMA RowsWider ==
  ASSUME NEW m \in Nat, NEW k \in Nat, m <= k
  PROVE  BatchRows(m) \subseteq BatchRows(k) /\ Seq(TransferRow(m)) \subseteq Seq(TransferRow(k))
<1>1. BatchRow(m) \subseteq BatchRow(k) /\ TransferRow(m) \subseteq TransferRow(k)
  BY DEF BatchRow, TransferRow
<1> QED
  BY <1>1, SeqWider DEF BatchRows

LEMMA SeqAppend ==
  ASSUME NEW R, NEW lots \in Seq(R), NEW r \in R
  PROVE  /\ Append(lots, r) \in Seq(R) /\ Len(Append(lots, r)) = Len(lots) + 1
         /\ Append(lots, r)[Len(lots) + 1] = r
         /\ \A n \in DOMAIN lots : n \in DOMAIN Append(lots, r) /\ Append(lots, r)[n] = lots[n]
         /\ DOMAIN Append(lots, r) = DOMAIN lots \cup {Len(lots) + 1}
  OBVIOUS

LEMMA InitStockRows == StockInit => StockRows /\ StockDesks /\ OverlapsOnly
<1> SUFFICES ASSUME StockInit
             PROVE  StockRows /\ StockDesks /\ OverlapsOnly
  OBVIOUS
<1>1. \A R : <<>> \in Seq(R) /\ Len(<<>>) = 0
  OBVIOUS
<1>2. StockRows
  BY <1>1, StockRoomAssumption DEF StockInit, StockRows, Unknown, Nothing, BatchRows
<1>3. StockDesks
  BY DEF StockInit, StockDesks, Fits, Idle
<1> QED
  BY <1>2, <1>3 DEF StockInit, OverlapsOnly

LEMMA FitsStays ==
  ASSUME StockRows, StockRows', Grows, NEW u \in Busy \cup {Idle}, Fits(u)
  PROVE  Fits(u)'
<1>1. /\ DOMAIN inventory \subseteq DOMAIN inventory' /\ DOMAIN transfer \subseteq DOMAIN transfer'
      /\ Len(batch) <= Len(batch') /\ Len(batch) \in Nat /\ Len(batch') \in Nat
      /\ DOMAIN batch = 1 .. Len(batch)
  <2>1. /\ DOMAIN inventory = 1 .. Len(inventory) /\ DOMAIN inventory' = 1 .. Len(inventory')
        /\ Len(inventory) \in Nat /\ Len(inventory') \in Nat
    BY SeqAt DEF StockRows
  <2>2. /\ DOMAIN transfer = 1 .. Len(transfer) /\ DOMAIN transfer' = 1 .. Len(transfer')
        /\ Len(transfer) \in Nat /\ Len(transfer') \in Nat
    BY SeqAt DEF StockRows
  <2>3. Len(batch) \in Nat /\ Len(batch') \in Nat /\ DOMAIN batch = 1 .. Len(batch)
    BY SeqAt DEF StockRows, BatchRows
  <2> QED
    BY <2>1, <2>2, <2>3 DEF Grows
<1>2. u.op \in {"fulfil", "sell"} => Len(u.take) <= Len(batch) /\ Len(u.take) \in Nat /\ DOMAIN u.take = 1 .. Len(u.take)
  BY WorkIs, SeqAt DEF Fits
<1>3. u.op = "fulfil" =>
        \A b \in DOMAIN u.take : u.take[b] # 0 => batch'[b].inventory = transfer'[u.t].inventory
  <2> SUFFICES ASSUME u.op = "fulfil", NEW b \in DOMAIN u.take, u.take[b] # 0
               PROVE  batch'[b].inventory = transfer'[u.t].inventory
    OBVIOUS
  <2>1. b \in DOMAIN batch /\ u.t \in DOMAIN transfer
    BY <1>1, <1>2 DEF Fits
  <2> QED
    BY <2>1 DEF Fits, Grows
<1> QED
  BY <1>1, <1>2, <1>3 DEF Fits

\* The lengths and the domains of the rows.
LEMMA StockLengths ==
  ASSUME StockRows
  PROVE  /\ Len(inventory) \in Nat /\ DOMAIN inventory = 1 .. Len(inventory)
         /\ Len(batch) \in Nat /\ DOMAIN batch = 1 .. Len(batch) /\ batch \in Seq(BatchRow(Len(inventory)))
         /\ Len(transfer) \in Nat /\ DOMAIN transfer = 1 .. Len(transfer)
         /\ DOMAIN moved = DOMAIN transfer
         /\ Counted(batch)
         /\ \A t \in DOMAIN transfer : transfer[t].inventory \in DOMAIN inventory /\ transfer[t].to \in Warehouses
                                       /\ transfer[t].done \in Nat
         /\ \A i \in DOMAIN inventory : inventory[i] \in InventoryRow
         /\ \A b \in DOMAIN batch : batch[b].inventory \in DOMAIN inventory /\ batch[b].left \in Int
<1>1. /\ Len(inventory) \in Nat /\ DOMAIN inventory = 1 .. Len(inventory)
      /\ \A i \in DOMAIN inventory : inventory[i] \in InventoryRow
  BY SeqAt DEF StockRows
<1>2. /\ Len(batch) \in Nat /\ DOMAIN batch = 1 .. Len(batch) /\ batch \in Seq(BatchRow(Len(inventory)))
      /\ \A b \in DOMAIN batch : batch[b].inventory \in DOMAIN inventory /\ batch[b].left \in Int
  BY <1>1, RowsAt DEF StockRows, BatchRows
<1>3. Len(transfer) \in Nat /\ DOMAIN transfer = 1 .. Len(transfer) /\ DOMAIN moved = DOMAIN transfer
  BY SeqAt DEF StockRows
<1>4. \A t \in DOMAIN transfer : transfer[t].inventory \in DOMAIN inventory /\ transfer[t].to \in Warehouses
                                 /\ transfer[t].done \in Nat
  <2>1. \A t \in DOMAIN transfer : transfer[t] \in TransferRow(Len(inventory))
    BY SeqAt DEF StockRows
  <2> QED
    BY <1>1, <2>1 DEF TransferRow
<1> QED
  BY <1>1, <1>2, <1>3, <1>4 DEF Counted

LEMMA RowsUnchanged ==
  ASSUME StockRows, UNCHANGED <<inventory, batch, transfer>>
  PROVE  Grows
BY StockLengths DEF Grows

\* A request that begins.
LEMMA BeginsKeeps ==
  ASSUME StockRows, StockDesks, OverlapsOnly, NEW c \in Clerks, NEW work \in Busy, Fits(work), Begins(c, work)
  PROVE  StockRows' /\ Grows /\ StockDesks' /\ OverlapsOnly'
<1>1. StockRows' /\ Grows
  <2>1. StockRows'
    BY DEF Begins, StockRows
  <2> QED
    BY <2>1, RowsUnchanged DEF Begins
<1>2. desk' \in [Clerks -> Busy \cup {Idle}] /\ desk' = [desk EXCEPT ![c] = work]
  BY DEF Begins, StockDesks
<1>3. ASSUME NEW d \in Clerks
      PROVE  Fits(desk[d])'
  <2>1. \A w \in Busy \cup {Idle} : Fits(w) => Fits(w)'
    BY <1>1, FitsStays
  <2>2. CASE d = c
    BY <1>2, <2>1, <2>2 DEF Fits, StockDesks
  <2>3. CASE d # c
    <3>1. Fits(desk[d]) /\ desk[d] \in Busy \cup {Idle} /\ desk'[d] = desk[d]
      BY <1>2, <2>3 DEF StockDesks
    <3> QED
      BY <2>1, <3>1 DEF Fits
  <2> QED
    BY <2>2, <2>3
<1>4. OverlapsOnly'
  BY <1>2 DEF OverlapsOnly, Begins, MayRun, StockDesks
<1> QED
  BY <1>1, <1>2, <1>3, <1>4 DEF StockDesks

\* A request that ends, or a step of no request.
LEMMA EndsKeeps ==
  ASSUME StockRows, StockDesks, OverlapsOnly, StockRows', Grows,
         UNCHANGED desk \/ \E c \in Clerks : Ends(c)
  PROVE  StockDesks' /\ OverlapsOnly'
<1>1. \A d \in Clerks : desk'[d] = desk[d] \/ desk'[d] = Idle
  BY DEF Ends, StockDesks
<1>2. desk' \in [Clerks -> Busy \cup {Idle}]
  BY DEF Ends, StockDesks
<1>3. ASSUME NEW d \in Clerks
      PROVE  Fits(desk[d])'
  <2>1. CASE desk'[d] = Idle
    BY <2>1 DEF Fits, Idle
  <2>2. CASE desk'[d] = desk[d]
    <3>1. Fits(desk[d]) /\ desk[d] \in Busy \cup {Idle}
      BY DEF StockDesks
    <3> DEFINE u == desk[d]
    <3>2. \A w \in Busy \cup {Idle} : Fits(w) => Fits(w)'
      BY FitsStays
    <3> QED
      BY <2>2, <3>1, <3>2 DEF Fits
  <2> QED
    BY <1>1, <2>1, <2>2
<1>4. OverlapsOnly'
  BY <1>1 DEF OverlapsOnly
<1> QED
  BY <1>2, <1>3, <1>4 DEF StockDesks

LEMMA BeginFulfilFits ==
  ASSUME StockRows, NEW c \in Clerks, NEW t \in DOMAIN transfer, NEW n \in Quantities, BeginFulfil(c, t, n)
  PROVE  \E work \in Busy : Fits(work) /\ Begins(c, work) /\ work.op = "fulfil" /\ work.t = t
                            /\ (NoneOwed(batch) => \A b \in DOMAIN work.take : work.take[b] <= batch[b].left)
<1> DEFINE take == Take(batch, transfer[t].inventory, n)
           work == [op |-> "fulfil", t |-> t, quantity |-> n, take |-> take]
<1>1. n \in Nat /\ n <= UnitsOf(batch, transfer[t].inventory)
  BY StockRoomAssumption DEF BeginFulfil
<1>2. /\ take \in Seq(Nat) /\ Len(take) = Len(batch)
      /\ \A b \in DOMAIN batch : take[b] # 0 => batch[b].inventory = transfer[t].inventory /\ take[b] <= batch[b].left
  BY <1>1, StockLengths, TakeAt
<1>3. SumFunction(take) = n
  BY <1>1, StockLengths, TakeSums
<1>4. t \in 1 .. MaxTransfers
  <2>1. Len(transfer) <= MaxTransfers /\ MaxTransfers \in Nat
    BY StockRoomAssumption DEF StockRows
  <2> QED
    BY <2>1, StockLengths
<1>5. DOMAIN take = DOMAIN batch /\ Len(take) <= Len(batch)
  BY <1>2, SeqAt, StockLengths
<1>6. Begins(c, work)
  BY DEF BeginFulfil
<1> HIDE DEF take
<1>7. work \in Busy /\ work.op = "fulfil" /\ work.t = t /\ work.take = take /\ work.quantity = n
  BY <1>1, <1>2, <1>4 DEF Busy
<1> HIDE DEF work
<1>8. Fits(work)
  BY <1>2, <1>3, <1>5, <1>7 DEF Fits
<1>9. NoneOwed(batch) => \A b \in DOMAIN work.take : work.take[b] <= batch[b].left
  BY <1>2, <1>5, <1>7 DEF NoneOwed
<1> QED
  BY <1>6, <1>7, <1>8, <1>9

LEMMA BeginSaleFits ==
  ASSUME StockRows, NEW c \in Clerks, NEW s \in SaleIds, NEW items \in Orders, BeginSale(c, s, items)
  PROVE  \E work \in Busy : Fits(work) /\ Begins(c, work) /\ work.op = "sell" /\ work.s = s
                            /\ work.take = TakenBySale(items, batch)
<1> DEFINE take == TakenBySale(items, batch)
           work == [op |-> "sell", s |-> s, take |-> take]
<1>1. items \in Seq([product : Products, quantity : Nat \ {0}])
  BY StockRoomAssumption
<1>2. take \in Seq(Nat) /\ Len(take) = Len(batch)
  BY <1>1, StockLengths, TakenBySaleAt
<1>3. Begins(c, work)
  BY DEF BeginSale
<1> HIDE DEF take
<1>4. work \in Busy /\ work.op = "sell" /\ work.s = s /\ work.take = take
  BY <1>2 DEF Busy
<1> HIDE DEF work
<1>5. Fits(work)
  BY <1>2, <1>4, StockLengths DEF Fits
<1> QED
  BY <1>3, <1>4, <1>5 DEF take

LEMMA CreateInventoryKeeps ==
  ASSUME StockRows, NEW x \in Items, NEW price \in Prices, NEW n \in Deliveries, CreateInventory(x, price, n)
  PROVE  StockRows' /\ Grows
<1> DEFINE m == Len(inventory)
<1>0. n \in Nat /\ m \in Nat /\ m + 1 \in Nat /\ m + 1 <= MaxInventories /\ MaxInventories \in Nat
  BY StockLengths, StockRoomAssumption DEF CreateInventory
<1>1. PICK w \in Warehouses : inventory' = Append(inventory, [item |-> x, at |-> w, hidden |-> FALSE])
  BY DEF CreateInventory
<1>2. /\ inventory' \in Seq(InventoryRow) /\ Len(inventory') = m + 1
      /\ \A i \in DOMAIN inventory : inventory'[i] = inventory[i]
  <2>1. [item |-> x, at |-> w, hidden |-> FALSE] \in InventoryRow
    BY DEF InventoryRow
  <2> QED
    BY <1>1, <2>1, SeqAppend DEF StockRows
<1>3. batch \in BatchRows(m + 1) /\ transfer' \in Seq(TransferRow(m + 1))
  BY <1>0, RowsWider DEF StockRows, CreateInventory
<1>4. /\ batch' \in BatchRows(m + 1) /\ Len(batch) <= Len(batch')
      /\ \A b \in DOMAIN batch : batch'[b].inventory = batch[b].inventory
      /\ received' \in [Items -> Nat]
  <2>1. CASE UNCHANGED <<batch, received>>
    BY <1>3, <2>1, StockLengths DEF StockRows
  <2>2. CASE /\ batch' = Append(batch, Row(Len(inventory) + 1, price, n))
             /\ received' = [received EXCEPT ![x] = @ + n]
    <3>1. Row(m + 1, price, n) \in BatchRow(m + 1)
      BY <1>0 DEF Row, BatchRow
    <3>2. batch' \in BatchRows(m + 1) /\ Len(batch') = Len(batch) + 1 /\ \A b \in DOMAIN batch : batch'[b] = batch[b]
      BY <1>3, <2>2, <3>1, SeqAppend DEF BatchRows
    <3>3. received' \in [Items -> Nat]
      BY <1>0, <2>2 DEF StockRows
    <3> QED
      BY <3>2, <3>3, StockLengths
  <2> QED
    BY <2>1, <2>2 DEF CreateInventory
<1>5. \A s \in SaleIds : Len(allocated[s]) \in Nat
  BY SeqAt DEF StockRows
<1>6. Len(batch) \in Nat /\ Len(batch') \in Nat
  BY <1>0, <1>4, StockLengths, RowsAt
<1>7. StockRows'
  BY <1>0, <1>2, <1>3, <1>4, <1>5, <1>6 DEF StockRows, CreateInventory
<1> QED
  BY <1>0, <1>2, <1>4, <1>7, StockLengths DEF Grows, CreateInventory

LEMMA CreateInventoryBatchKeeps ==
  ASSUME StockRows, NEW i \in DOMAIN inventory, NEW price \in Prices, NEW n \in Deliveries,
         CreateInventoryBatch(i, price, n)
  PROVE  StockRows' /\ Grows
<1>0. n \in Nat /\ inventory[i].item \in Items
  BY StockLengths, StockRoomAssumption DEF InventoryRow
<1>1. Row(i, price, n) \in BatchRow(Len(inventory))
  BY <1>0, StockLengths DEF Row, BatchRow
<1>2. /\ batch' \in BatchRows(Len(inventory)) /\ Len(batch') = Len(batch) + 1
      /\ \A b \in DOMAIN batch : batch'[b] = batch[b]
  BY <1>1, SeqAppend DEF BatchRows, StockRows, CreateInventoryBatch
<1>3. \A s \in SaleIds : Len(allocated[s]) \in Nat
  BY SeqAt DEF StockRows
<1>4. received' \in [Items -> Nat]
  BY <1>0 DEF StockRows, CreateInventoryBatch
<1>5. StockRows'
  BY <1>2, <1>3, <1>4, StockLengths DEF StockRows, CreateInventoryBatch
<1> QED
  BY <1>2, <1>5, StockLengths DEF Grows, CreateInventoryBatch

LEMMA ToggleHideKeeps ==
  ASSUME StockRows, NEW i \in DOMAIN inventory, ToggleHideInventory(i)
  PROVE  StockRows' /\ Grows
<1>1. inventory' \in [1 .. Len(inventory) -> InventoryRow]
  BY StockLengths DEF ToggleHideInventory, InventoryRow
<1>2. inventory' \in Seq(InventoryRow) /\ Len(inventory') = Len(inventory)
  BY <1>1, SeqFrom, StockLengths
<1>3. StockRows'
  BY <1>2 DEF StockRows, ToggleHideInventory
<1> QED
  BY <1>2, <1>3, StockLengths DEF Grows, ToggleHideInventory

LEMMA CreateTransferRequestKeeps ==
  ASSUME StockRows, StockDesks, NEW c \in Clerks, CreateTransferRequest(c)
  PROVE  StockRows' /\ Grows
<1>1. desk[c].i \in DOMAIN inventory /\ desk[c].w \in Warehouses
  BY WorkIs DEF StockDesks, Fits, CreateTransferRequest
<1> DEFINE r == [inventory |-> desk[c].i, to |-> desk[c].w, done |-> 0, status |-> "PENDING"]
<1>2. r \in TransferRow(Len(inventory))
  BY <1>1, StockLengths DEF TransferRow
<1>3. transfer' = Append(transfer, r)
  BY DEF CreateTransferRequest
<1> HIDE DEF r
<1>4. /\ transfer' \in Seq(TransferRow(Len(inventory))) /\ Len(transfer') = Len(transfer) + 1
      /\ \A t \in DOMAIN transfer : transfer'[t] = transfer[t]
  BY <1>2, <1>3, SeqAppend DEF StockRows
<1>5. moved' \in Seq(Nat) /\ Len(moved') = Len(transfer')
  BY <1>4, SeqAppend DEF StockRows, CreateTransferRequest
<1>6. Len(transfer') <= MaxTransfers
  BY <1>4, StockLengths, StockRoomAssumption DEF CreateTransferRequest
<1>7. StockRows'
  BY <1>4, <1>5, <1>6 DEF StockRows, CreateTransferRequest
<1> QED
  BY <1>4, <1>7, StockLengths DEF Grows, CreateTransferRequest

\* A row of a transfer written, its inventory kept.
LEMMA TransferWritten ==
  ASSUME StockRows, NEW t \in DOMAIN transfer, NEW m \in Nat, Len(inventory) <= m,
         DOMAIN transfer' = DOMAIN transfer,
         transfer' = [u \in DOMAIN transfer |-> transfer'[u]],
         \A u \in DOMAIN transfer : u # t => transfer'[u] = transfer[u],
         transfer'[t] \in TransferRow(m), transfer'[t].inventory = transfer[t].inventory
  PROVE  /\ transfer' \in Seq(TransferRow(m)) /\ Len(transfer') = Len(transfer)
         /\ \A u \in DOMAIN transfer : transfer'[u].inventory = transfer[u].inventory
<1>1. transfer \in Seq(TransferRow(m))
  BY RowsWider, StockLengths DEF StockRows
<1>2. transfer' \in [1 .. Len(transfer) -> TransferRow(m)]
  BY <1>1, StockLengths, SeqAt
<1>3. transfer' \in Seq(TransferRow(m)) /\ Len(transfer') = Len(transfer)
  BY <1>2, StockLengths, SeqFrom
<1> QED
  BY <1>3

LEMMA RejectKeeps ==
  ASSUME StockRows, StockDesks, NEW c \in Clerks, RejectTransferRequest(c)
  PROVE  StockRows' /\ Grows
<1> DEFINE t == desk[c].t
<1>1. t \in DOMAIN transfer
  BY DEF StockDesks, Fits, RejectTransferRequest
<1>2. transfer[t] \in TransferRow(Len(inventory))
  BY <1>1, SeqAt DEF StockRows
<1>3. /\ DOMAIN transfer' = DOMAIN transfer /\ transfer' = [u \in DOMAIN transfer |-> transfer'[u]]
      /\ \A u \in DOMAIN transfer : u # t => transfer'[u] = transfer[u]
      /\ transfer'[t] = [transfer[t] EXCEPT !.status = "REJECTED"]
  BY <1>1, SeqAt DEF StockRows, RejectTransferRequest
<1>4. transfer'[t] \in TransferRow(Len(inventory)) /\ transfer'[t].inventory = transfer[t].inventory
  BY <1>2, <1>3 DEF TransferRow
<1> HIDE DEF t
<1>5. /\ transfer' \in Seq(TransferRow(Len(inventory))) /\ Len(transfer') = Len(transfer)
      /\ \A u \in DOMAIN transfer : transfer'[u].inventory = transfer[u].inventory
  <2>1. Len(inventory) \in Nat /\ Len(inventory) <= Len(inventory)
    BY StockLengths
  <2> QED
    BY <1>1, <1>3, <1>4, <2>1, TransferWritten
<1>6. StockRows'
  BY <1>5 DEF StockRows, RejectTransferRequest
<1> QED
  BY <1>5, <1>6, StockLengths DEF Grows, RejectTransferRequest

\* A transfer's units go to an inventory of the same item.
LEMMA FulfilIs ==
  ASSUME StockRows, StockDesks, NEW c \in Clerks, FulfillTransferRequest(c)
  PROVE  /\ desk[c].t \in DOMAIN transfer /\ desk[c].take \in Seq(Nat) /\ Len(desk[c].take) <= Len(batch)
         /\ desk[c].quantity \in Nat /\ SumFunction(desk[c].take) = desk[c].quantity
         /\ Len(inventory) <= Len(inventory') /\ Len(inventory') <= MaxInventories
         /\ inventory' \in Seq(InventoryRow) /\ Len(inventory') \in Nat
         /\ \A i \in DOMAIN inventory : inventory'[i] = inventory[i]
         /\ batch \in BatchRows(Len(inventory'))
         /\ \E to \in 1 .. Len(inventory') :
              /\ inventory'[to].item = inventory[transfer[desk[c].t].inventory].item
              /\ batch' = MoveAll(batch, desk[c].take, to)
<1> DEFINE t == desk[c].t
           item == inventory[transfer[t].inventory].item
           there == {i \in DOMAIN inventory : inventory[i].item = item /\ inventory[i].at = transfer[t].to
                                              /\ ~inventory[i].hidden}
           to == IF there = {} THEN Len(inventory) + 1 ELSE Min(there)
<1>1. /\ desk[c] \in Busy \cup {Idle} /\ Fits(desk[c]) /\ desk[c].op = "fulfil"
  BY DEF StockDesks, FulfillTransferRequest
<1>2. /\ desk[c].t \in DOMAIN transfer /\ desk[c].take \in Seq(Nat) /\ Len(desk[c].take) <= Len(batch)
      /\ desk[c].quantity \in Nat /\ SumFunction(desk[c].take) = desk[c].quantity
  BY <1>1, WorkIs DEF Fits
<1>3. /\ to <= MaxInventories
      /\ inventory' = IF there # {} THEN inventory
                      ELSE Append(inventory, [item |-> item, at |-> transfer[t].to, hidden |-> FALSE])
      /\ batch' = MoveAll(batch, desk[c].take, to)
  BY DEF FulfillTransferRequest
<1>4. item \in Items /\ transfer[t].to \in Warehouses
  BY <1>2, StockLengths DEF InventoryRow
<1>5. CASE there # {}
  <2>1. there \subseteq Nat
    BY StockLengths
  <2>2. Min(there) \in there
    <3> HIDE DEF there
    <3> QED
      BY <1>5, <2>1, MinIsIn
  <2>3. to \in DOMAIN inventory /\ inventory[to].item = item
    BY <1>5, <2>2
  <2>4. inventory' = inventory
    BY <1>3, <1>5
  <2> HIDE DEF to, there, item
  <2>5. to \in 1 .. Len(inventory') /\ Len(inventory) <= Len(inventory')
    <3>1. Len(inventory') = Len(inventory)
      BY <2>4
    <3> QED
      BY <2>3, <3>1, StockLengths
  <2> QED
    BY <1>2, <1>3, <2>3, <2>4, <2>5, StockLengths DEF StockRows, item, t
<1>6. CASE there = {}
  <2> DEFINE r == [item |-> item, at |-> transfer[t].to, hidden |-> FALSE]
  <2>1. inventory' = Append(inventory, r) /\ to = Len(inventory) + 1
    BY <1>3, <1>6
  <2>2. r \in InventoryRow /\ r.item = item
    BY <1>4 DEF InventoryRow
  <2> HIDE DEF r, to, there, item
  <2>3. /\ inventory' \in Seq(InventoryRow) /\ Len(inventory') = Len(inventory) + 1
        /\ inventory'[to] = r /\ \A i \in DOMAIN inventory : inventory'[i] = inventory[i]
    BY <2>1, <2>2, SeqAppend DEF StockRows
  <2>4. Len(inventory) \in Nat /\ Len(inventory') \in Nat /\ to \in 1 .. Len(inventory')
        /\ Len(inventory) <= Len(inventory') /\ Len(inventory') <= MaxInventories
    BY <1>3, <2>1, <2>3, StockLengths
  <2>5. batch \in BatchRows(Len(inventory'))
    BY <2>4, RowsWider DEF StockRows
  <2> QED
    BY <1>2, <1>3, <2>2, <2>3, <2>4, <2>5 DEF item, t
<1> QED
  BY <1>5, <1>6

LEMMA FulfilKeeps ==
  ASSUME StockRows, StockDesks, NEW c \in Clerks, FulfillTransferRequest(c)
  PROVE  StockRows' /\ Grows
<1> DEFINE t == desk[c].t
           m == Len(inventory')
           take == desk[c].take
<1>1. /\ t \in DOMAIN transfer /\ take \in Seq(Nat) /\ Len(take) <= Len(batch)
      /\ desk[c].quantity \in Nat /\ SumFunction(take) = desk[c].quantity
      /\ Len(inventory) <= m /\ m <= MaxInventories
      /\ inventory' \in Seq(InventoryRow) /\ m \in Nat
      /\ batch \in BatchRows(m)
  BY FulfilIs
<1>2. PICK to \in 1 .. m : batch' = MoveAll(batch, take, to)
  BY FulfilIs
<1> HIDE DEF t, m, take
<1>3. /\ batch' \in BatchRows(m) /\ DOMAIN batch \subseteq DOMAIN batch'
      /\ \A d \in DOMAIN batch : batch'[d].inventory = batch[d].inventory
  BY <1>1, <1>2, MoveAllIs
<1>4. Len(batch') \in Nat /\ Len(batch) <= Len(batch')
  <2>1. Len(batch') \in Nat /\ DOMAIN batch' = 1 .. Len(batch')
    BY <1>1, <1>3, RowsAt
  <2> QED
    BY <1>3, <2>1, StockLengths
<1>5. transfer[t] \in TransferRow(m)
  <2>1. transfer \in Seq(TransferRow(m))
    BY <1>1, RowsWider, StockLengths DEF StockRows
  <2> QED
    BY <1>1, <2>1, SeqAt
<1>6. /\ DOMAIN transfer' = DOMAIN transfer /\ transfer' = [u \in DOMAIN transfer |-> transfer'[u]]
      /\ \A u \in DOMAIN transfer : u # t => transfer'[u] = transfer[u]
      /\ transfer'[t] = [transfer[t] EXCEPT !.status = "FULFILLED", !.done = desk[c].quantity]
  <2>1. transfer' = [transfer EXCEPT ![t].status = "FULFILLED", ![t].done = desk[c].quantity]
    BY DEF FulfillTransferRequest, t
  <2> QED
    BY <1>1, <2>1, SeqAt DEF StockRows
<1>7. transfer'[t] \in TransferRow(m) /\ transfer'[t].inventory = transfer[t].inventory
  BY <1>1, <1>5, <1>6 DEF TransferRow
<1>8. /\ transfer' \in Seq(TransferRow(m)) /\ Len(transfer') = Len(transfer)
      /\ \A u \in DOMAIN transfer : transfer'[u].inventory = transfer[u].inventory
  BY <1>1, <1>6, <1>7, TransferWritten
<1>9. moved' \in Seq(Nat) /\ Len(moved') = Len(moved)
  <2>1. moved' = [moved EXCEPT ![t] = @ + desk[c].quantity]
    BY <1>1 DEF FulfillTransferRequest, t, take
  <2>2. moved' \in [1 .. Len(moved) -> Nat] /\ Len(moved) \in Nat
    BY <1>1, <2>1, SeqAt, SMTT(30) DEF StockRows
  <2> QED
    BY <2>2, SeqFrom
<1>10. \A s \in SaleIds : Len(allocated[s]) \in Nat
  BY SeqAt DEF StockRows
<1>11. StockRows'
  <2>1. \A s \in SaleIds : Len(allocated'[s]) <= Len(batch')
    <3>1. \A s \in SaleIds : Len(allocated[s]) <= Len(batch)
      BY DEF StockRows
    <3>2. allocated' = allocated /\ Len(batch) \in Nat
      BY StockLengths DEF FulfillTransferRequest
    <3> QED
      BY <1>4, <1>10, <3>1, <3>2
  <2>2. Len(transfer') <= MaxTransfers /\ Len(moved') = Len(transfer')
    BY <1>8, <1>9 DEF StockRows
  <2>3. UNCHANGED <<warehouse, allocated, received>>
    BY DEF FulfillTransferRequest
  <2> QED
    BY <1>1, <1>3, <1>8, <1>9, <2>1, <2>2, <2>3 DEF StockRows, m
<1> QED
  BY <1>1, <1>3, <1>4, <1>8, <1>11, StockLengths DEF Grows, m

\* Units taken from every batch, or put back.
LEMMA BatchesWritten ==
  ASSUME StockRows, NEW take \in Seq(Nat), Len(take) <= Len(batch),
         \/ batch' = [b \in DOMAIN batch |->
                        IF b \in DOMAIN take THEN [batch[b] EXCEPT !.left = @ - take[b]] ELSE batch[b]]
         \/ batch' = [b \in DOMAIN batch |->
                        IF b \in DOMAIN take THEN [batch[b] EXCEPT !.left = @ + take[b]] ELSE batch[b]]
  PROVE  /\ batch' \in BatchRows(Len(inventory)) /\ Len(batch') = Len(batch) /\ DOMAIN batch' = DOMAIN batch
         /\ \A b \in DOMAIN batch : batch'[b].inventory = batch[b].inventory
<1>1. \A b \in DOMAIN batch : batch[b] \in BatchRow(Len(inventory))
  BY SeqAt, StockLengths
<1>2. \A b \in DOMAIN take : take[b] \in Nat
  BY SeqAt
<1>3. \A b \in DOMAIN batch : batch'[b] \in BatchRow(Len(inventory)) /\ batch'[b].inventory = batch[b].inventory
  <2> SUFFICES ASSUME NEW b \in DOMAIN batch
               PROVE  batch'[b] \in BatchRow(Len(inventory)) /\ batch'[b].inventory = batch[b].inventory
    OBVIOUS
  <2>1. \A n \in Int : /\ [batch[b] EXCEPT !.left = n] \in BatchRow(Len(inventory))
                      /\ [batch[b] EXCEPT !.left = n].inventory = batch[b].inventory
    BY <1>1 DEF BatchRow
  <2>2. batch[b].left \in Int
    BY StockLengths
  <2>3. CASE b \notin DOMAIN take
    BY <1>1, <2>3
  <2>4. CASE b \in DOMAIN take
    <3>1. batch[b].left - take[b] \in Int /\ batch[b].left + take[b] \in Int
      BY <1>2, <2>2, <2>4
    <3>2. \/ batch'[b] = [batch[b] EXCEPT !.left = batch[b].left - take[b]]
          \/ batch'[b] = [batch[b] EXCEPT !.left = batch[b].left + take[b]]
      BY <2>4
    <3> QED
      BY <2>1, <3>1, <3>2
  <2> QED
    BY <2>3, <2>4
<1>4. batch' \in [1 .. Len(batch) -> BatchRow(Len(inventory))] /\ DOMAIN batch' = DOMAIN batch
  <2>1. DOMAIN batch' = DOMAIN batch /\ batch' = [b \in DOMAIN batch |-> batch'[b]]
    OBVIOUS
  <2> QED
    BY <1>3, <2>1, StockLengths
<1>5. batch' \in BatchRows(Len(inventory)) /\ Len(batch') = Len(batch)
  BY <1>4, SeqFrom, StockLengths DEF BatchRows
<1> QED
  BY <1>3, <1>4, <1>5

LEMMA CreateSaleKeeps ==
  ASSUME StockRows, StockDesks, NEW c \in Clerks, CreateSale(c)
  PROVE  StockRows' /\ Grows
<1>1. desk[c].take \in Seq(Nat) /\ Len(desk[c].take) <= Len(batch) /\ desk[c].s \in SaleIds
  BY WorkIs DEF StockDesks, Fits, CreateSale
<1>2. /\ batch' \in BatchRows(Len(inventory)) /\ Len(batch') = Len(batch)
      /\ \A b \in DOMAIN batch : batch'[b].inventory = batch[b].inventory
  BY <1>1, BatchesWritten DEF CreateSale
<1>3. allocated' \in [SaleIds -> Seq(Nat)] /\ \A s \in SaleIds : Len(allocated'[s]) <= Len(batch')
  BY <1>1, <1>2 DEF CreateSale, StockRows
<1>4. StockRows'
  BY <1>2, <1>3 DEF StockRows, CreateSale
<1> QED
  BY <1>2, <1>4, StockLengths DEF Grows, CreateSale

LEMMA UndoSaleKeeps ==
  ASSUME StockRows, NEW s \in SaleIds, UndoSaleCreation(s)
  PROVE  StockRows' /\ Grows
<1>1. allocated[s] \in Seq(Nat) /\ Len(allocated[s]) <= Len(batch)
  BY DEF StockRows
<1>2. /\ batch' \in BatchRows(Len(inventory)) /\ Len(batch') = Len(batch)
      /\ \A b \in DOMAIN batch : batch'[b].inventory = batch[b].inventory
  BY <1>1, BatchesWritten DEF UndoSaleCreation
<1>3. Nothing \in Seq(Nat) /\ Len(Nothing) = 0 /\ 0 <= Len(batch)
  BY StockLengths DEF Nothing
<1>4. allocated' \in [SaleIds -> Seq(Nat)] /\ \A r \in SaleIds : Len(allocated'[r]) <= Len(batch')
  BY <1>2, <1>3 DEF UndoSaleCreation, StockRows
<1>5. StockRows'
  BY <1>2, <1>4 DEF StockRows, UndoSaleCreation
<1> QED
  BY <1>2, <1>5, StockLengths DEF Grows, UndoSaleCreation

\* A step of no request, or of one that ends.
LEMMA OtherStepKeeps ==
  ASSUME StockRows, StockDesks,
         \/ \E c \in Clerks : \/ CreateWarehouse(c) \/ DeleteWarehouse(c) \/ CreateTransferRequest(c)
                              \/ FulfillTransferRequest(c) \/ RejectTransferRequest(c) \/ CreateSale(c)
         \/ \E w \in Warehouses : DeactivateWarehouse(w) \/ ActivateWarehouse(w) \/ UpdateWarehouse(w)
         \/ \E x \in Items, price \in Prices, n \in Deliveries : CreateInventory(x, price, n)
         \/ \E i \in DOMAIN inventory, price \in Prices, n \in Deliveries : CreateInventoryBatch(i, price, n)
         \/ \E i \in DOMAIN inventory : ToggleHideInventory(i)
         \/ \E s \in SaleIds : UndoSaleCreation(s)
  PROVE  StockRows' /\ Grows /\ (UNCHANGED desk \/ \E c \in Clerks : Ends(c))
<1>1. ASSUME NEW c \in Clerks, CreateWarehouse(c)
      PROVE  StockRows' /\ Grows /\ Ends(c)
  <2>1. desk[c].w \in Warehouses /\ desk[c].main \in BOOLEAN
    BY <1>1, WorkIs DEF StockDesks, CreateWarehouse
  <2>2. warehouse' \in [Warehouses -> [state : {"none", "live", "deleted"}, main : BOOLEAN, active : BOOLEAN]]
    BY <1>1, <2>1 DEF StockRows, CreateWarehouse
  <2>3. StockRows'
    BY <1>1, <2>2 DEF StockRows, CreateWarehouse
  <2> QED
    BY <1>1, <2>3, RowsUnchanged DEF CreateWarehouse
<1>2. ASSUME NEW c \in Clerks, DeleteWarehouse(c)
      PROVE  StockRows' /\ Grows /\ Ends(c)
  <2>1. warehouse' \in [Warehouses -> [state : {"none", "live", "deleted"}, main : BOOLEAN, active : BOOLEAN]]
    BY <1>2 DEF StockRows, DeleteWarehouse
  <2>2. StockRows'
    BY <1>2, <2>1 DEF StockRows, DeleteWarehouse
  <2> QED
    BY <1>2, <2>2, RowsUnchanged DEF DeleteWarehouse
<1>3. ASSUME NEW c \in Clerks, CreateTransferRequest(c)
      PROVE  StockRows' /\ Grows /\ Ends(c)
  BY <1>3, CreateTransferRequestKeeps DEF CreateTransferRequest
<1>4. ASSUME NEW c \in Clerks, FulfillTransferRequest(c)
      PROVE  StockRows' /\ Grows /\ Ends(c)
  BY <1>4, FulfilKeeps DEF FulfillTransferRequest
<1>5. ASSUME NEW c \in Clerks, RejectTransferRequest(c)
      PROVE  StockRows' /\ Grows /\ Ends(c)
  BY <1>5, RejectKeeps DEF RejectTransferRequest
<1>6. ASSUME NEW c \in Clerks, CreateSale(c)
      PROVE  StockRows' /\ Grows /\ Ends(c)
  BY <1>6, CreateSaleKeeps DEF CreateSale
<1>7. ASSUME NEW w \in Warehouses, DeactivateWarehouse(w) \/ ActivateWarehouse(w) \/ UpdateWarehouse(w)
      PROVE  StockRows' /\ Grows /\ UNCHANGED desk
  <2>1. PICK active \in BOOLEAN : SetActive(w, active)
    BY <1>7 DEF DeactivateWarehouse, ActivateWarehouse, UpdateWarehouse
  <2>2. warehouse' \in [Warehouses -> [state : {"none", "live", "deleted"}, main : BOOLEAN, active : BOOLEAN]]
    BY <2>1 DEF StockRows, SetActive
  <2>3. StockRows'
    BY <2>1, <2>2 DEF StockRows, SetActive
  <2> QED
    BY <2>1, <2>3, RowsUnchanged DEF SetActive
<1>8. ASSUME NEW x \in Items, NEW price \in Prices, NEW n \in Deliveries, CreateInventory(x, price, n)
      PROVE  StockRows' /\ Grows /\ UNCHANGED desk
  BY <1>8, CreateInventoryKeeps DEF CreateInventory
<1>9. ASSUME NEW i \in DOMAIN inventory, NEW price \in Prices, NEW n \in Deliveries, CreateInventoryBatch(i, price, n)
      PROVE  StockRows' /\ Grows /\ UNCHANGED desk
  BY <1>9, CreateInventoryBatchKeeps DEF CreateInventoryBatch
<1>10. ASSUME NEW i \in DOMAIN inventory, ToggleHideInventory(i)
      PROVE  StockRows' /\ Grows /\ UNCHANGED desk
  BY <1>10, ToggleHideKeeps DEF ToggleHideInventory
<1>11. ASSUME NEW s \in SaleIds, UndoSaleCreation(s)
      PROVE  StockRows' /\ Grows /\ UNCHANGED desk
  BY <1>11, UndoSaleKeeps DEF UndoSaleCreation
<1> QED
  BY <1>1, <1>2, <1>3, <1>4, <1>5, <1>6, <1>7, <1>8, <1>9, <1>10, <1>11

\* A request that begins.
LEMMA BeginStepKeeps ==
  ASSUME StockRows, StockDesks, OverlapsOnly, NEW c \in Clerks,
         \/ \E w \in Warehouses, main \in BOOLEAN : BeginCreate(c, w, main)
         \/ \E w \in Warehouses : BeginDelete(c, w)
         \/ \E i \in DOMAIN inventory, w \in Warehouses, n \in Quantities : BeginRequest(c, i, w, n)
         \/ \E t \in DOMAIN transfer, n \in Quantities : BeginFulfil(c, t, n)
         \/ \E t \in DOMAIN transfer : BeginReject(c, t)
         \/ \E s \in SaleIds, items \in Orders : BeginSale(c, s, items)
  PROVE  StockRows' /\ Grows /\ StockDesks' /\ OverlapsOnly'
<1> SUFFICES \E work \in Busy : Fits(work) /\ Begins(c, work)
  BY BeginsKeeps
<1>1. ASSUME NEW w \in Warehouses, NEW main \in BOOLEAN, BeginCreate(c, w, main)
      PROVE  \E work \in Busy : Fits(work) /\ Begins(c, work)
  <2>1. [op |-> "create", w |-> w, main |-> main] \in Busy /\ Fits([op |-> "create", w |-> w, main |-> main])
    BY DEF Busy, Fits
  <2> QED
    BY <1>1, <2>1 DEF BeginCreate
<1>2. ASSUME NEW w \in Warehouses, BeginDelete(c, w)
      PROVE  \E work \in Busy : Fits(work) /\ Begins(c, work)
  <2>1. [op |-> "delete", w |-> w] \in Busy /\ Fits([op |-> "delete", w |-> w])
    BY DEF Busy, Fits
  <2> QED
    BY <1>2, <2>1 DEF BeginDelete
<1>3. ASSUME NEW i \in DOMAIN inventory, NEW w \in Warehouses, NEW n \in Quantities, BeginRequest(c, i, w, n)
      PROVE  \E work \in Busy : Fits(work) /\ Begins(c, work)
  <2>0. i \in 1 .. MaxInventories
    <3>1. Len(inventory) <= MaxInventories /\ MaxInventories \in Nat
      BY StockRoomAssumption DEF StockRows
    <3> QED
      BY <3>1, StockLengths
  <2>1. [op |-> "request", i |-> i, w |-> w] \in Busy /\ Fits([op |-> "request", i |-> i, w |-> w])
    BY <2>0 DEF Busy, Fits
  <2> QED
    BY <1>3, <2>1 DEF BeginRequest
<1>4. ASSUME NEW t \in DOMAIN transfer, NEW n \in Quantities, BeginFulfil(c, t, n)
      PROVE  \E work \in Busy : Fits(work) /\ Begins(c, work)
  BY <1>4, BeginFulfilFits
<1>5. ASSUME NEW t \in DOMAIN transfer, BeginReject(c, t)
      PROVE  \E work \in Busy : Fits(work) /\ Begins(c, work)
  <2>0. t \in 1 .. MaxTransfers
    <3>1. Len(transfer) <= MaxTransfers /\ MaxTransfers \in Nat
      BY StockRoomAssumption DEF StockRows
    <3> QED
      BY <3>1, StockLengths
  <2>1. [op |-> "reject", t |-> t] \in Busy /\ Fits([op |-> "reject", t |-> t])
    BY <2>0 DEF Busy, Fits
  <2> QED
    BY <1>5, <2>1 DEF BeginReject
<1>6. ASSUME NEW s \in SaleIds, NEW items \in Orders, BeginSale(c, s, items)
      PROVE  \E work \in Busy : Fits(work) /\ Begins(c, work)
  BY <1>6, BeginSaleFits
<1> QED
  BY <1>1, <1>2, <1>3, <1>4, <1>5, <1>6

LEMMA StepStockRows ==
  ASSUME StockRows, StockDesks, OverlapsOnly, StockNext
  PROVE  StockRows' /\ Grows /\ StockDesks' /\ OverlapsOnly'
<1>1. CASE \E c \in Clerks : \/ \E w \in Warehouses, main \in BOOLEAN : BeginCreate(c, w, main)
                             \/ \E w \in Warehouses : BeginDelete(c, w)
                             \/ \E i \in DOMAIN inventory, w \in Warehouses, n \in Quantities : BeginRequest(c, i, w, n)
                             \/ \E t \in DOMAIN transfer, n \in Quantities : BeginFulfil(c, t, n)
                             \/ \E t \in DOMAIN transfer : BeginReject(c, t)
                             \/ \E s \in SaleIds, items \in Orders : BeginSale(c, s, items)
  BY <1>1, BeginStepKeeps
<1>2. CASE \/ \E c \in Clerks : \/ CreateWarehouse(c) \/ DeleteWarehouse(c) \/ CreateTransferRequest(c)
                                \/ FulfillTransferRequest(c) \/ RejectTransferRequest(c) \/ CreateSale(c)
           \/ \E w \in Warehouses : DeactivateWarehouse(w) \/ ActivateWarehouse(w) \/ UpdateWarehouse(w)
           \/ \E x \in Items, price \in Prices, n \in Deliveries : CreateInventory(x, price, n)
           \/ \E i \in DOMAIN inventory, price \in Prices, n \in Deliveries : CreateInventoryBatch(i, price, n)
           \/ \E i \in DOMAIN inventory : ToggleHideInventory(i)
           \/ \E s \in SaleIds : UndoSaleCreation(s)
  BY <1>2, OtherStepKeeps, EndsKeeps
<1> QED
  BY <1>1, <1>2 DEF StockNext

LEMMA StutterStockRows ==
  ASSUME StockRows, StockDesks, OverlapsOnly, UNCHANGED stockVars
  PROVE  StockRows' /\ StockDesks' /\ OverlapsOnly'
BY DEF StockRows, StockDesks, OverlapsOnly, Fits, stockVars

LEMMA StockRowsHold == StockSpec => [](StockRows /\ StockDesks /\ OverlapsOnly)
<1>1. StockInit => StockRows /\ StockDesks /\ OverlapsOnly
  BY InitStockRows
<1>2. (StockRows /\ StockDesks /\ OverlapsOnly) /\ [StockNext]_stockVars => (StockRows /\ StockDesks /\ OverlapsOnly)'
  BY StepStockRows, StutterStockRows
<1> QED
  BY <1>1, <1>2, PTL DEF StockSpec

\* The rows have their types, whatever requests overlap.
THEOREM StockTypeCorrect == StockSpec => []StockTypeOK
<1>1. StockRows /\ StockDesks => StockTypeOK
  BY DEF StockRows, StockDesks, StockTypeOK, InventoryRow, TransferRow, BatchRows, BatchRow
<1> QED
  BY <1>1, StockRowsHold, PTL

-----------------------------------------------------------------------------
(* Warehouses and their transfers *)

\* Creations are served one after the other, and a deletion apart from requests.
WarehousesApart == Overlap \cap {{"create"}, {"delete", "request"}} = {}

\* What a request about a warehouse read is still so when it writes.
WarehouseWork(u) ==
  /\ u.op = "create" => (u.main => NoMain)
  /\ u.op = "delete" => \A t \in DOMAIN transfer : transfer[t].status = "PENDING" => transfer[t].to # u.w
  /\ u.op = "request" => Live(u.w)

WarehouseDesks == \A c \in Clerks : WarehouseWork(desk[c])

LEMMA DeskAfter ==
  ASSUME StockDesks
  PROVE  /\ \A c \in Clerks : Ends(c) => \A d \in Clerks : desk'[d] = IF d = c THEN Idle ELSE desk[d]
         /\ \A c \in Clerks : \A work : Begins(c, work) => \A d \in Clerks : desk'[d] = IF d = c THEN work ELSE desk[d]
BY DEF StockDesks, Ends, Begins

LEMMA NoWork ==
  /\ Idle.op = "none"
  /\ WarehouseWork(Idle)
BY DEF Idle, WarehouseWork

\* Two requests that must not overlap are not both served.
LEMMA NotTogether ==
  ASSUME StockDesks, OverlapsOnly, NEW c \in Clerks, NEW d \in Clerks, c # d
  PROVE  /\ WarehousesApart => /\ ~(desk[c].op = "create" /\ desk[d].op = "create")
                               /\ ~(desk[c].op = "delete" /\ desk[d].op = "request")
         /\ desk[c].op # "none" /\ desk[d].op # "none" => {desk[c].op, desk[d].op} \in Overlap
<1>1. desk[c].op # "none" /\ desk[d].op # "none" => {desk[c].op, desk[d].op} \in Overlap
  BY DEF OverlapsOnly, Idle
<1> QED
  BY <1>1 DEF WarehousesApart

\* A step that writes neither a warehouse nor a transfer.
LEMMA WarehousesKept ==
  ASSUME StockDesks, WarehousesInOrder, WarehouseDesks, UNCHANGED <<warehouse, transfer>>,
         \A d \in Clerks : desk'[d] = desk[d] \/ WarehouseWork(desk'[d])
  PROVE  WarehousesInOrder' /\ WarehouseDesks'
<1>1. WarehousesInOrder'
  BY DEF WarehousesInOrder, Live
<1>2. \A u : WarehouseWork(u)' <=> WarehouseWork(u)
  BY DEF WarehouseWork, NoMain, Live
<1>3. ASSUME NEW d \in Clerks
      PROVE  WarehouseWork(desk[d])'
  <2>1. CASE desk'[d] = desk[d]
    BY <2>1 DEF WarehouseDesks, WarehouseWork, NoMain, Live
  <2>2. CASE WarehouseWork(desk'[d])
    BY <2>2 DEF WarehouseWork, NoMain, Live
  <2> QED
    BY <2>1, <2>2
<1> QED
  BY <1>1, <1>3 DEF WarehouseDesks

LEMMA CreateWarehouseInOrder ==
  ASSUME WarehousesApart, StockRows, StockDesks, OverlapsOnly, WarehousesInOrder, WarehouseDesks,
         NEW c \in Clerks, CreateWarehouse(c)
  PROVE  WarehousesInOrder' /\ WarehouseDesks'
<1> DEFINE w == desk[c].w
<1>1. w \in Warehouses /\ desk[c].op = "create" /\ desk[c].main \in BOOLEAN
  BY WorkIs DEF StockDesks, CreateWarehouse
<1>2. /\ warehouse'[w] = [state |-> "live", main |-> desk[c].main, active |-> TRUE]
      /\ \A v \in Warehouses \ {w} : warehouse'[v] = warehouse[v]
      /\ transfer' = transfer
  BY <1>1 DEF CreateWarehouse, StockRows
<1>3. \A v \in Warehouses : Live(v) => Live(v)'
  BY <1>2 DEF Live
<1>4. WarehousesInOrder'
  <2>1. desk[c].main => NoMain
    BY <1>1 DEF WarehouseDesks, WarehouseWork
  <2>2. \A v, u \in Warehouses : Live(v)' /\ Live(u)' /\ warehouse'[v].main /\ warehouse'[u].main => v = u
    <3> SUFFICES ASSUME NEW v \in Warehouses, NEW u \in Warehouses,
                        Live(v)', Live(u)', warehouse'[v].main, warehouse'[u].main
                 PROVE  v = u
      OBVIOUS
    <3>1. CASE v = w \/ u = w
      BY <1>2, <2>1, <3>1 DEF NoMain, Live
    <3>2. CASE v # w /\ u # w
      BY <1>2, <3>2 DEF WarehousesInOrder, Live
    <3> QED
      BY <3>1, <3>2
  <2>3. \A t \in DOMAIN transfer' : transfer'[t].status = "PENDING" => warehouse'[transfer'[t].to].state = "live"
    <3>1. \A t \in DOMAIN transfer : transfer[t].to \in Warehouses
      BY StockLengths
    <3> QED
      BY <1>2, <1>3, <3>1 DEF WarehousesInOrder, Live
  <2> QED
    BY <2>2, <2>3 DEF WarehousesInOrder, Live
<1>5. ASSUME NEW d \in Clerks
      PROVE  WarehouseWork(desk[d])'
  <2>1. CASE d = c
    <3>1. desk'[d] = Idle
      BY <2>1, DeskAfter DEF CreateWarehouse
    <3> QED
      BY <3>1, NoWork DEF WarehouseWork
  <2>2. CASE d # c
    <3>1. desk'[d] = desk[d] /\ desk[d].op # "create" /\ desk[d] \in Busy \cup {Idle}
      BY <1>1, <2>2, DeskAfter, NotTogether DEF CreateWarehouse, StockDesks
    <3>2. desk[d].op = "delete" => \A t \in DOMAIN transfer' : transfer'[t].status = "PENDING" => transfer'[t].to # desk[d].w
      BY <1>2 DEF WarehouseDesks, WarehouseWork
    <3>3. desk[d].op = "request" => Live(desk[d].w)'
      <4> SUFFICES ASSUME desk[d].op = "request"
                   PROVE  Live(desk[d].w)'
        OBVIOUS
      <4>1. desk[d].w \in Warehouses /\ Live(desk[d].w)
        BY <3>1, WorkIs DEF WarehouseDesks, WarehouseWork
      <4> QED
        BY <1>2, <3>1, <4>1 DEF Live
    <3> QED
      BY <3>1, <3>2, <3>3 DEF WarehouseWork, Live
  <2> QED
    BY <2>1, <2>2
<1> QED
  BY <1>4, <1>5 DEF WarehouseDesks

LEMMA DeleteWarehouseInOrder ==
  ASSUME WarehousesApart, StockRows, StockDesks, OverlapsOnly, WarehousesInOrder, WarehouseDesks,
         NEW c \in Clerks, DeleteWarehouse(c)
  PROVE  WarehousesInOrder' /\ WarehouseDesks'
<1> DEFINE w == desk[c].w
<1>1. w \in Warehouses /\ desk[c].op = "delete"
  BY WorkIs DEF StockDesks, DeleteWarehouse
<1>2. /\ warehouse'[w].state = "deleted"
      /\ \A v \in Warehouses : v # w => warehouse'[v] = warehouse[v]
      /\ transfer' = transfer
  BY <1>1 DEF DeleteWarehouse, StockRows
<1>3. \A v \in Warehouses : Live(v)' => Live(v) /\ v # w /\ warehouse'[v] = warehouse[v]
  BY <1>2 DEF Live
<1>4. \A t \in DOMAIN transfer : transfer[t].status = "PENDING" => transfer[t].to # w
  BY <1>1 DEF WarehouseDesks, WarehouseWork
<1>5. WarehousesInOrder'
  <2>1. \A v, u \in Warehouses : Live(v)' /\ Live(u)' /\ warehouse'[v].main /\ warehouse'[u].main => v = u
    BY <1>3 DEF WarehousesInOrder
  <2>2. \A t \in DOMAIN transfer' : transfer'[t].status = "PENDING" => warehouse'[transfer'[t].to].state = "live"
    <3>1. \A t \in DOMAIN transfer : transfer[t].to \in Warehouses
      BY StockLengths
    <3> QED
      BY <1>2, <1>4, <3>1 DEF WarehousesInOrder, Live
  <2> QED
    BY <2>1, <2>2 DEF WarehousesInOrder, Live
<1>6. ASSUME NEW d \in Clerks
      PROVE  WarehouseWork(desk[d])'
  <2>1. CASE d = c
    <3>1. desk'[d] = Idle
      BY <2>1, DeskAfter DEF DeleteWarehouse
    <3> QED
      BY <3>1, NoWork DEF WarehouseWork
  <2>2. CASE d # c
    <3>1. desk'[d] = desk[d] /\ desk[d].op # "request"
      BY <1>1, <2>2, DeskAfter, NotTogether DEF DeleteWarehouse
    <3>2. desk[d].op = "delete" => \A t \in DOMAIN transfer' : transfer'[t].status = "PENDING" => transfer'[t].to # desk[d].w
      BY <1>2 DEF WarehouseDesks, WarehouseWork
    <3>3. desk[d].op = "create" => (desk[d].main => NoMain')
      BY <1>3 DEF WarehouseDesks, WarehouseWork, NoMain
    <3> QED
      BY <3>1, <3>2, <3>3 DEF WarehouseWork, NoMain, Live
  <2> QED
    BY <2>1, <2>2
<1> QED
  BY <1>5, <1>6 DEF WarehouseDesks

LEMMA SetActiveInOrder ==
  ASSUME StockRows, StockDesks, WarehousesInOrder, WarehouseDesks,
         NEW w \in Warehouses, NEW active \in BOOLEAN, SetActive(w, active)
  PROVE  WarehousesInOrder' /\ WarehouseDesks'
<1>1. \A v \in Warehouses : warehouse'[v].state = warehouse[v].state /\ warehouse'[v].main = warehouse[v].main
  BY DEF SetActive, StockRows
<1>2. \A t \in DOMAIN transfer : transfer[t].to \in Warehouses
  BY StockLengths
<1>3. UNCHANGED <<transfer, desk>>
  BY DEF SetActive
<1>4. WarehousesInOrder'
  BY <1>1, <1>2, <1>3 DEF WarehousesInOrder, Live
<1>5. ASSUME NEW d \in Clerks
      PROVE  WarehouseWork(desk[d])'
  <2>1. WarehouseWork(desk[d]) /\ (desk[d].op = "request" => desk[d].w \in Warehouses)
    BY WorkIs DEF WarehouseDesks, StockDesks
  <2> QED
    BY <1>1, <1>3, <2>1 DEF WarehouseWork, NoMain, Live
<1> QED
  BY <1>4, <1>5 DEF WarehouseDesks

LEMMA CreateTransferInOrder ==
  ASSUME WarehousesApart, StockRows, StockDesks, OverlapsOnly, WarehousesInOrder, WarehouseDesks,
         NEW c \in Clerks, CreateTransferRequest(c)
  PROVE  WarehousesInOrder' /\ WarehouseDesks'
<1> DEFINE r == [inventory |-> desk[c].i, to |-> desk[c].w, done |-> 0, status |-> "PENDING"]
<1>1. desk[c].op = "request" /\ desk[c].w \in Warehouses /\ Live(desk[c].w)
  BY WorkIs DEF StockDesks, WarehouseDesks, WarehouseWork, CreateTransferRequest
<1>2. transfer' = Append(transfer, r) /\ warehouse' = warehouse /\ r.to = desk[c].w
  BY DEF CreateTransferRequest
<1> HIDE DEF r
<1>3. \A t \in DOMAIN transfer' : (t \in DOMAIN transfer /\ transfer'[t] = transfer[t]) \/ transfer'[t] = r
  <2>1. transfer \in Seq(TransferRow(Len(inventory)))
    BY DEF StockRows
  <2> QED
    BY <1>2, <2>1
<1>4. WarehousesInOrder'
  BY <1>1, <1>2, <1>3 DEF WarehousesInOrder, Live
<1>5. ASSUME NEW d \in Clerks
      PROVE  WarehouseWork(desk[d])'
  <2>1. CASE d = c
    <3>1. desk'[d] = Idle
      BY <2>1, DeskAfter DEF CreateTransferRequest
    <3> QED
      BY <3>1, NoWork DEF WarehouseWork
  <2>2. CASE d # c
    <3>1. desk'[d] = desk[d] /\ desk[d].op # "delete"
      BY <1>1, <2>2, DeskAfter, NotTogether DEF CreateTransferRequest
    <3> QED
      BY <1>2, <3>1 DEF WarehouseDesks, WarehouseWork, NoMain, Live
  <2> QED
    BY <2>1, <2>2
<1> QED
  BY <1>4, <1>5 DEF WarehouseDesks

\* A transfer that is answered.
LEMMA AnswerInOrder ==
  ASSUME StockRows, StockDesks, WarehousesInOrder, WarehouseDesks,
         NEW c \in Clerks, FulfillTransferRequest(c) \/ RejectTransferRequest(c)
  PROVE  WarehousesInOrder' /\ WarehouseDesks'
<1>1. warehouse' = warehouse /\ Ends(c)
  BY DEF FulfillTransferRequest, RejectTransferRequest
<1>2. /\ DOMAIN transfer' = DOMAIN transfer
      /\ \A t \in DOMAIN transfer : transfer'[t].to = transfer[t].to
                                    /\ (transfer'[t].status = "PENDING" => transfer[t].status = "PENDING")
  <2>1. \A t \in DOMAIN transfer : transfer[t] \in TransferRow(Len(inventory))
    BY SeqAt DEF StockRows
  <2>2. CASE FulfillTransferRequest(c)
    <3>1. transfer' = [transfer EXCEPT ![desk[c].t].status = "FULFILLED", ![desk[c].t].done = desk[c].quantity]
      BY <2>2 DEF FulfillTransferRequest
    <3> QED
      BY <2>1, <3>1 DEF TransferRow
  <2>3. CASE RejectTransferRequest(c)
    <3>1. transfer' = [transfer EXCEPT ![desk[c].t].status = "REJECTED"]
      BY <2>3 DEF RejectTransferRequest
    <3> QED
      BY <2>1, <3>1 DEF TransferRow
  <2> QED
    BY <2>2, <2>3
<1>3. WarehousesInOrder'
  BY <1>1, <1>2 DEF WarehousesInOrder, Live
<1>4. ASSUME NEW d \in Clerks
      PROVE  WarehouseWork(desk[d])'
  <2>1. desk'[d] = Idle \/ desk'[d] = desk[d]
    BY <1>1, DeskAfter
  <2>2. CASE desk'[d] = Idle
    BY <2>2, NoWork DEF WarehouseWork
  <2>3. CASE desk'[d] = desk[d]
    BY <1>1, <1>2, <2>3 DEF WarehouseDesks, WarehouseWork, NoMain, Live
  <2> QED
    BY <2>1, <2>2, <2>3
<1> QED
  BY <1>3, <1>4 DEF WarehouseDesks

\* A request about a warehouse, as its reading found it.
LEMMA BeginsInOrder ==
  ASSUME StockRows, StockDesks, WarehousesInOrder, WarehouseDesks, NEW c \in Clerks,
         \/ \E w \in Warehouses, main \in BOOLEAN : BeginCreate(c, w, main)
         \/ \E w \in Warehouses : BeginDelete(c, w)
         \/ \E i \in DOMAIN inventory, w \in Warehouses, n \in Quantities : BeginRequest(c, i, w, n)
         \/ \E t \in DOMAIN transfer, n \in Quantities : BeginFulfil(c, t, n)
         \/ \E t \in DOMAIN transfer : BeginReject(c, t)
         \/ \E s \in SaleIds, items \in Orders : BeginSale(c, s, items)
  PROVE  WarehousesInOrder' /\ WarehouseDesks'
<1>1. \E work : Begins(c, work) /\ WarehouseWork(work)
  <2>1. ASSUME NEW w \in Warehouses, NEW main \in BOOLEAN, BeginCreate(c, w, main)
        PROVE  \E work : Begins(c, work) /\ WarehouseWork(work)
    BY <2>1 DEF BeginCreate, WarehouseWork
  <2>2. ASSUME NEW w \in Warehouses, BeginDelete(c, w)
        PROVE  \E work : Begins(c, work) /\ WarehouseWork(work)
    BY <2>2 DEF BeginDelete, Deletable, Pending, WarehouseWork
  <2>3. ASSUME NEW i \in DOMAIN inventory, NEW w \in Warehouses, NEW n \in Quantities, BeginRequest(c, i, w, n)
        PROVE  \E work : Begins(c, work) /\ WarehouseWork(work)
    BY <2>3 DEF BeginRequest, WarehouseWork
  <2>4. ASSUME NEW t \in DOMAIN transfer, NEW n \in Quantities, BeginFulfil(c, t, n)
        PROVE  \E work : Begins(c, work) /\ WarehouseWork(work)
    BY <2>4 DEF BeginFulfil, WarehouseWork
  <2>5. ASSUME NEW t \in DOMAIN transfer, BeginReject(c, t)
        PROVE  \E work : Begins(c, work) /\ WarehouseWork(work)
    BY <2>5 DEF BeginReject, WarehouseWork
  <2>6. ASSUME NEW s \in SaleIds, NEW items \in Orders, BeginSale(c, s, items)
        PROVE  \E work : Begins(c, work) /\ WarehouseWork(work)
    BY <2>6 DEF BeginSale, WarehouseWork
  <2> QED
    BY <2>1, <2>2, <2>3, <2>4, <2>5, <2>6
<1>2. PICK work : Begins(c, work) /\ WarehouseWork(work)
  BY <1>1
<1>3. UNCHANGED <<warehouse, transfer>> /\ \A d \in Clerks : desk'[d] = desk[d] \/ WarehouseWork(desk'[d])
  BY <1>2, DeskAfter DEF Begins
<1> QED
  BY <1>3, WarehousesKept

LEMMA StepInOrder ==
  ASSUME WarehousesApart, StockRows, StockDesks, OverlapsOnly, WarehousesInOrder, WarehouseDesks, StockNext
  PROVE  WarehousesInOrder' /\ WarehouseDesks'
<1>1. CASE \E c \in Clerks : \/ \E w \in Warehouses, main \in BOOLEAN : BeginCreate(c, w, main)
                             \/ \E w \in Warehouses : BeginDelete(c, w)
                             \/ \E i \in DOMAIN inventory, w \in Warehouses, n \in Quantities : BeginRequest(c, i, w, n)
                             \/ \E t \in DOMAIN transfer, n \in Quantities : BeginFulfil(c, t, n)
                             \/ \E t \in DOMAIN transfer : BeginReject(c, t)
                             \/ \E s \in SaleIds, items \in Orders : BeginSale(c, s, items)
  BY <1>1, BeginsInOrder
<1>2. CASE \E c \in Clerks : CreateWarehouse(c)
  BY <1>2, CreateWarehouseInOrder
<1>3. CASE \E c \in Clerks : DeleteWarehouse(c)
  BY <1>3, DeleteWarehouseInOrder
<1>4. CASE \E c \in Clerks : CreateTransferRequest(c)
  BY <1>4, CreateTransferInOrder
<1>5. CASE \E c \in Clerks : FulfillTransferRequest(c) \/ RejectTransferRequest(c)
  BY <1>5, AnswerInOrder
<1>6. CASE \E w \in Warehouses : DeactivateWarehouse(w) \/ ActivateWarehouse(w) \/ UpdateWarehouse(w)
  <2>1. \E w \in Warehouses, active \in BOOLEAN : SetActive(w, active)
    BY <1>6 DEF DeactivateWarehouse, ActivateWarehouse, UpdateWarehouse
  <2> QED
    BY <2>1, SetActiveInOrder
<1>7. CASE \E c \in Clerks : CreateSale(c)
  <2>1. PICK c \in Clerks : CreateSale(c)
    BY <1>7
  <2>2. UNCHANGED <<warehouse, transfer>> /\ Ends(c)
    BY <2>1 DEF CreateSale
  <2>3. \A d \in Clerks : desk'[d] = desk[d] \/ WarehouseWork(desk'[d])
    BY <2>2, DeskAfter, NoWork
  <2> QED
    BY <2>2, <2>3, WarehousesKept
<1>8. CASE \/ \E x \in Items, price \in Prices, n \in Deliveries : CreateInventory(x, price, n)
           \/ \E i \in DOMAIN inventory, price \in Prices, n \in Deliveries : CreateInventoryBatch(i, price, n)
           \/ \E i \in DOMAIN inventory : ToggleHideInventory(i)
           \/ \E s \in SaleIds : UndoSaleCreation(s)
  <2>1. UNCHANGED <<warehouse, transfer, desk>>
    BY <1>8 DEF CreateInventory, CreateInventoryBatch, ToggleHideInventory, UndoSaleCreation
  <2> QED
    BY <2>1, WarehousesKept
<1> QED
  BY <1>1, <1>2, <1>3, <1>4, <1>5, <1>6, <1>7, <1>8 DEF StockNext

\* One main warehouse at most, and no transfer that waits for a deleted one,
\* if no two warehouses are created at once, nor is one deleted while a
\* transfer is requested.
THEOREM WarehousesStayInOrder ==
  ASSUME WarehousesApart
  PROVE  StockSpec => []WarehousesInOrder
<1>1. StockInit => WarehousesInOrder /\ WarehouseDesks
  BY NoWork DEF StockInit, WarehousesInOrder, WarehouseDesks, Live, Unknown
<1>2. /\ StockRows /\ StockDesks /\ OverlapsOnly /\ WarehousesInOrder /\ WarehouseDesks
      /\ [StockNext]_stockVars
      => (WarehousesInOrder /\ WarehouseDesks)'
  <2>1. ASSUME StockDesks, WarehousesInOrder, WarehouseDesks, UNCHANGED stockVars
        PROVE  WarehousesInOrder' /\ WarehouseDesks'
    BY <2>1, WarehousesKept DEF stockVars
  <2> QED
    BY <2>1, StepInOrder
<1> QED
  BY <1>1, <1>2, StockRowsHold, PTL DEF StockSpec

-----------------------------------------------------------------------------
(* Transfers that move once *)

\* A transfer is fulfilled by one request at a time, and not while it is rejected.
TransfersApart == Overlap \cap {{"fulfil"}, {"fulfil", "reject"}} = {}

\* What a request about a transfer read is still so when it writes.
TransferWork(u) == u.op \in {"fulfil", "reject"} => transfer[u.t].status # "FULFILLED"

TransferDesks == \A c \in Clerks : TransferWork(desk[c])

LEMMA TransferStatus ==
  ASSUME StockRows, NEW t \in DOMAIN transfer
  PROVE  transfer[t] \in TransferRow(Len(inventory))
BY SeqAt DEF StockRows

\* A step that writes no transfer.
LEMMA TransfersKept ==
  ASSUME TransferMovesOnce, TransferDesks, UNCHANGED <<transfer, moved>>,
         \A d \in Clerks : desk'[d] = desk[d] \/ TransferWork(desk'[d])
  PROVE  TransferMovesOnce' /\ TransferDesks'
BY DEF TransferMovesOnce, TransferDesks, TransferWork

LEMMA CreateTransferMovesOnce ==
  ASSUME StockRows, StockDesks, TransferMovesOnce, TransferDesks, NEW c \in Clerks, CreateTransferRequest(c)
  PROVE  TransferMovesOnce' /\ TransferDesks'
<1> DEFINE r == [inventory |-> desk[c].i, to |-> desk[c].w, done |-> 0, status |-> "PENDING"]
           last == Len(transfer) + 1
<1>1. transfer' = Append(transfer, r) /\ moved' = Append(moved, 0) /\ r.status = "PENDING" /\ Ends(c)
  BY DEF CreateTransferRequest
<1> HIDE DEF r
<1>2. /\ DOMAIN transfer' = DOMAIN transfer \cup {last} /\ transfer'[last] = r /\ moved'[last] = 0
      /\ \A t \in DOMAIN transfer : transfer'[t] = transfer[t] /\ moved'[t] = moved[t]
  <2>1. transfer \in Seq(TransferRow(Len(inventory))) /\ moved \in Seq(Nat) /\ Len(moved) = Len(transfer)
    BY DEF StockRows
  <2> QED
    BY <1>1, <2>1
<1> HIDE DEF last
<1>3. TransferMovesOnce'
  BY <1>1, <1>2 DEF TransferMovesOnce
<1>4. ASSUME NEW d \in Clerks
      PROVE  TransferWork(desk[d])'
  <2>1. desk'[d] = Idle \/ desk'[d] = desk[d]
    BY <1>1, DeskAfter
  <2>2. CASE desk'[d] = Idle
    BY <2>2 DEF TransferWork, Idle
  <2>3. CASE desk'[d] = desk[d]
    <3>1. desk[d].op \in {"fulfil", "reject"} => desk[d].t \in DOMAIN transfer
      BY DEF StockDesks, Fits
    <3> QED
      BY <1>2, <2>3, <3>1 DEF TransferDesks, TransferWork
  <2> QED
    BY <2>1, <2>2, <2>3
<1> QED
  BY <1>3, <1>4 DEF TransferDesks

LEMMA RejectMovesOnce ==
  ASSUME StockRows, StockDesks, TransferMovesOnce, TransferDesks, NEW c \in Clerks, RejectTransferRequest(c)
  PROVE  TransferMovesOnce' /\ TransferDesks'
<1> DEFINE t == desk[c].t
<1>1. t \in DOMAIN transfer /\ transfer[t].status # "FULFILLED" /\ Ends(c) /\ moved' = moved
  BY DEF StockDesks, Fits, TransferDesks, TransferWork, RejectTransferRequest
<1>2. /\ DOMAIN transfer' = DOMAIN transfer
      /\ \A u \in DOMAIN transfer : u # t => transfer'[u] = transfer[u]
      /\ transfer'[t].status = "REJECTED"
  <2>1. transfer' = [transfer EXCEPT ![t].status = "REJECTED"]
    BY DEF RejectTransferRequest
  <2>2. transfer[t] \in TransferRow(Len(inventory))
    BY <1>1, TransferStatus
  <2> QED
    BY <1>1, <2>1, <2>2 DEF TransferRow
<1> HIDE DEF t
<1>3. TransferMovesOnce'
  BY <1>1, <1>2 DEF TransferMovesOnce
<1>4. ASSUME NEW d \in Clerks
      PROVE  TransferWork(desk[d])'
  <2>1. desk'[d] = Idle \/ desk'[d] = desk[d]
    BY <1>1, DeskAfter
  <2>2. CASE desk'[d] = Idle
    BY <2>2 DEF TransferWork, Idle
  <2>3. CASE desk'[d] = desk[d]
    <3>1. desk[d].op \in {"fulfil", "reject"} => desk[d].t \in DOMAIN transfer
      BY DEF StockDesks, Fits
    <3> QED
      BY <1>2, <2>3, <3>1 DEF TransferDesks, TransferWork
  <2> QED
    BY <2>1, <2>2, <2>3
<1> QED
  BY <1>3, <1>4 DEF TransferDesks

LEMMA FulfilMovesOnce ==
  ASSUME TransfersApart, StockRows, StockDesks, OverlapsOnly, TransferMovesOnce, TransferDesks,
         NEW c \in Clerks, FulfillTransferRequest(c)
  PROVE  TransferMovesOnce' /\ TransferDesks'
<1> DEFINE t == desk[c].t
           n == desk[c].quantity
<1>1. /\ t \in DOMAIN transfer /\ transfer[t].status # "FULFILLED" /\ Ends(c) /\ desk[c].op = "fulfil"
      /\ SumFunction(desk[c].take) = n /\ n \in Nat
  BY FulfilIs DEF StockDesks, TransferDesks, TransferWork, FulfillTransferRequest
<1>2. moved[t] = 0
  BY <1>1 DEF TransferMovesOnce
<1>3. /\ DOMAIN transfer' = DOMAIN transfer
      /\ \A u \in DOMAIN transfer : u # t => transfer'[u] = transfer[u]
      /\ transfer'[t].status = "FULFILLED" /\ transfer'[t].done = n
  <2>1. transfer' = [transfer EXCEPT ![t].status = "FULFILLED", ![t].done = n]
    BY DEF FulfillTransferRequest
  <2>2. transfer[t] \in TransferRow(Len(inventory))
    BY <1>1, TransferStatus
  <2> QED
    BY <1>1, <2>1, <2>2 DEF TransferRow
<1>4. moved'[t] = n /\ \A u \in DOMAIN transfer : u # t => moved'[u] = moved[u]
  <2>1. moved' = [moved EXCEPT ![t] = @ + n]
    BY <1>1 DEF FulfillTransferRequest
  <2>2. DOMAIN moved = DOMAIN transfer
    BY StockLengths
  <2> QED
    BY <1>1, <1>2, <2>1, <2>2
<1> HIDE DEF t, n
<1>5. TransferMovesOnce'
  BY <1>3, <1>4 DEF TransferMovesOnce
<1>6. ASSUME NEW d \in Clerks
      PROVE  TransferWork(desk[d])'
  <2>1. CASE d = c
    <3>1. desk'[d] = Idle
      BY <1>1, <2>1, DeskAfter
    <3> QED
      BY <3>1 DEF TransferWork, Idle
  <2>2. CASE d # c
    <3>1. desk'[d] = desk[d]
      BY <1>1, <2>2, DeskAfter
    <3>2. desk[d].op # "fulfil" /\ desk[d].op # "reject"
      <4>1. {"fulfil"} \notin Overlap /\ {"fulfil", "reject"} \notin Overlap
        BY DEF TransfersApart
      <4>2. desk[d].op # "none" => {desk[c].op, desk[d].op} \in Overlap
        BY <1>1, <2>2, NotTogether
      <4>3. {"fulfil", "fulfil"} = {"fulfil"}
        OBVIOUS
      <4> QED
        BY <1>1, <4>1, <4>2, <4>3
    <3> QED
      BY <3>1, <3>2 DEF TransferWork
  <2> QED
    BY <2>1, <2>2
<1> QED
  BY <1>5, <1>6 DEF TransferDesks

LEMMA StepMovesOnce ==
  ASSUME TransfersApart, StockRows, StockDesks, OverlapsOnly, TransferMovesOnce, TransferDesks, StockNext
  PROVE  TransferMovesOnce' /\ TransferDesks'
<1>1. ASSUME NEW c \in Clerks, NEW work, Begins(c, work), TransferWork(work)
      PROVE  TransferMovesOnce' /\ TransferDesks'
  <2>1. UNCHANGED <<transfer, moved>>
    BY <1>1 DEF Begins
  <2>2. \A d \in Clerks : desk'[d] = desk[d] \/ desk'[d] = work
    BY <1>1, DeskAfter
  <2>3. TransferMovesOnce'
    BY <2>1 DEF TransferMovesOnce
  <2>4. TransferDesks'
    BY <1>1, <2>1, <2>2 DEF TransferDesks, TransferWork
  <2> QED
    BY <2>3, <2>4
<1>2. ASSUME NEW c \in Clerks,
             \/ \E w \in Warehouses, main \in BOOLEAN : BeginCreate(c, w, main)
             \/ \E w \in Warehouses : BeginDelete(c, w)
             \/ \E i \in DOMAIN inventory, w \in Warehouses, n \in Quantities : BeginRequest(c, i, w, n)
             \/ \E s \in SaleIds, items \in Orders : BeginSale(c, s, items)
      PROVE  TransferMovesOnce' /\ TransferDesks'
  <2>1. \E work : Begins(c, work) /\ work.op \notin {"fulfil", "reject"}
    <3>1. ASSUME NEW w \in Warehouses, NEW main \in BOOLEAN, BeginCreate(c, w, main)
          PROVE  \E work : Begins(c, work) /\ work.op \notin {"fulfil", "reject"}
      BY <3>1 DEF BeginCreate
    <3>2. ASSUME NEW w \in Warehouses, BeginDelete(c, w)
          PROVE  \E work : Begins(c, work) /\ work.op \notin {"fulfil", "reject"}
      BY <3>2 DEF BeginDelete
    <3>3. ASSUME NEW i \in DOMAIN inventory, NEW w \in Warehouses, NEW n \in Quantities, BeginRequest(c, i, w, n)
          PROVE  \E work : Begins(c, work) /\ work.op \notin {"fulfil", "reject"}
      BY <3>3 DEF BeginRequest
    <3>4. ASSUME NEW s \in SaleIds, NEW items \in Orders, BeginSale(c, s, items)
          PROVE  \E work : Begins(c, work) /\ work.op \notin {"fulfil", "reject"}
      BY <3>4 DEF BeginSale
    <3> QED
      BY <1>2, <3>1, <3>2, <3>3, <3>4
  <2> QED
    BY <1>1, <2>1 DEF TransferWork
<1>3. ASSUME NEW c \in Clerks, NEW t \in DOMAIN transfer, NEW n \in Quantities, BeginFulfil(c, t, n)
      PROVE  TransferMovesOnce' /\ TransferDesks'
  <2> DEFINE work == [op |-> "fulfil", t |-> t, quantity |-> n, take |-> Take(batch, transfer[t].inventory, n)]
  <2>1. Begins(c, work) /\ TransferWork(work)
    BY <1>3 DEF BeginFulfil, Fulfillable, TransferWork
  <2> QED
    BY <1>1, <2>1
<1>4. ASSUME NEW c \in Clerks, NEW t \in DOMAIN transfer, BeginReject(c, t)
      PROVE  TransferMovesOnce' /\ TransferDesks'
  <2>1. Begins(c, [op |-> "reject", t |-> t]) /\ TransferWork([op |-> "reject", t |-> t])
    BY <1>4 DEF BeginReject, TransferWork
  <2> QED
    BY <1>1, <2>1
<1>5. CASE \E c \in Clerks : CreateWarehouse(c) \/ DeleteWarehouse(c) \/ CreateSale(c)
  <2>1. PICK c \in Clerks : CreateWarehouse(c) \/ DeleteWarehouse(c) \/ CreateSale(c)
    BY <1>5
  <2>2. UNCHANGED <<transfer, moved>> /\ Ends(c)
    BY <2>1 DEF CreateWarehouse, DeleteWarehouse, CreateSale
  <2>3. \A d \in Clerks : desk'[d] = desk[d] \/ TransferWork(desk'[d])
    BY <2>2, DeskAfter DEF TransferWork, Idle
  <2> QED
    BY <2>2, <2>3, TransfersKept
<1>6. CASE \/ \E w \in Warehouses : DeactivateWarehouse(w) \/ ActivateWarehouse(w) \/ UpdateWarehouse(w)
           \/ \E x \in Items, price \in Prices, n \in Deliveries : CreateInventory(x, price, n)
           \/ \E i \in DOMAIN inventory, price \in Prices, n \in Deliveries : CreateInventoryBatch(i, price, n)
           \/ \E i \in DOMAIN inventory : ToggleHideInventory(i)
           \/ \E s \in SaleIds : UndoSaleCreation(s)
  <2>1. UNCHANGED <<transfer, moved, desk>>
    BY <1>6 DEF DeactivateWarehouse, ActivateWarehouse, UpdateWarehouse, SetActive, CreateInventory,
                CreateInventoryBatch, ToggleHideInventory, UndoSaleCreation
  <2> QED
    BY <2>1, TransfersKept
<1> QED
  BY <1>2, <1>3, <1>4, <1>5, <1>6, CreateTransferMovesOnce, RejectMovesOnce, FulfilMovesOnce DEF StockNext

\* A transfer moves what its row says, once, if no two requests fulfil one at
\* the same time, nor is one rejected meanwhile.
THEOREM TransfersMoveOnce ==
  ASSUME TransfersApart
  PROVE  StockSpec => []TransferMovesOnce
<1>1. StockInit => TransferMovesOnce /\ TransferDesks
  BY DEF StockInit, TransferMovesOnce, TransferDesks, TransferWork, Idle
<1>2. /\ StockRows /\ StockDesks /\ OverlapsOnly /\ TransferMovesOnce /\ TransferDesks
      /\ [StockNext]_stockVars
      => (TransferMovesOnce /\ TransferDesks)'
  <2>1. ASSUME TransferMovesOnce, TransferDesks, UNCHANGED stockVars
        PROVE  TransferMovesOnce' /\ TransferDesks'
    BY <2>1, TransfersKept DEF stockVars
  <2> QED
    BY <2>1, StepMovesOnce
<1> QED
  BY <1>1, <1>2, StockRowsHold, PTL DEF StockSpec

-----------------------------------------------------------------------------
(* The units of an item *)

ItemsOf(rooms, x) == {i \in DOMAIN rooms : rooms[i].item = x}

\* The units of the inventories of K a sale was given.
GivenFrom(lots, K, take) == HeldOf(lots, K) \cap DOMAIN take
Given(lots, K, take) == SumFunctionOnSet(take, GivenFrom(lots, K, take))
GivenTo(lots, K, sales) == [s \in SaleIds |-> Given(lots, K, sales[s])]
AllGiven(lots, K, sales) == SumFunctionOnSet(GivenTo(lots, K, sales), SaleIds)

LEMMA GivenIs ==
  ASSUME NEW m \in Nat, NEW lots \in BatchRows(m), NEW K, NEW take \in Seq(Nat)
  PROVE  /\ IsFiniteSet(GivenFrom(lots, K, take)) /\ \A b \in GivenFrom(lots, K, take) : take[b] \in Nat
         /\ Given(lots, K, take) \in Int
         /\ Given(lots, K, Nothing) = 0
<1>1. IsFiniteSet(GivenFrom(lots, K, take)) /\ \A b \in GivenFrom(lots, K, take) : take[b] \in Nat
  <2>1. GivenFrom(lots, K, take) \subseteq HeldOf(lots, K) /\ GivenFrom(lots, K, take) \subseteq DOMAIN take
    BY DEF GivenFrom
  <2> QED
    BY <2>1, HeldFacts, FS_Subset, SeqAt
<1>2. Given(lots, K, take) \in Int
  BY <1>1, SumType DEF Given
<1>3. GivenFrom(lots, K, Nothing) = {}
  BY DEF GivenFrom, Nothing
<1> QED
  BY <1>1, <1>2, <1>3, SumEmpty DEF Given

\* Rows that grow: what is held and what was given stays.
LEMMA GivenStays ==
  ASSUME NEW lots, NEW next, NEW K, NEW L, NEW take,
         DOMAIN take \subseteq DOMAIN lots, DOMAIN lots \subseteq DOMAIN next,
         \A b \in DOMAIN lots : next[b].inventory = lots[b].inventory /\ (lots[b].inventory \in K <=> lots[b].inventory \in L)
  PROVE  Given(next, L, take) = Given(lots, K, take)
<1>1. GivenFrom(next, L, take) = GivenFrom(lots, K, take)
  BY DEF GivenFrom, HeldOf
<1> QED
  BY <1>1 DEF Given

LEMMA HeldStays ==
  ASSUME NEW lots, NEW K, NEW L, \A b \in DOMAIN lots : lots[b].inventory \in K <=> lots[b].inventory \in L
  PROVE  Held(lots, L) = Held(lots, K)
<1>1. HeldOf(lots, L) = HeldOf(lots, K)
  BY DEF HeldOf
<1> QED
  BY <1>1 DEF Held

\* Units that are taken from the batches of a sale: they are given to it.
LEMMA HeldLess ==
  ASSUME NEW m \in Nat, NEW lots \in BatchRows(m), NEW next \in BatchRows(m), NEW K, NEW take \in Seq(Nat),
         DOMAIN next = DOMAIN lots, \A b \in DOMAIN lots : next[b].inventory = lots[b].inventory,
         \A b \in DOMAIN lots : lots[b].left = next[b].left + (IF b \in DOMAIN take THEN take[b] ELSE 0)
  PROVE  Held(lots, K) = Held(next, K) + Given(lots, K, take)
<1> DEFINE held == HeldOf(lots, K)
           from == GivenFrom(lots, K, take)
           rest == held \ from
           all == [b \in held |-> IF b \in DOMAIN take THEN take[b] ELSE 0]
<1>1. HeldOf(next, K) = held
  BY DEF HeldOf
<1>2. /\ IsFiniteSet(held) /\ held \subseteq DOMAIN lots
      /\ \A b \in DOMAIN lots : Lefts(lots)[b] = lots[b].left /\ lots[b].left \in Int
      /\ \A b \in DOMAIN lots : Lefts(next)[b] = next[b].left /\ next[b].left \in Int
  BY HeldFacts
<1>3. /\ from \subseteq held /\ IsFiniteSet(from) /\ IsFiniteSet(rest) /\ from \cap rest = {} /\ from \cup rest = held
      /\ \A b \in from : take[b] \in Nat
  <2>1. from \subseteq held /\ IsFiniteSet(from) /\ \A b \in from : take[b] \in Nat
    BY GivenIs DEF GivenFrom
  <2> HIDE DEF held, from
  <2> QED
    BY <1>2, <2>1, FS_Subset
<1>4. /\ \A b \in from : all[b] = take[b]
      /\ \A b \in rest : all[b] = 0
      /\ \A b \in held : Lefts(lots)[b] = Lefts(next)[b] + all[b]
      /\ \A b \in held : all[b] \in Int
  <2>1. \A b \in held : b \in from <=> b \in DOMAIN take
    BY DEF GivenFrom
  <2>2. \A b \in held : all[b] = IF b \in DOMAIN take THEN take[b] ELSE 0
    OBVIOUS
  <2> HIDE DEF held, from, all
  <2> QED
    BY <1>2, <1>3, <2>1, <2>2
<1> HIDE DEF held, from, rest, all
<1>5. SumFunctionOnSet(Lefts(lots), held) = SumFunctionOnSet(Lefts(next), held) + SumFunctionOnSet(all, held)
  <2>1. \A b \in held : Lefts(next)[b] \in Int /\ all[b] \in Int /\ Lefts(lots)[b] = Lefts(next)[b] + all[b]
    BY <1>2, <1>4
  <2> QED
    BY <1>2, <2>1, SumPlus
<1>6. SumFunctionOnSet(all, held) = SumFunctionOnSet(all, from) + SumFunctionOnSet(all, rest)
  <2>1. \A b \in from \cup rest : all[b] \in Int
    BY <1>3, <1>4
  <2>2. SumFunctionOnSet(all, from \cup rest) = SumFunctionOnSet(all, from) + SumFunctionOnSet(all, rest)
    BY <1>3, <2>1, SumUnion
  <2> QED
    BY <1>3, <2>2
<1>7. SumFunctionOnSet(all, from) = SumFunctionOnSet(take, from) /\ SumFunctionOnSet(all, rest) = 0
  BY <1>3, <1>4, SumSame, SumZero
<1>8. SumFunctionOnSet(take, from) \in Int
  BY <1>3, SumType
<1> QED
  BY <1>1, <1>5, <1>6, <1>7, <1>8 DEF Held, Given, held, from

-----------------------------------------------------------------------------
(* No sale takes more than a batch has *)

\* No inventory is used by two products, nor twice by one.
InventoriesApart ==
  \A p, q \in Products : \A use \in Parts(p), other \in Parts(q) :
    use.inventory = other.inventory => p = q /\ use = other

LEMMA PartTaken ==
  ASSUME NEW R, NEW lots \in Seq(R), Counted(lots), NoneOwed(lots), NEW b \in DOMAIN lots,
         NEW item \in [product : Products, quantity : Nat \ {0}], NEW use \in Parts(item.product)
  PROVE  /\ Take(lots, use.inventory, use.units * item.quantity)[b] \in Nat
         /\ Take(lots, use.inventory, use.units * item.quantity)[b] <= lots[b].left
         /\ lots[b].inventory # use.inventory => Take(lots, use.inventory, use.units * item.quantity)[b] = 0
<1> DEFINE n == use.units * item.quantity
<1>1. item.product \in Products /\ item.quantity \in Nat
  OBVIOUS
<1>2. use.units \in Nat
  BY <1>1, PartsAre
<1>3. n \in Nat
  BY <1>1, <1>2
<1> HIDE DEF n
<1>4. /\ Take(lots, use.inventory, n) \in Seq(Nat) /\ Len(Take(lots, use.inventory, n)) = Len(lots)
      /\ lots[b].inventory # use.inventory => Take(lots, use.inventory, n)[b] = 0
      /\ Take(lots, use.inventory, n)[b] # 0 => Take(lots, use.inventory, n)[b] <= lots[b].left
  BY <1>3, TakeAt
<1>5. b \in DOMAIN Take(lots, use.inventory, n)
  BY <1>4, SeqAt
<1>6. Take(lots, use.inventory, n)[b] \in Nat
  BY <1>4, <1>5, SeqAt
<1>7. lots[b].left \in Int /\ lots[b].left >= 0
  BY DEF Counted, NoneOwed
<1> QED
  BY <1>4, <1>6, <1>7 DEF n

\* An item takes from a batch for one of its parts at most.
LEMMA ItemTaken ==
  ASSUME InventoriesApart, NEW R, NEW lots \in Seq(R), Counted(lots), NoneOwed(lots), NEW b \in DOMAIN lots,
         NEW item \in [product : Products, quantity : Nat \ {0}]
  PROVE  /\ TakenOf(lots, item, b) <= lots[b].left
         /\ (\A use \in Parts(item.product) : use.inventory # lots[b].inventory) => TakenOf(lots, item, b) = 0
<1> DEFINE parts == Parts(item.product)
           f == [use \in parts |-> Take(lots, use.inventory, use.units * item.quantity)[b]]
<1>1. item.product \in Products /\ IsFiniteSet(parts)
  <2>1. item.product \in Products
    OBVIOUS
  <2> QED
    BY <2>1, PartsAre
<1>2. TakenOf(lots, item, b) = SumFunctionOnSet(f, parts)
  BY DEF TakenOf, SumFunction
<1>3. \A use \in parts : f[use] \in Nat /\ f[use] <= lots[b].left /\ (lots[b].inventory # use.inventory => f[use] = 0)
  BY PartTaken
<1>4. lots[b].left \in Int /\ lots[b].left >= 0
  BY DEF Counted, NoneOwed
<1>5. \A use, other \in parts : use.inventory = other.inventory => use = other
  BY <1>1 DEF InventoriesApart
<1> HIDE DEF f, parts
<1>6. CASE \A use \in parts : use.inventory # lots[b].inventory
  <2>1. SumFunctionOnSet(f, parts) = 0
    BY <1>1, <1>3, <1>6, SumZero
  <2> QED
    BY <1>2, <1>4, <2>1
<1>7. CASE \E use \in parts : use.inventory = lots[b].inventory
  <2>1. PICK use \in parts : use.inventory = lots[b].inventory
    BY <1>7
  <2>2. \A other \in parts \ {use} : f[other] = 0
    BY <1>3, <1>5, <2>1
  <2>3. f[use] \in Int
    BY <1>3, <2>1
  <2>4. SumFunctionOnSet(f, parts) = f[use]
    BY <1>1, <2>1, <2>2, <2>3, SumSingle
  <2> QED
    BY <1>2, <1>3, <2>1, <2>4 DEF parts
<1> QED
  BY <1>6, <1>7 DEF parts

LEMMA SaleTaken ==
  ASSUME InventoriesApart, NEW R, NEW lots \in Seq(R), Counted(lots), NoneOwed(lots),
         NEW items \in Seq([product : Products, quantity : Nat \ {0}]),
         IsInjective([n \in DOMAIN items |-> items[n].product]), NEW b \in DOMAIN lots
  PROVE  TakenBySale(items, lots)[b] <= lots[b].left
<1> DEFINE I == [product : Products, quantity : Nat \ {0}]
           f == [n \in DOMAIN items |-> TakenOf(lots, items[n], b)]
           i == lots[b].inventory
           Uses_i(n) == \E use \in Parts(items[n].product) : use.inventory = i
<1>1. IsFiniteSet(DOMAIN items) /\ \A n \in DOMAIN items : items[n] \in I /\ items[n].product \in Products
  <2>1. items \in Seq(I)
    OBVIOUS
  <2>2. \A x \in I : x.product \in Products
    OBVIOUS
  <2> HIDE DEF I
  <2>3. DOMAIN items = 1 .. Len(items) /\ Len(items) \in Nat /\ \A n \in DOMAIN items : items[n] \in I
    BY <2>1, SeqAt
  <2> QED
    BY <2>2, <2>3, FS_Interval
<1>2. \A n, k \in DOMAIN items : items[n].product = items[k].product => n = k
  BY DEF IsInjective
<1>3. TakenBySale(items, lots)[b] = SumFunctionOnSet(f, DOMAIN items)
  BY TakenBySaleAt
<1>4. \A n \in DOMAIN items : f[n] \in Nat /\ f[n] <= lots[b].left /\ (~Uses_i(n) => f[n] = 0)
  BY <1>1, TakenOfNat, ItemTaken
<1>5. lots[b].left \in Int /\ lots[b].left >= 0
  BY DEF Counted, NoneOwed
<1>6. \A n, k \in DOMAIN items : Uses_i(n) /\ Uses_i(k) => n = k
  BY <1>1, <1>2 DEF InventoriesApart
<1> HIDE DEF f, Uses_i, I, i
<1>7. CASE \A n \in DOMAIN items : ~Uses_i(n)
  <2>1. SumFunctionOnSet(f, DOMAIN items) = 0
    BY <1>1, <1>4, <1>7, SumZero
  <2> QED
    BY <1>3, <1>5, <2>1
<1>8. CASE \E n \in DOMAIN items : Uses_i(n)
  <2>1. PICK n \in DOMAIN items : Uses_i(n)
    BY <1>8
  <2>2. f[n] \in Int /\ \A k \in DOMAIN items \ {n} : f[k] = 0
    BY <1>4, <1>6, <2>1
  <2>3. SumFunctionOnSet(f, DOMAIN items) = f[n]
    BY <1>1, <2>1, <2>2, SumSingle
  <2> QED
    BY <1>3, <1>4, <2>1, <2>3
<1> QED
  BY <1>7, <1>8

-----------------------------------------------------------------------------
(* Units that are neither lost nor invented *)

\* The requests that decrement batches are served one after the other.
StockApart == Overlap \cap {{"fulfil"}, {"fulfil", "sell"}, {"sell"}} = {}

Conserved ==
  \A x \in Items :
    received[x] = Held(batch, ItemsOf(inventory, x)) + AllGiven(batch, ItemsOf(inventory, x), allocated)

\* What a request takes is there, and its sale has nothing yet.
StockWork(u) ==
  /\ u.op \in {"fulfil", "sell"} => \A b \in DOMAIN u.take : u.take[b] <= batch[b].left
  /\ u.op = "sell" => allocated[u.s] = Nothing

StockWorks == \A c \in Clerks : StockWork(desk[c])

ItemsStay == \A i \in DOMAIN inventory : i \in DOMAIN inventory' /\ inventory'[i].item = inventory[i].item

LEMMA IdleTakesNothing == \A u : u.op \notin {"fulfil", "sell"} => StockWork(u)
BY DEF StockWork

LEMMA SameItems ==
  ASSUME StockRows, ItemsStay, NEW x
  PROVE  \A b \in DOMAIN batch :
           batch[b].inventory \in ItemsOf(inventory, x) <=> batch[b].inventory \in ItemsOf(inventory', x)
BY StockLengths DEF ItemsOf, ItemsStay

LEMMA AllGivenIs ==
  ASSUME StockRows, NEW K
  PROVE  /\ \A s \in SaleIds : GivenTo(batch, K, allocated)[s] = Given(batch, K, allocated[s])
         /\ \A s \in SaleIds : GivenTo(batch, K, allocated)[s] \in Int
         /\ AllGiven(batch, K, allocated) \in Int
         /\ Held(batch, K) \in Int
<1>1. \A s \in SaleIds : GivenTo(batch, K, allocated)[s] = Given(batch, K, allocated[s])
  BY DEF GivenTo
<1>2. \A s \in SaleIds : allocated[s] \in Seq(Nat)
  BY DEF StockRows
<1>3. batch \in BatchRows(Len(inventory)) /\ Len(inventory) \in Nat
  BY StockLengths DEF StockRows
<1>4. \A s \in SaleIds : Given(batch, K, allocated[s]) \in Int
  BY <1>2, <1>3, GivenIs
<1>5. AllGiven(batch, K, allocated) \in Int
  BY <1>1, <1>4, SumType, StockRoomAssumption DEF AllGiven
<1> QED
  BY <1>1, <1>3, <1>4, <1>5, HeldFacts

LEMMA AllocatedWithin ==
  ASSUME StockRows
  PROVE  \A s \in SaleIds : allocated[s] \in Seq(Nat) /\ DOMAIN allocated[s] \subseteq DOMAIN batch
<1> SUFFICES ASSUME NEW s \in SaleIds
             PROVE  allocated[s] \in Seq(Nat) /\ DOMAIN allocated[s] \subseteq DOMAIN batch
  OBVIOUS
<1>1. allocated[s] \in Seq(Nat) /\ Len(allocated[s]) <= Len(batch)
  BY DEF StockRows
<1>2. DOMAIN allocated[s] = 1 .. Len(allocated[s]) /\ Len(allocated[s]) \in Nat
  BY <1>1, SeqAt
<1> QED
  BY <1>1, <1>2, StockLengths

LEMMA BatchesGrow ==
  ASSUME StockRows, StockRows', Grows
  PROVE  DOMAIN batch \subseteq DOMAIN batch'
<1>1. DOMAIN batch' = 1 .. Len(batch') /\ Len(batch') \in Nat
  BY SeqAt DEF StockRows, BatchRows
<1> QED
  BY <1>1, StockLengths DEF Grows

\* What the sales were given stays, whatever rows are added.
LEMMA AllGivenStays ==
  ASSUME StockRows, StockRows', Grows, ItemsStay, UNCHANGED allocated, NEW x
  PROVE  AllGiven(batch', ItemsOf(inventory', x), allocated') = AllGiven(batch, ItemsOf(inventory, x), allocated)
<1> DEFINE K == ItemsOf(inventory, x)
           L == ItemsOf(inventory', x)
<1>1. \A b \in DOMAIN batch : batch'[b].inventory = batch[b].inventory
                              /\ (batch[b].inventory \in K <=> batch[b].inventory \in L)
  BY SameItems DEF Grows
<1> HIDE DEF K, L
<1>2. \A s \in SaleIds : Given(batch', L, allocated[s]) = Given(batch, K, allocated[s])
  BY <1>1, AllocatedWithin, BatchesGrow, GivenStays
<1>3. GivenTo(batch', L, allocated) = GivenTo(batch, K, allocated)
  BY <1>2 DEF GivenTo
<1> QED
  BY <1>3 DEF AllGiven, K, L

\* A step that writes neither a batch nor a sale.
LEMMA ConservedKept ==
  ASSUME StockRows, StockRows', Grows, ItemsStay, Conserved, NoneOwed(batch), UNCHANGED <<batch, allocated, received>>
  PROVE  Conserved' /\ NoneOwed(batch)'
<1>1. \A x \in Items : Held(batch, ItemsOf(inventory', x)) = Held(batch, ItemsOf(inventory, x))
  BY SameItems, HeldStays
<1>2. \A x \in Items : AllGiven(batch', ItemsOf(inventory', x), allocated') = AllGiven(batch, ItemsOf(inventory, x), allocated)
  BY AllGivenStays
<1> QED
  BY <1>1, <1>2 DEF Conserved, NoneOwed

\* Requests whose batches are not decremented meanwhile.
LEMMA WorksStay ==
  ASSUME StockRows, StockDesks, StockWorks, \A b \in DOMAIN batch : batch'[b].left \in Int /\ batch'[b].left >= batch[b].left,
         UNCHANGED allocated, \A d \in Clerks : desk'[d] = desk[d] \/ desk'[d].op \notin {"fulfil", "sell"}
  PROVE  StockWorks'
<1> SUFFICES ASSUME NEW d \in Clerks
             PROVE  StockWork(desk[d])'
  BY DEF StockWorks
<1>1. CASE desk'[d].op \notin {"fulfil", "sell"}
  BY <1>1 DEF StockWork
<1>2. CASE desk'[d] = desk[d] /\ desk[d].op \in {"fulfil", "sell"}
  <2>1. /\ desk[d].take \in Seq(Nat) /\ Len(desk[d].take) <= Len(batch)
        /\ \A b \in DOMAIN desk[d].take : desk[d].take[b] <= batch[b].left
        /\ desk[d].op = "sell" => allocated[desk[d].s] = Nothing
    BY <1>2, WorkIs DEF StockDesks, Fits, StockWorks, StockWork
  <2>2. DOMAIN desk[d].take \subseteq DOMAIN batch /\ \A b \in DOMAIN desk[d].take : desk[d].take[b] \in Nat
    <3>1. DOMAIN desk[d].take = 1 .. Len(desk[d].take) /\ Len(desk[d].take) \in Nat
          /\ \A b \in DOMAIN desk[d].take : desk[d].take[b] \in Nat
      BY <2>1, SeqAt
    <3> QED
      BY <2>1, <3>1, StockLengths
  <2>3. \A b \in DOMAIN desk[d].take : desk[d].take[b] <= batch'[b].left
    BY <2>1, <2>2, StockLengths, SMTT(30)
  <2> QED
    BY <1>2, <2>1, <2>3 DEF StockWork
<1> QED
  BY <1>1, <1>2

\* A batch that is stocked.
LEMMA StockedConserves ==
  ASSUME StockRows, StockRows', Grows, ItemsStay, Conserved, NoneOwed(batch), UNCHANGED allocated,
         NEW i \in DOMAIN inventory', NEW price \in Prices, NEW n \in Nat,
         batch' = Append(batch, Row(i, price, n)),
         inventory'[i].item \in Items, received' = [received EXCEPT ![inventory'[i].item] = @ + n]
  PROVE  Conserved' /\ NoneOwed(batch)' /\ \A b \in DOMAIN batch : batch'[b] = batch[b]
<1> DEFINE m == Len(inventory')
           r == Row(i, price, n)
<1>1. m \in Nat /\ batch \in BatchRows(m) /\ r \in BatchRow(m) /\ r.inventory = i /\ r.left = n
  <2>1. Len(inventory') \in Nat /\ DOMAIN inventory' = 1 .. Len(inventory') /\ Len(inventory) <= Len(inventory')
    BY SeqAt DEF StockRows, Grows
  <2>2. batch \in BatchRows(m)
    BY <2>1, RowsWider, StockLengths DEF StockRows
  <2> QED
    BY <2>1, <2>2 DEF Row, BatchRow
<1>2. batch' = Append(batch, r)
  OBVIOUS
<1> HIDE DEF r
<1>3. /\ \A b \in DOMAIN batch : batch'[b] = batch[b]
      /\ DOMAIN batch' = DOMAIN batch \cup {Len(batch) + 1} /\ batch'[Len(batch) + 1] = r
  BY <1>1, <1>2, SeqAppend DEF BatchRows
<1>4. NoneOwed(batch)'
  BY <1>1, <1>3 DEF NoneOwed
<1>5. ASSUME NEW x \in Items
      PROVE  received'[x] = Held(batch', ItemsOf(inventory', x)) + AllGiven(batch', ItemsOf(inventory', x), allocated')
  <2> DEFINE K == ItemsOf(inventory, x)
             L == ItemsOf(inventory', x)
  <2>1. Held(batch', L) = Held(batch, L) + (IF i \in L THEN n ELSE 0)
    BY <1>1, <1>2, HeldAppend
  <2>2. Held(batch, L) = Held(batch, K)
    BY SameItems, HeldStays
  <2>3. AllGiven(batch', L, allocated') = AllGiven(batch, K, allocated)
    BY AllGivenStays
  <2>4. i \in L <=> inventory'[i].item = x
    BY DEF ItemsOf
  <2>5. received[x] = Held(batch, K) + AllGiven(batch, K, allocated)
    BY DEF Conserved
  <2>6. Held(batch, K) \in Int /\ AllGiven(batch, K, allocated) \in Int
    BY AllGivenIs
  <2>7. received'[x] = received[x] + (IF inventory'[i].item = x THEN n ELSE 0)
    <3>1. received \in [Items -> Nat]
      BY DEF StockRows
    <3> QED
      BY <3>1
  <2> HIDE DEF K, L
  <2> QED
    BY <2>1, <2>2, <2>3, <2>4, <2>5, <2>6, <2>7 DEF L
<1>6. Conserved'
  BY <1>5 DEF Conserved
<1> QED
  BY <1>3, <1>4, <1>6

LEMMA FulfilConserves ==
  ASSUME StockRows, StockRows', Grows, StockDesks, Conserved, NoneOwed(batch), StockWorks,
         NEW c \in Clerks, FulfillTransferRequest(c)
  PROVE  Conserved' /\ NoneOwed(batch)'
<1> DEFINE t == desk[c].t
           m == Len(inventory')
           take == desk[c].take
<1>1. /\ t \in DOMAIN transfer /\ take \in Seq(Nat) /\ Len(take) <= Len(batch)
      /\ m \in Nat /\ Len(inventory) <= m /\ batch \in BatchRows(m)
      /\ \A i \in DOMAIN inventory : inventory'[i] = inventory[i]
  BY FulfilIs
<1>2. PICK to \in 1 .. m : /\ inventory'[to].item = inventory[transfer[t].inventory].item
                           /\ batch' = MoveAll(batch, take, to)
  BY FulfilIs
<1>3. /\ \A b \in DOMAIN take : take[b] <= batch[b].left
      /\ \A b \in DOMAIN take : take[b] # 0 => batch[b].inventory = transfer[t].inventory
  BY DEF StockWorks, StockWork, StockDesks, Fits, FulfillTransferRequest
<1>4. UNCHANGED <<allocated, received>>
  BY DEF FulfillTransferRequest
<1>5. ItemsStay
  <2>1. DOMAIN inventory' = 1 .. m
    BY SeqAt DEF StockRows
  <2> QED
    BY <1>1, <2>1, StockLengths DEF ItemsStay
<1> HIDE DEF take
<1>6. /\ NoneOwed(batch')
      /\ \A K : (\A b \in DOMAIN take : take[b] # 0 => (batch[b].inventory \in K <=> to \in K)) => Held(batch', K) = Held(batch, K)
  BY <1>1, <1>2, <1>3, MoveAllIs, SMTT(30)
<1>7. ASSUME NEW x \in Items
      PROVE  received'[x] = Held(batch', ItemsOf(inventory', x)) + AllGiven(batch', ItemsOf(inventory', x), allocated')
  <2> DEFINE K == ItemsOf(inventory, x)
             L == ItemsOf(inventory', x)
  <2>1. transfer[t].inventory \in L <=> to \in L
    <3>1. transfer[t].inventory \in DOMAIN inventory
      BY <1>1, StockLengths
    <3>2. to \in DOMAIN inventory'
      BY SeqAt DEF StockRows
    <3> QED
      BY <1>2, <1>5, <3>1, <3>2 DEF ItemsStay, ItemsOf
  <2>2. Held(batch', L) = Held(batch, L)
    BY <1>3, <1>6, <2>1
  <2>3. Held(batch, L) = Held(batch, K)
    BY <1>5, SameItems, HeldStays
  <2>4. AllGiven(batch', L, allocated') = AllGiven(batch, K, allocated)
    BY <1>4, <1>5, AllGivenStays
  <2> QED
    BY <1>4, <2>2, <2>3, <2>4 DEF Conserved
<1> QED
  BY <1>6, <1>7 DEF Conserved

\* What one sale is given changes.
LEMMA AllGivenChange ==
  ASSUME StockRows, StockRows', Grows, NEW K, NEW s \in SaleIds, NEW take \in Seq(Nat),
         allocated' = [allocated EXCEPT ![s] = take]
  PROVE  AllGiven(batch', K, allocated')
           = AllGiven(batch, K, allocated) - Given(batch, K, allocated[s]) + Given(batch', K, take)
<1> DEFINE old == GivenTo(batch, K, allocated)
           new == GivenTo(batch', K, allocated')
<1>1. \A r \in SaleIds : old[r] \in Int /\ old[r] = Given(batch, K, allocated[r])
  BY AllGivenIs
<1>2. new[s] = Given(batch', K, take) /\ new[s] \in Int
  <2>1. new[s] = Given(batch', K, take)
    BY DEF GivenTo, StockRows
  <2>2. Len(inventory') \in Nat /\ batch' \in BatchRows(Len(inventory'))
    BY SeqAt DEF StockRows
  <2> QED
    BY <2>1, <2>2, GivenIs
<1>3. \A r \in SaleIds \ {s} : new[r] = old[r]
  <2> SUFFICES ASSUME NEW r \in SaleIds \ {s}
               PROVE  new[r] = old[r]
    OBVIOUS
  <2>1. new[r] = Given(batch', K, allocated[r])
    BY DEF GivenTo, StockRows
  <2>2. Given(batch', K, allocated[r]) = Given(batch, K, allocated[r])
    <3>1. DOMAIN allocated[r] \subseteq DOMAIN batch
      BY AllocatedWithin
    <3>2. DOMAIN batch \subseteq DOMAIN batch' /\ \A b \in DOMAIN batch : batch'[b].inventory = batch[b].inventory
      BY BatchesGrow DEF Grows
    <3>3. GivenFrom(batch', K, allocated[r]) = GivenFrom(batch, K, allocated[r])
      BY <3>1, <3>2 DEF GivenFrom, HeldOf
    <3> QED
      BY <3>3 DEF Given
  <2> QED
    BY <1>1, <2>1, <2>2
<1> HIDE DEF old, new
<1>4. SumFunctionOnSet(new, SaleIds) = SumFunctionOnSet(old, SaleIds) - old[s] + new[s]
  <2>1. IsFiniteSet(SaleIds)
    BY StockRoomAssumption
  <2>2. (\A r \in SaleIds : old[r] \in Int) /\ new[s] \in Int
    BY <1>1, <1>2
  <2> QED
    BY <1>3, <2>1, <2>2, SumChange
<1> QED
  BY <1>1, <1>2, <1>4 DEF AllGiven, old, new

LEMMA CreateSaleConserves ==
  ASSUME StockRows, StockRows', Grows, StockDesks, Conserved, NoneOwed(batch), StockWorks,
         NEW c \in Clerks, CreateSale(c)
  PROVE  Conserved' /\ NoneOwed(batch)'
<1> DEFINE take == desk[c].take
           s == desk[c].s
           m == Len(inventory)
<1>1. /\ take \in Seq(Nat) /\ Len(take) <= Len(batch) /\ s \in SaleIds
      /\ allocated[s] = Nothing /\ \A b \in DOMAIN take : take[b] <= batch[b].left
  BY WorkIs DEF StockDesks, Fits, StockWorks, StockWork, CreateSale
<1>2. /\ batch' = [b \in DOMAIN batch |->
                     IF b \in DOMAIN take THEN [batch[b] EXCEPT !.left = @ - take[b]] ELSE batch[b]]
      /\ allocated' = [allocated EXCEPT ![s] = take]
      /\ UNCHANGED <<inventory, received>>
  BY DEF CreateSale
<1> HIDE DEF take, s, m
<1>3. /\ batch' \in BatchRows(m) /\ DOMAIN batch' = DOMAIN batch
      /\ \A b \in DOMAIN batch : batch'[b].inventory = batch[b].inventory
  BY <1>1, <1>2, BatchesWritten DEF m
<1>4. \A b \in DOMAIN take : take[b] \in Nat
  BY <1>1, SeqAt
<1>5. \A b \in DOMAIN batch : /\ batch[b].left = batch'[b].left + (IF b \in DOMAIN take THEN take[b] ELSE 0)
                              /\ batch'[b].left >= 0
  <2> SUFFICES ASSUME NEW b \in DOMAIN batch
               PROVE  /\ batch[b].left = batch'[b].left + (IF b \in DOMAIN take THEN take[b] ELSE 0)
                      /\ batch'[b].left >= 0
    OBVIOUS
  <2>1. batch[b].left \in Int /\ batch[b].left >= 0 /\ batch[b] \in BatchRow(m)
    BY StockLengths, SeqAt DEF NoneOwed, m
  <2>2. CASE b \in DOMAIN take
    <3>1. batch'[b].left = batch[b].left - take[b]
      BY <1>2, <2>1, <2>2 DEF BatchRow
    <3> QED
      BY <1>1, <1>4, <2>1, <2>2, <3>1
  <2>3. CASE b \notin DOMAIN take
    BY <1>2, <2>1, <2>3
  <2> QED
    BY <2>2, <2>3
<1>6. ASSUME NEW x \in Items
      PROVE  received'[x] = Held(batch', ItemsOf(inventory', x)) + AllGiven(batch', ItemsOf(inventory', x), allocated')
  <2> DEFINE K == ItemsOf(inventory, x)
  <2>0. m \in Nat /\ batch \in BatchRows(m)
    BY StockLengths DEF StockRows, m
  <2> HIDE DEF K
  <2>1. Held(batch, K) = Held(batch', K) + Given(batch, K, take)
    BY <1>1, <1>3, <1>5, <2>0, HeldLess
  <2>2. AllGiven(batch', K, allocated') = AllGiven(batch, K, allocated) - Given(batch, K, allocated[s]) + Given(batch', K, take)
    BY <1>1, <1>2, AllGivenChange
  <2>3. Given(batch, K, allocated[s]) = 0 /\ Given(batch, K, take) \in Int
    BY <1>1, <2>0, GivenIs
  <2>4. Given(batch', K, take) = Given(batch, K, take)
    <3>1. GivenFrom(batch', K, take) = GivenFrom(batch, K, take)
      BY <1>3 DEF GivenFrom, HeldOf
    <3> QED
      BY <3>1 DEF Given
  <2>5. received[x] = Held(batch, K) + AllGiven(batch, K, allocated)
    BY DEF Conserved, K
  <2>6. Held(batch', K) \in Int /\ AllGiven(batch, K, allocated) \in Int
    BY <1>3, <2>0, HeldFacts, AllGivenIs
  <2> QED
    BY <1>2, <2>1, <2>2, <2>3, <2>4, <2>5, <2>6 DEF K
<1> QED
  BY <1>3, <1>5, <1>6 DEF Conserved, NoneOwed

LEMMA UndoSaleConserves ==
  ASSUME StockRows, StockRows', Grows, StockDesks, Conserved, NoneOwed(batch), StockWorks,
         NEW s \in SaleIds, UndoSaleCreation(s)
  PROVE  Conserved' /\ NoneOwed(batch)' /\ StockWorks'
<1> DEFINE take == allocated[s]
           m == Len(inventory)
<1>1. take \in Seq(Nat) /\ Len(take) <= Len(batch) /\ Nothing \in Seq(Nat)
  BY DEF StockRows, Nothing
<1>2. /\ batch' = [b \in DOMAIN batch |->
                     IF b \in DOMAIN take THEN [batch[b] EXCEPT !.left = @ + take[b]] ELSE batch[b]]
      /\ allocated' = [allocated EXCEPT ![s] = Nothing]
      /\ UNCHANGED <<inventory, received, desk>>
  BY DEF UndoSaleCreation
<1> HIDE DEF take, m
<1>3. /\ batch' \in BatchRows(m) /\ DOMAIN batch' = DOMAIN batch
      /\ \A b \in DOMAIN batch : batch'[b].inventory = batch[b].inventory
  BY <1>1, <1>2, BatchesWritten DEF m
<1>4. \A b \in DOMAIN take : take[b] \in Nat
  BY <1>1, SeqAt
<1>5. \A b \in DOMAIN batch : /\ batch'[b].left = batch[b].left + (IF b \in DOMAIN take THEN take[b] ELSE 0)
                              /\ batch'[b].left \in Int /\ batch'[b].left >= batch[b].left /\ batch[b].left >= 0
                              /\ batch[b].left \in Int
  <2> SUFFICES ASSUME NEW b \in DOMAIN batch
               PROVE  /\ batch'[b].left = batch[b].left + (IF b \in DOMAIN take THEN take[b] ELSE 0)
                      /\ batch'[b].left \in Int /\ batch'[b].left >= batch[b].left /\ batch[b].left >= 0
                      /\ batch[b].left \in Int
    OBVIOUS
  <2>1. batch[b].left \in Int /\ batch[b].left >= 0 /\ batch[b] \in BatchRow(m)
    BY StockLengths, SeqAt DEF NoneOwed, m
  <2>2. CASE b \in DOMAIN take
    <3>1. batch'[b].left = batch[b].left + take[b]
      BY <1>2, <2>1, <2>2 DEF BatchRow
    <3> QED
      BY <1>4, <2>1, <2>2, <3>1
  <2>3. CASE b \notin DOMAIN take
    BY <1>2, <2>1, <2>3
  <2> QED
    BY <2>2, <2>3
<1>6. ASSUME NEW x \in Items
      PROVE  received'[x] = Held(batch', ItemsOf(inventory', x)) + AllGiven(batch', ItemsOf(inventory', x), allocated')
  <2> DEFINE K == ItemsOf(inventory, x)
  <2>0. m \in Nat /\ batch \in BatchRows(m)
    BY StockLengths DEF StockRows, m
  <2> HIDE DEF K
  <2>1. Held(batch', K) = Held(batch, K) + Given(batch', K, take)
    <3>1. \A b \in DOMAIN batch' : batch'[b].left = batch[b].left + (IF b \in DOMAIN take THEN take[b] ELSE 0)
      BY <1>3, <1>5
    <3> QED
      BY <1>1, <1>3, <2>0, <3>1, HeldLess
  <2>2. AllGiven(batch', K, allocated') = AllGiven(batch, K, allocated) - Given(batch, K, take) + Given(batch', K, Nothing)
    BY <1>1, <1>2, AllGivenChange DEF take
  <2>3. Given(batch', K, Nothing) = 0 /\ Given(batch, K, take) \in Int
    BY <1>1, <1>3, <2>0, GivenIs
  <2>4. Given(batch', K, take) = Given(batch, K, take)
    <3>1. GivenFrom(batch', K, take) = GivenFrom(batch, K, take)
      BY <1>3 DEF GivenFrom, HeldOf
    <3> QED
      BY <3>1 DEF Given
  <2>5. received[x] = Held(batch, K) + AllGiven(batch, K, allocated)
    BY DEF Conserved, K
  <2>6. Held(batch, K) \in Int /\ AllGiven(batch, K, allocated) \in Int
    BY AllGivenIs
  <2> QED
    BY <1>2, <2>1, <2>2, <2>3, <2>4, <2>5, <2>6 DEF K
<1>7. StockWorks'
  <2> SUFFICES ASSUME NEW d \in Clerks, desk[d].op \in {"fulfil", "sell"}
               PROVE  StockWork(desk[d])'
    BY <1>2 DEF StockWorks, StockWork
  <2>1. /\ desk[d].take \in Seq(Nat) /\ Len(desk[d].take) <= Len(batch)
        /\ \A b \in DOMAIN desk[d].take : desk[d].take[b] <= batch[b].left
        /\ desk[d].op = "sell" => allocated[desk[d].s] = Nothing /\ desk[d].s \in SaleIds
    BY WorkIs DEF StockDesks, Fits, StockWorks, StockWork
  <2>2. DOMAIN desk[d].take \subseteq DOMAIN batch /\ \A b \in DOMAIN desk[d].take : desk[d].take[b] \in Nat
    <3>1. DOMAIN desk[d].take = 1 .. Len(desk[d].take) /\ Len(desk[d].take) \in Nat
          /\ \A b \in DOMAIN desk[d].take : desk[d].take[b] \in Nat
      BY <2>1, SeqAt
    <3> QED
      BY <2>1, <3>1, StockLengths
  <2>3. \A b \in DOMAIN desk[d].take : desk[d].take[b] <= batch'[b].left
    BY <1>5, <2>1, <2>2
  <2>4. desk[d].op = "sell" => allocated'[desk[d].s] = Nothing
    BY <1>2, <2>1 DEF StockRows
  <2> QED
    BY <1>2, <2>3, <2>4 DEF StockWork
<1> QED
  BY <1>3, <1>5, <1>6, <1>7 DEF Conserved, NoneOwed

\* The other requests that decrement batches wait.
LEMMA DecrementsApart ==
  ASSUME StockApart, StockDesks, OverlapsOnly, StockWorks, NEW c \in Clerks,
         desk[c].op \in {"fulfil", "sell"}, Ends(c)
  PROVE  StockWorks'
<1> SUFFICES ASSUME NEW d \in Clerks
             PROVE  desk'[d].op \notin {"fulfil", "sell"}
  BY DEF StockWorks, StockWork
<1>1. CASE d = c
  BY <1>1, DeskAfter DEF Idle
<1>2. CASE d # c
  <2>1. desk'[d] = desk[d]
    BY <1>2, DeskAfter
  <2>2. desk[d].op # "none" => {desk[c].op, desk[d].op} \in Overlap
    BY <1>2, NotTogether
  <2>3. {"fulfil"} \notin Overlap /\ {"fulfil", "sell"} \notin Overlap /\ {"sell"} \notin Overlap
    BY DEF StockApart
  <2>4. {"fulfil", "fulfil"} = {"fulfil"} /\ {"sell", "sell"} = {"sell"} /\ {"sell", "fulfil"} = {"fulfil", "sell"}
    OBVIOUS
  <2> QED
    BY <2>1, <2>2, <2>3, <2>4
<1> QED
  BY <1>1, <1>2

LEMMA BeginsConserves ==
  ASSUME InventoriesApart, StockRows, StockRows', Grows, StockDesks, Conserved, NoneOwed(batch), StockWorks, NEW c \in Clerks,
         \/ \E w \in Warehouses, main \in BOOLEAN : BeginCreate(c, w, main)
         \/ \E w \in Warehouses : BeginDelete(c, w)
         \/ \E i \in DOMAIN inventory, w \in Warehouses, n \in Quantities : BeginRequest(c, i, w, n)
         \/ \E t \in DOMAIN transfer, n \in Quantities : BeginFulfil(c, t, n)
         \/ \E t \in DOMAIN transfer : BeginReject(c, t)
         \/ \E s \in SaleIds, items \in Orders : BeginSale(c, s, items)
  PROVE  Conserved' /\ NoneOwed(batch)' /\ StockWorks'
<1>1. \E work : Begins(c, work) /\ StockWork(work)
  <2>1. ASSUME NEW w \in Warehouses, NEW main \in BOOLEAN, BeginCreate(c, w, main)
        PROVE  \E work : Begins(c, work) /\ StockWork(work)
    BY <2>1 DEF BeginCreate, StockWork
  <2>2. ASSUME NEW w \in Warehouses, BeginDelete(c, w)
        PROVE  \E work : Begins(c, work) /\ StockWork(work)
    BY <2>2 DEF BeginDelete, StockWork
  <2>3. ASSUME NEW i \in DOMAIN inventory, NEW w \in Warehouses, NEW n \in Quantities, BeginRequest(c, i, w, n)
        PROVE  \E work : Begins(c, work) /\ StockWork(work)
    BY <2>3 DEF BeginRequest, StockWork
  <2>4. ASSUME NEW t \in DOMAIN transfer, NEW n \in Quantities, BeginFulfil(c, t, n)
        PROVE  \E work : Begins(c, work) /\ StockWork(work)
    BY <2>4, BeginFulfilFits DEF StockWork
  <2>5. ASSUME NEW t \in DOMAIN transfer, BeginReject(c, t)
        PROVE  \E work : Begins(c, work) /\ StockWork(work)
    BY <2>5 DEF BeginReject, StockWork
  <2>6. ASSUME NEW s \in SaleIds, NEW items \in Orders, BeginSale(c, s, items)
        PROVE  \E work : Begins(c, work) /\ StockWork(work)
    <3>1. PICK work \in Busy : /\ Begins(c, work) /\ work.op = "sell" /\ work.s = s
                               /\ work.take = TakenBySale(items, batch)
      BY <2>6, BeginSaleFits
    <3>2. items \in Seq([product : Products, quantity : Nat \ {0}])
      BY StockRoomAssumption
    <3>3. IsInjective([n \in DOMAIN items |-> items[n].product]) /\ allocated[s] = Nothing
      BY <2>6 DEF BeginSale, Accepts
    <3>4. \A b \in DOMAIN batch : work.take[b] <= batch[b].left
      BY <3>1, <3>2, <3>3, StockLengths, SaleTaken
    <3>5. DOMAIN work.take = DOMAIN batch
      <4>1. work.take \in Seq(Nat) /\ Len(work.take) = Len(batch)
        BY <3>1, <3>2, StockLengths, TakenBySaleAt
      <4> QED
        BY <4>1, SeqAt, StockLengths
    <3> QED
      BY <3>1, <3>3, <3>4, <3>5 DEF StockWork
  <2> QED
    BY <2>1, <2>2, <2>3, <2>4, <2>5, <2>6
<1>2. PICK work : Begins(c, work) /\ StockWork(work)
  BY <1>1
<1>3. UNCHANGED <<inventory, batch, allocated, received>> /\ \A d \in Clerks : desk'[d] = desk[d] \/ desk'[d] = work
  BY <1>2, DeskAfter DEF Begins
<1>4. StockWorks'
  BY <1>2, <1>3 DEF StockWorks, StockWork
<1>5. ItemsStay
  BY <1>3 DEF ItemsStay
<1> QED
  BY <1>3, <1>4, <1>5, ConservedKept

LEMMA StepConserves ==
  ASSUME StockApart, InventoriesApart, StockRows, StockRows', Grows, StockDesks, OverlapsOnly,
         Conserved, NoneOwed(batch), StockWorks, StockNext
  PROVE  Conserved' /\ NoneOwed(batch)' /\ StockWorks'
<1>0. \A b \in DOMAIN batch : batch[b].left \in Int
  BY StockLengths
<1>1. CASE \E c \in Clerks : \/ \E w \in Warehouses, main \in BOOLEAN : BeginCreate(c, w, main)
                             \/ \E w \in Warehouses : BeginDelete(c, w)
                             \/ \E i \in DOMAIN inventory, w \in Warehouses, n \in Quantities : BeginRequest(c, i, w, n)
                             \/ \E t \in DOMAIN transfer, n \in Quantities : BeginFulfil(c, t, n)
                             \/ \E t \in DOMAIN transfer : BeginReject(c, t)
                             \/ \E s \in SaleIds, items \in Orders : BeginSale(c, s, items)
  BY <1>1, BeginsConserves
<1>2. CASE \/ \E c \in Clerks : CreateWarehouse(c) \/ DeleteWarehouse(c) \/ CreateTransferRequest(c) \/ RejectTransferRequest(c)
           \/ \E w \in Warehouses : DeactivateWarehouse(w) \/ ActivateWarehouse(w) \/ UpdateWarehouse(w)
           \/ \E i \in DOMAIN inventory : ToggleHideInventory(i)
  <2>1. UNCHANGED <<batch, allocated, received>> /\ (UNCHANGED desk \/ \E c \in Clerks : Ends(c))
    BY <1>2 DEF CreateWarehouse, DeleteWarehouse, CreateTransferRequest, RejectTransferRequest, DeactivateWarehouse,
                ActivateWarehouse, UpdateWarehouse, SetActive, ToggleHideInventory
  <2>2. UNCHANGED inventory \/ \E i \in DOMAIN inventory : ToggleHideInventory(i)
    BY <1>2 DEF CreateWarehouse, DeleteWarehouse, CreateTransferRequest, RejectTransferRequest, DeactivateWarehouse,
                ActivateWarehouse, UpdateWarehouse, SetActive
  <2>3. ItemsStay
    <3>1. \A i \in DOMAIN inventory : inventory[i] \in InventoryRow
      BY StockLengths
    <3> QED
      BY <2>2, <3>1 DEF ItemsStay, ToggleHideInventory, InventoryRow
  <2>4. \A d \in Clerks : desk'[d] = desk[d] \/ desk'[d].op \notin {"fulfil", "sell"}
    BY <2>1, DeskAfter DEF Idle
  <2>5. StockWorks'
    BY <1>0, <2>1, <2>4, WorksStay
  <2> QED
    BY <2>1, <2>3, <2>5, ConservedKept
<1>3. CASE \E x \in Items, price \in Prices, n \in Deliveries : CreateInventory(x, price, n)
  <2>1. PICK x \in Items, price \in Prices, n \in Deliveries : CreateInventory(x, price, n)
    BY <1>3
  <2>2. PICK w \in Warehouses : inventory' = Append(inventory, [item |-> x, at |-> w, hidden |-> FALSE])
    BY <2>1 DEF CreateInventory
  <2> DEFINE last == Len(inventory) + 1
  <2>3. /\ last \in DOMAIN inventory' /\ inventory'[last].item = x
        /\ \A i \in DOMAIN inventory : i \in DOMAIN inventory' /\ inventory'[i] = inventory[i]
    <3>1. inventory \in Seq(InventoryRow) /\ [item |-> x, at |-> w, hidden |-> FALSE] \in InventoryRow
      BY DEF InventoryRow, StockRows
    <3> QED
      BY <2>2, <3>1, SeqAppend
  <2>4. ItemsStay
    BY <2>3 DEF ItemsStay
  <2>5. n \in Nat /\ UNCHANGED <<allocated, desk>>
    BY <2>1, StockRoomAssumption DEF CreateInventory
  <2>6. CASE UNCHANGED <<batch, received>>
    <3>1. StockWorks'
      BY <1>0, <2>5, <2>6, WorksStay
    <3> QED
      BY <2>4, <2>5, <2>6, <3>1, ConservedKept
  <2>7. CASE batch' = Append(batch, Row(last, price, n)) /\ received' = [received EXCEPT ![x] = @ + n]
    <3> HIDE DEF last
    <3>1. Conserved' /\ NoneOwed(batch)' /\ \A b \in DOMAIN batch : batch'[b] = batch[b]
      BY <2>3, <2>4, <2>5, <2>7, StockedConserves
    <3>2. StockWorks'
      BY <1>0, <2>5, <3>1, WorksStay
    <3> QED
      BY <3>1, <3>2
  <2> QED
    BY <2>1, <2>6, <2>7 DEF CreateInventory
<1>4. CASE \E i \in DOMAIN inventory, price \in Prices, n \in Deliveries : CreateInventoryBatch(i, price, n)
  <2>1. PICK i \in DOMAIN inventory, price \in Prices, n \in Deliveries : CreateInventoryBatch(i, price, n)
    BY <1>4
  <2>2. /\ batch' = Append(batch, Row(i, price, n)) /\ received' = [received EXCEPT ![inventory[i].item] = @ + n]
        /\ UNCHANGED <<inventory, allocated, desk>>
    BY <2>1 DEF CreateInventoryBatch
  <2>3. n \in Nat /\ i \in DOMAIN inventory' /\ inventory'[i].item \in Items /\ inventory'[i].item = inventory[i].item
    BY <2>2, StockLengths, StockRoomAssumption DEF InventoryRow
  <2>4. ItemsStay
    BY <2>2 DEF ItemsStay
  <2>5. Conserved' /\ NoneOwed(batch)' /\ \A b \in DOMAIN batch : batch'[b] = batch[b]
    BY <2>2, <2>3, <2>4, StockedConserves
  <2>6. StockWorks'
    BY <1>0, <2>2, <2>5, WorksStay
  <2> QED
    BY <2>5, <2>6
<1>5. CASE \E c \in Clerks : FulfillTransferRequest(c)
  <2>1. PICK c \in Clerks : FulfillTransferRequest(c)
    BY <1>5
  <2>2. desk[c].op \in {"fulfil", "sell"} /\ Ends(c)
    BY <2>1 DEF FulfillTransferRequest
  <2> QED
    BY <2>1, <2>2, FulfilConserves, DecrementsApart
<1>6. CASE \E c \in Clerks : CreateSale(c)
  <2>1. PICK c \in Clerks : CreateSale(c)
    BY <1>6
  <2>2. desk[c].op \in {"fulfil", "sell"} /\ Ends(c)
    BY <2>1 DEF CreateSale
  <2> QED
    BY <2>1, <2>2, CreateSaleConserves, DecrementsApart
<1>7. CASE \E s \in SaleIds : UndoSaleCreation(s)
  BY <1>7, UndoSaleConserves
<1> QED
  BY <1>1, <1>2, <1>3, <1>4, <1>5, <1>6, <1>7 DEF StockNext

\* The sums of StockConserved are those of Conserved.
LEMMA ConservedIsStockConserved ==
  ASSUME StockTypeOK, StockRows, Conserved, NoneOwed(batch)
  PROVE  StockConserved
<1>1. ASSUME NEW x \in Items
      PROVE  LET held == {b \in DOMAIN batch : inventory[batch[b].inventory].item = x}
             IN  received[x] = SumFunction([b \in held |-> batch[b].left])
                   + SumFunction([s \in SaleIds |-> SumFunction([b \in held \cap DOMAIN allocated[s] |-> allocated[s][b]])])
  <2> DEFINE K == ItemsOf(inventory, x)
             held == {b \in DOMAIN batch : inventory[batch[b].inventory].item = x}
             lefts == [b \in held |-> batch[b].left]
             given(s) == [b \in held \cap DOMAIN allocated[s] |-> allocated[s][b]]
             sums == [s \in SaleIds |-> SumFunction(given(s))]
  <2>1. HeldOf(batch, K) = held
    BY StockLengths DEF HeldOf, ItemsOf
  <2>2. Len(inventory) \in Nat /\ batch \in BatchRows(Len(inventory))
    BY StockLengths DEF StockRows
  <2>3. IsFiniteSet(held) /\ held \subseteq DOMAIN batch
    BY <2>1, <2>2, HeldFacts
  <2>4. SumFunction(lefts) = Held(batch, K)
    <3>1. SumFunction(lefts) = SumFunctionOnSet(lefts, held)
      BY DEF SumFunction
    <3>2. \A b \in held : lefts[b] = Lefts(batch)[b]
      BY <2>3 DEF Lefts
    <3> HIDE DEF held, lefts
    <3> QED
      BY <2>1, <2>3, <3>1, <3>2, SumSame DEF Held
  <2>5. ASSUME NEW s \in SaleIds
        PROVE  SumFunction(given(s)) = Given(batch, K, allocated[s])
    <3> DEFINE from == held \cap DOMAIN allocated[s]
    <3>1. SumFunction(given(s)) = SumFunctionOnSet(given(s), from)
      BY DEF SumFunction
    <3>2. IsFiniteSet(from) /\ from = GivenFrom(batch, K, allocated[s])
      BY <2>1, <2>3, FS_Subset DEF GivenFrom
    <3>3. \A b \in from : given(s)[b] = allocated[s][b]
      OBVIOUS
    <3> HIDE DEF from, given
    <3> QED
      BY <3>1, <3>2, <3>3, SumSame DEF Given
  <2>6. sums = GivenTo(batch, K, allocated)
    <3> HIDE DEF given
    <3> QED
      BY <2>5 DEF GivenTo
  <2>7. SumFunction(sums) = AllGiven(batch, K, allocated)
    <3>1. DOMAIN sums = SaleIds
      OBVIOUS
    <3> HIDE DEF sums
    <3> QED
      BY <2>6, <3>1 DEF AllGiven, SumFunction
  <2>8. received[x] = SumFunction(lefts) + SumFunction(sums)
    BY <2>4, <2>7 DEF Conserved
  <2> QED
    BY <2>8
<1> QED
  BY <1>1 DEF StockConserved, NoneOwed

\* Every unit stocked is in one batch or one sale, and no batch is below zero,
\* if requests that decrement batches do not overlap and no inventory is a
\* part of two products.
THEOREM StockIsConserved ==
  ASSUME StockApart, InventoriesApart
  PROVE  StockSpec => []StockConserved
<1> DEFINE Inv == Conserved /\ NoneOwed(batch) /\ StockWorks
<1>1. StockInit => Inv
  <2> SUFFICES ASSUME StockInit
               PROVE  Inv
    OBVIOUS
  <2>1. NoneOwed(batch) /\ StockWorks
    BY DEF StockInit, NoneOwed, StockWorks, StockWork, Idle
  <2>2. ASSUME NEW x \in Items
        PROVE  received[x] = Held(batch, ItemsOf(inventory, x)) + AllGiven(batch, ItemsOf(inventory, x), allocated)
    <3> DEFINE K == ItemsOf(inventory, x)
    <3>1. HeldOf(batch, K) = {}
      BY DEF StockInit, HeldOf
    <3>2. Held(batch, K) = 0
      BY <3>1, SumEmpty DEF Held
    <3>3. \A s \in SaleIds : GivenTo(batch, K, allocated)[s] = 0
      <4>1. \A s \in SaleIds : GivenFrom(batch, K, allocated[s]) = {}
        BY <3>1 DEF GivenFrom
      <4> QED
        BY <4>1, SumEmpty DEF GivenTo, Given
    <3>4. AllGiven(batch, K, allocated) = 0
      BY <3>3, SumZero, StockRoomAssumption DEF AllGiven
    <3> HIDE DEF K
    <3>5. received[x] = 0
      BY DEF StockInit
    <3> QED
      BY <3>2, <3>4, <3>5 DEF K
  <2> QED
    BY <2>1, <2>2 DEF Conserved
<1>2. StockRows /\ StockDesks /\ OverlapsOnly /\ Inv /\ [StockNext]_stockVars => Inv'
  <2>1. ASSUME Inv, UNCHANGED stockVars
        PROVE  Inv'
    BY <2>1 DEF stockVars, Conserved, NoneOwed, StockWorks, StockWork
  <2>2. ASSUME StockRows, StockDesks, OverlapsOnly, Inv, StockNext
        PROVE  Inv'
    BY <2>2, StepStockRows, StepConserves
  <2> QED
    BY <2>1, <2>2
<1>3. StockTypeOK /\ StockRows /\ Inv => StockConserved
  BY ConservedIsStockConserved
<1> QED
  BY <1>1, <1>2, <1>3, StockRowsHold, StockTypeCorrect, PTL DEF StockSpec

=============================================================================
