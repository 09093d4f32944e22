----------------------------- MODULE StockRoom -----------------------------
(***************************************************************************)
(* The main warehouse and its branches, the inventories kept there, the    *)
(* transfers between them and the sales that take from them.               *)
(*                                                                         *)
(* Warehouses and transfers are checked by a reading and written later, by *)
(* their id alone, so those requests are two steps; so is a sale, which    *)
(* decrements the batches its reading chose.                               *)
(***************************************************************************)
EXTENDS SaleStock

CONSTANTS
  Warehouses, Items, Prices, SaleIds,
  Orders,        \* the sequences of items that are sold
  Clerks,        \* requests served at the same time
  Serves,        \* bound: the operations each of them may run
  Overlap,       \* the pairs of operations that may overlap
  Deliveries,    \* bound: units a batch is stocked with
  Quantities,    \* bound: units that are transferred
  MaxInventories, MaxBatches, MaxTransfers   \* bounds

Op == {"create", "delete", "request", "fulfil", "reject", "sell"}

ASSUME StockRoomAssumption ==
  /\ Serves \in [Clerks -> SUBSET Op] /\ Overlap \subseteq SUBSET Op
  /\ Deliveries \cup Quantities \subseteq Nat \ {0}
  /\ Orders \subseteq Seq([product : Products, quantity : Nat \ {0}])
  /\ IsFiniteSet(SaleIds)
  /\ {MaxInventories, MaxBatches, MaxTransfers} \subseteq Nat

VARIABLES
  warehouse,   \* rows: state, isMain, isActive
  inventory,   \* rows in the order of their creation: item, warehouse, hideInventory
  batch,       \* rows in the order of their creation: inventory, price, remainingQuantity
  transfer,    \* rows: inventoryId, toWarehouseId, fulfilledQuantity, status
  allocated,   \* the batches each sale was allocated, while it exists
  desk,        \* what each clerk's request has read
  received,    \* units of each item ever stocked
  moved        \* units each transfer has moved

stockVars == <<warehouse, inventory, batch, transfer, allocated, desk, received, moved>>

Unknown == [state |-> "none", main |-> FALSE, active |-> FALSE]
Nothing == <<>>  \* allocated to no sale

Idle == [op |-> "none"]
Busy == [op : {"create"}, w : Warehouses, main : BOOLEAN]
        \cup [op : {"delete"}, w : Warehouses]
        \cup [op : {"request"}, i : 1 .. MaxInventories, w : Warehouses]
        \cup [op : {"reject"}, t : 1 .. MaxTransfers]
        \cup [op : {"fulfil"}, t : 1 .. MaxTransfers, quantity : Nat, take : Seq(Nat)]
        \cup [op : {"sell"}, s : SaleIds, take : Seq(Nat)]

StockTypeOK ==
  /\ warehouse \in [Warehouses -> [state : {"none", "live", "deleted"}, main : BOOLEAN, active : BOOLEAN]]
  /\ inventory \in Seq([item : Items, at : Warehouses, hidden : BOOLEAN])
  /\ batch \in Seq([inventory : 1 .. Len(inventory), price : Prices, left : Int])
  /\ transfer \in Seq([inventory : 1 .. Len(inventory), to : Warehouses, done : Nat,
                       status : {"PENDING", "FULFILLED", "REJECTED"}])
  /\ allocated \in [SaleIds -> Seq(Nat)]
  /\ desk \in [Clerks -> Busy \cup {Idle}]
  /\ received \in [Items -> Nat]
  /\ moved \in Seq(Nat)

StockInit ==
  /\ warehouse = [w \in Warehouses |-> Unknown]
  /\ inventory = <<>>
  /\ batch = <<>>
  /\ transfer = <<>>
  /\ allocated = [s \in SaleIds |-> Nothing]
  /\ desk = [c \in Clerks |-> Idle]
  /\ received = [x \in Items |-> 0]
  /\ moved = <<>>

MayRun(op) == \A c \in Clerks : desk[c] = Idle \/ {op, desk[c].op} \in Overlap

Begins(c, work) ==
  /\ desk[c] = Idle
  /\ work.op \in Serves[c] /\ MayRun(work.op)
  /\ desk' = [desk EXCEPT ![c] = work]
  /\ UNCHANGED <<warehouse, inventory, batch, transfer, allocated, received, moved>>

Ends(c) == desk' = [desk EXCEPT ![c] = Idle]

-----------------------------------------------------------------------------
(* Warehouses *)

Live(w) == warehouse[w].state = "live"

\* Mutant of NoMain: only an active main warehouse counts.
NoActiveMain == \A w \in Warehouses : ~(Live(w) /\ warehouse[w].main /\ warehouse[w].active)

NoMain == \A w \in Warehouses : ~(Live(w) /\ warehouse[w].main)

\* createWarehouse: one main warehouse, and no two of a name.
BeginCreate(c, w, main) ==
  /\ warehouse[w].state = "none"
  /\ main => NoMain
  /\ Begins(c, [op |-> "create", w |-> w, main |-> main])

CreateWarehouse(c) ==
  /\ desk[c].op = "create"
  /\ warehouse' = [warehouse EXCEPT ![desk[c].w] = [state |-> "live", main |-> desk[c].main, active |-> TRUE]]
  /\ Ends(c)
  /\ UNCHANGED <<inventory, batch, transfer, allocated, received, moved>>

SetActive(w, active) ==
  /\ Live(w)
  /\ warehouse' = [warehouse EXCEPT ![w].active = active]
  /\ UNCHANGED <<inventory, batch, transfer, allocated, desk, received, moved>>

DeactivateWarehouse(w) == ~warehouse[w].main /\ SetActive(w, FALSE)
ActivateWarehouse(w) == SetActive(w, TRUE)

\* updateWarehouse, which takes isActive as well, also of the main warehouse.
UpdateWarehouse(w) == \E active \in BOOLEAN : SetActive(w, active)

Pending(w) ==
  \E t \in DOMAIN transfer : /\ transfer[t].status = "PENDING"
                             /\ w \in {transfer[t].to, inventory[transfer[t].inventory].at}

Stocked(w) == \E b \in DOMAIN batch : batch[b].left > 0 /\ inventory[batch[b].inventory].at = w

\* Mutant of Deletable: a warehouse may be deleted with requests open.
DeletableWhenEmpty(w) == Live(w) /\ ~warehouse[w].main /\ ~Stocked(w)

Deletable(w) == Live(w) /\ ~warehouse[w].main /\ ~Stocked(w) /\ ~Pending(w)

BeginDelete(c, w) == Deletable(w) /\ Begins(c, [op |-> "delete", w |-> w])

DeleteWarehouse(c) ==
  /\ desk[c].op = "delete"
  /\ warehouse' = [warehouse EXCEPT ![desk[c].w].state = "deleted"]
  /\ Ends(c)
  /\ UNCHANGED <<inventory, batch, transfer, allocated, received, moved>>

-----------------------------------------------------------------------------
(* Inventories *)

Row(i, price, n) == [inventory |-> i, price |-> price, left |-> n]

\* createInventory, in the active main warehouse; its batch is written next,
\* and missing when that fails.
CreateInventory(x, price, n) ==
  /\ Len(inventory) < MaxInventories /\ Len(batch) < MaxBatches
  /\ \E w \in Warehouses :
       /\ warehouse[w].main /\ warehouse[w].active
       /\ inventory' = Append(inventory, [item |-> x, at |-> w, hidden |-> FALSE])
  /\ \/ UNCHANGED <<batch, received>>
     \/ /\ batch' = Append(batch, Row(Len(inventory) + 1, price, n))
        /\ received' = [received EXCEPT ![x] = @ + n]
  /\ UNCHANGED <<warehouse, transfer, allocated, desk, moved>>

\* createInventoryBatch, of an inventory in any warehouse.
CreateInventoryBatch(i, price, n) ==
  /\ i \in DOMAIN inventory /\ ~inventory[i].hidden
  /\ Len(batch) < MaxBatches
  /\ batch' = Append(batch, Row(i, price, n))
  /\ received' = [received EXCEPT ![inventory[i].item] = @ + n]
  /\ UNCHANGED <<warehouse, inventory, transfer, allocated, desk, moved>>

ToggleHideInventory(i) ==
  /\ i \in DOMAIN inventory
  /\ inventory' = [inventory EXCEPT ![i].hidden = ~@]
  /\ UNCHANGED <<warehouse, batch, transfer, allocated, desk, received, moved>>

-----------------------------------------------------------------------------
(* Transfers *)

\* createTransferRequest: from the main warehouse, to any active one.
BeginRequest(c, i, w, n) ==
  /\ i \in DOMAIN inventory /\ ~inventory[i].hidden
  /\ LET from == warehouse[inventory[i].at]
     IN  from.state = "live" /\ from.main /\ from.active
  /\ Live(w) /\ warehouse[w].active
  /\ UnitsOf(batch, i) >= n
  /\ Begins(c, [op |-> "request", i |-> i, w |-> w])

CreateTransferRequest(c) ==
  /\ desk[c].op = "request"
  /\ Len(transfer) < MaxTransfers
  /\ transfer' = Append(transfer, [inventory |-> desk[c].i, to |-> desk[c].w,
                                   done |-> 0, status |-> "PENDING"])
  /\ moved' = Append(moved, 0)
  /\ Ends(c)
  /\ UNCHANGED <<warehouse, inventory, batch, allocated, received>>

\* Mutant of Fulfillable: only a rejected request is refused.
FulfillableAgain(t) == transfer[t].status # "REJECTED"

Fulfillable(t) == transfer[t].status \notin {"FULFILLED", "REJECTED"}

\* fulfillTransferRequest, of any quantity there is, hidden or not: the
\* batches are chosen by the reading ...
BeginFulfil(c, t, n) ==
  /\ t \in DOMAIN transfer /\ Fulfillable(t)
  /\ n <= UnitsOf(batch, transfer[t].inventory)
  /\ Begins(c, [op |-> "fulfil", t |-> t, quantity |-> n, take |-> Take(batch, transfer[t].inventory, n)])

\* Mutant of MoveBatch: the destination's batch gets what is left over.
MoveRemainder(rows, b, n, to) ==
  IF n = 0 THEN rows
  ELSE Append([rows EXCEPT ![b].left = @ - n], Row(to, rows[b].price, rows[b].left - n))

\* Units of a batch go to the destination's batch of that price, or a new one.
MoveBatch(rows, b, n, to) ==
  LET less == [rows EXCEPT ![b].left = @ - n]
      same == {d \in DOMAIN less : less[d].inventory = to /\ less[d].price = less[b].price}
  IN  IF n = 0 THEN rows
      ELSE IF same = {} THEN Append(less, Row(to, less[b].price, n))
      ELSE [less EXCEPT ![Min(same)].left = @ + n]

\* The rows after the batches of take were moved, one after the other.
MoveAll(rows, take, to) ==
  LET after[b \in 0 .. Len(take)] == IF b = 0 THEN rows ELSE MoveBatch(after[b - 1], b, take[b], to)
  IN  after[Len(take)]

\* ... and moved by a transaction, to the visible inventory of that item at
\* the destination, made if there is none.
FulfillTransferRequest(c) ==
  /\ desk[c].op = "fulfil"
  /\ LET t == desk[c].t
         item == inventory[transfer[t].inventory].item
         there == {i \in DOMAIN inventory : inventory[i].item = item /\ inventory[i].at = transfer[t].to
                                            /\ ~inventory[i].hidden}
         to == IF there = {} THEN Len(inventory) + 1 ELSE Min(there)
     IN  /\ to <= MaxInventories
         /\ inventory' = IF there # {} THEN inventory
                         ELSE Append(inventory, [item |-> item, at |-> transfer[t].to, hidden |-> FALSE])
         /\ batch' = MoveAll(batch, desk[c].take, to)
         /\ Len(batch') <= MaxBatches
         /\ transfer' = [transfer EXCEPT ![t].status = "FULFILLED", ![t].done = desk[c].quantity]
         /\ moved' = [moved EXCEPT ![t] = @ + SumFunction(desk[c].take)]
  /\ Ends(c)
  /\ UNCHANGED <<warehouse, allocated, received>>

BeginReject(c, t) ==
  /\ t \in DOMAIN transfer /\ transfer[t].status = "PENDING"
  /\ Begins(c, [op |-> "reject", t |-> t])

RejectTransferRequest(c) ==
  /\ desk[c].op = "reject"
  /\ transfer' = [transfer EXCEPT ![desk[c].t].status = "REJECTED"]
  /\ Ends(c)
  /\ UNCHANGED <<warehouse, inventory, batch, allocated, received, moved>>

-----------------------------------------------------------------------------
(* Sales *)

\* createSale validates the quantities and chooses the batches; it asks
\* neither where they are nor whether they are hidden ...
BeginSale(c, s, items) ==
  /\ allocated[s] = Nothing
  /\ \A n \in DOMAIN items : \A m \in DOMAIN Uses[items[n].product] :
       Uses[items[n].product][m].inventory \in DOMAIN inventory
  /\ Accepts(items, batch)
  /\ Begins(c, [op |-> "sell", s |-> s, take |-> TakenBySale(items, batch)])

\* ... and decrements them.
CreateSale(c) ==
  /\ desk[c].op = "sell"
  /\ allocated' = [allocated EXCEPT ![desk[c].s] = desk[c].take]
  /\ batch' = [b \in DOMAIN batch |->
                 IF b \in DOMAIN desk[c].take THEN [batch[b] EXCEPT !.left = @ - desk[c].take[b]] ELSE batch[b]]
  /\ Ends(c)
  /\ UNCHANGED <<warehouse, inventory, transfer, received, moved>>

\* undoSaleCreation puts them back.
UndoSaleCreation(s) ==
  /\ allocated[s] # Nothing
  /\ \A c \in Clerks : ~(desk[c].op = "sell" /\ desk[c].s = s)
  /\ batch' = [b \in DOMAIN batch |->
                 IF b \in DOMAIN allocated[s] THEN [batch[b] EXCEPT !.left = @ + allocated[s][b]] ELSE batch[b]]
  /\ allocated' = [allocated EXCEPT ![s] = Nothing]
  /\ UNCHANGED <<warehouse, inventory, transfer, desk, received, moved>>

StockNext ==
  \/ \E c \in Clerks :
       \/ \E w \in Warehouses, main \in BOOLEAN : BeginCreate(c, w, main)
       \/ CreateWarehouse(c)
       \/ \E w \in Warehouses : BeginDelete(c, w)
       \/ DeleteWarehouse(c)
       \/ \E i \in DOMAIN inventory, w \in Warehouses, n \in Quantities : BeginRequest(c, i, w, n)
       \/ CreateTransferRequest(c)
       \/ \E t \in DOMAIN transfer, n \in Quantities : BeginFulfil(c, t, n)
       \/ FulfillTransferRequest(c)
       \/ \E t \in DOMAIN transfer : BeginReject(c, t)
       \/ RejectTransferRequest(c)
       \/ \E s \in SaleIds, items \in Orders : BeginSale(c, s, items)
       \/ CreateSale(c)
  \/ \E w \in Warehouses : DeactivateWarehouse(w) \/ ActivateWarehouse(w) \/ UpdateWarehouse(w)
  \/ \E x \in Items, price \in Prices, n \in Deliveries : CreateInventory(x, price, n)
  \/ \E i \in DOMAIN inventory, price \in Prices, n \in Deliveries : CreateInventoryBatch(i, price, n)
  \/ \E i \in DOMAIN inventory : ToggleHideInventory(i)
  \/ \E s \in SaleIds : UndoSaleCreation(s)

StockSpec == StockInit /\ [][StockNext]_stockVars

-----------------------------------------------------------------------------
(* Properties *)

\* Every unit that was stocked is in one batch of one warehouse or in one
\* sale: transfers, sales and reversals neither lose nor invent any, and take
\* from no batch more than it has.
StockConserved ==
  /\ StockTypeOK
  /\ \A x \in Items :
       LET held == {b \in DOMAIN batch : inventory[batch[b].inventory].item = x}
       IN  received[x] = SumFunction([b \in held |-> batch[b].left])
             + SumFunction([s \in SaleIds |-> SumFunction([b \in held \cap DOMAIN allocated[s] |-> allocated[s][b]])])
  /\ \A b \in DOMAIN batch : batch[b].left >= 0

\* A fulfilled transfer has moved what its row says, once, and any other
\* transfer nothing.
TransferMovesOnce ==
  \A t \in DOMAIN transfer :
    moved[t] = IF transfer[t].status = "FULFILLED" THEN transfer[t].done ELSE 0

\* There is one main warehouse at most, and no transfer waits for a warehouse
\* that was deleted (createWarehouse, deleteWarehouse).
WarehousesInOrder ==
  /\ \A v, w \in Warehouses : Live(v) /\ Live(w) /\ warehouse[v].main /\ warehouse[w].main => v = w
  /\ \A t \in DOMAIN transfer : transfer[t].status = "PENDING" => Live(transfer[t].to)

=============================================================================
