----------------------------- MODULE SaleStock -----------------------------
(***************************************************************************)
(* Stock of a sale: whether the inventories can supply the products of a   *)
(* sale (validateSaleProductQuantity), and the batches it is taken from    *)
(* (processBatches).  A product is made of so many units of one or several *)
(* inventories; an inventory is stocked in batches, the oldest used first. *)
(***************************************************************************)
EXTENDS Integers, Sequences, SequencesExt, FiniteSetsExt

CONSTANTS
  Products,
  Uses   \* ProductInventory: the inventories of each product, each once, and how many units

ASSUME SaleStockAssumption == Uses \in [Products -> Seq([inventory : Nat, units : Nat \ {0}])]

Least(a, b) == IF a < b THEN a ELSE b

\* A batch row: the inventory it belongs to, its price and what is left.
UnitsOf(rows, i) ==
  LET filled == {b \in DOMAIN rows : rows[b].inventory = i /\ rows[b].left > 0}
  IN  SumFunction([b \in filled |-> rows[b].left])

\* Mutant of Take: the loop is not left when enough was taken.
TakeOn(rows, i, need) ==
  [b \in DOMAIN rows |->
     IF rows[b].inventory # i \/ rows[b].left <= 0 THEN 0
     ELSE Least(rows[b].left, need - UnitsOf(SubSeq(rows, 1, b - 1), i))]

\* Mutant of Take: everything is taken from the oldest batch.
TakeOldest(rows, i, need) ==
  [b \in DOMAIN rows |->
     IF rows[b].inventory # i \/ rows[b].left <= 0 \/ UnitsOf(SubSeq(rows, 1, b - 1), i) > 0 THEN 0
     ELSE need]

\* Units a loop over the filled batches of i, oldest first, takes of each to
\* get need units.
Take(rows, i, need) ==
  [b \in DOMAIN rows |->
     IF rows[b].inventory # i \/ rows[b].left <= 0 THEN 0
     ELSE LET before == UnitsOf(SubSeq(rows, 1, b - 1), i)
          IN  IF before >= need THEN 0 ELSE Least(rows[b].left, need - before)]

-----------------------------------------------------------------------------
(* validateSaleProductQuantity *)

Parts(p) == {Uses[p][n] : n \in DOMAIN Uses[p]}
NoPromise == [i \in {use.inventory : use \in UNION {Parts(p) : p \in Products}} |-> 0]

\* An item of a sale is a product and how many of it.  taken: the units of
\* each inventory promised to the items before.
Suffices(item, rows, taken) ==
  \A use \in Parts(item.product) :
    (UnitsOf(rows, use.inventory) - taken[use.inventory]) \div use.units >= item.quantity

\* allocateInventory: as many whole products as an inventory can supply, until
\* all of them are supplied, by whatever inventories.
AllocateInventory(item, rows, taken) ==
  LET Promise(acc, use) ==
        LET need == use.units * item.quantity
            free == UnitsOf(rows, use.inventory) - taken[use.inventory]
            n == Least(acc.missing, free \div need)
        IN  IF acc.missing <= 0 THEN acc
            ELSE [missing |-> acc.missing - n, taken |-> [acc.taken EXCEPT ![use.inventory] = @ + n * need]]
  IN  FoldLeft(Promise, [missing |-> item.quantity, taken |-> taken], Uses[item.product]).taken

\* processProducts, over the items in their order, no product twice.
Accepts(items, rows) ==
  LET Process(acc, item) ==
        IF Suffices(item, rows, acc.taken)
        THEN [acc EXCEPT !.taken = AllocateInventory(item, rows, acc.taken)]
        ELSE [acc EXCEPT !.ok = FALSE]
  IN  /\ IsInjective([n \in DOMAIN items |-> items[n].product])
      /\ FoldLeft(Process, [ok |-> TRUE, taken |-> NoPromise], items).ok

\* processBatches: each item takes from the batches as they are, whatever the
\* other items take.
TakenBySale(items, rows) ==
  LET TakenByItem(item, b) ==
        SumFunction([use \in Parts(item.product) |-> Take(rows, use.inventory, use.units * item.quantity)[b]])
  IN  [b \in DOMAIN rows |-> SumFunction([n \in DOMAIN items |-> TakenByItem(items[n], b)])]

=============================================================================
