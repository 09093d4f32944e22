---------------------------- MODULE MCStockRoom ----------------------------
(***************************************************************************)
(* The products and orders the model checker explores StockRoom with.      *)
(***************************************************************************)
EXTENDS StockRoom

CONSTANTS lamp, kit, c1, c2

Use(i, n) == [inventory |-> i, units |-> n]
Item(p, n) == [product |-> p, quantity |-> n]

\* Of one inventory each, and the kit of two of its units.
OneEach == (lamp :> <<Use(2, 1)>>) @@ (kit :> <<Use(1, 2)>>)

Orderings == {<<Item(lamp, 2)>>, <<Item(kit, 1), Item(lamp, 1)>>}

\* One clerk's requests move or sell stock, the other's only prepare that.
ServedBy == [c \in Clerks |-> IF c = c1 THEN {"delete", "fulfil", "sell"} ELSE {"create", "request", "reject"}]
Together == {{a, b} : a \in {"fulfil", "sell"}, b \in {"create", "request"}} \cup {{"sell", "reject"}}

=============================================================================
