--------------------------- MODULE MCSaleCreation ---------------------------
(***************************************************************************)
(* The sales the model checker explores SaleCreation with: two of the      *)
(* agent that share a device, one of them on a plan, and one of the office *)
(* that shares the other device and the stock.                             *)
(***************************************************************************)
EXTENDS SaleCreation

CONSTANTS plan, oneOff, online, d1, d2

QuantityOf == [s \in Sales |-> IF s = online THEN 1 ELSE 2]
AmountOf == [s \in Sales |-> IF s = plan THEN 2 ELSE 3]
DevicesIn == [s \in Sales |-> IF s = online THEN {d2} ELSE IF s = plan THEN {d1, d2} ELSE {d1}]
TwoBatches == [b \in 1 .. 2 |-> IF b = 1 THEN 1 ELSE 2]

=============================================================================
