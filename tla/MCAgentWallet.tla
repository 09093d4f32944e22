--------------------------- MODULE MCAgentWallet ---------------------------
(***************************************************************************)
(* The top-ups and amounts the model checker explores AgentWallet with.    *)
(***************************************************************************)
EXTENDS AgentWallet

CONSTANTS p1, o1

AmountOf == [ref \in TopUps |-> IF ref = o1 THEN 3 ELSE 2]
SmallCredits == {2}
SmallDebits == {1, 3}

=============================================================================
