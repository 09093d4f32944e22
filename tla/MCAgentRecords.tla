--------------------------- MODULE MCAgentRecords --------------------------
(***************************************************************************)
(* The requests and overlaps the model checker explores AgentRecords with. *)
(***************************************************************************)
EXTENDS AgentRecords

CONSTANTS c1, c2

\* Two sales agents, of whom one installs as well.
Three == {<<"ann", "SALES">>, <<"bob", "SALES">>, <<"bob", "INSTALLER">>}

\* Whoever moves customers is beside all but a merge, and so is who creates
\* agents and tops up wallets.
ServesSome == [c \in Clerks |-> IF c = c1 THEN Op \ {"moveCustomers"} ELSE {"moveCustomers"}]
ServesAll == [c \in Clerks |-> Op]
Together ==
  {{a, b} : a \in {"assign", "reassign", "bulk", "unassign", "moveCustomers"}, b \in {"create", "topUp", "moveCustomers"}}

\* Three accounts of one category, two of which may be merged into the third.
Sellers == {"ann", "bob", "cyd"} \X {"SALES"}

=============================================================================
