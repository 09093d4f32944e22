---------------------------- MODULE MCInvoicing ----------------------------
(***************************************************************************)
(* The clerks and the overlaps the model checker explores Invoicing with.  *)
(***************************************************************************)
EXTENDS Invoicing

CONSTANTS c1, c2

ServesAll == [c \in Clerks |-> Op]

\* A view is safe beside whatever makes no payment, links none and voids
\* nothing; two sub-invoices of one master at once get the same number, and
\* one of them fails.
Together ==
  {{"view", op} : op \in {"view", "master", "sub"}}
  \cup {{"sub", op} : op \in {"sub", "master", "receipt"}}
  \cup {{"void"}, {"void", "receipt"}}

=============================================================================
