--------------------------- MODULE MCBackOffice ---------------------------
(***************************************************************************)
(* The instance of BackOffice for the model checker.                       *)
(***************************************************************************)
EXTENDS BackOffice

CONSTANTS k1, k2, r1, r2, g1, g2, g3

\* One clerk registers, changes and rejects in bulk; the other resubmits.
ServesTwo == [k \in CustomerClerks |-> IF k = k1 THEN {"create", "update", "bulkReject"} ELSE {"resubmit"}]

\* What takes addresses runs alone, and so does a resubmission beside another
\* or beside an approval.
Together ==
  {{a, b} : a, b \in CustomerOp}
    \ {{"create"}, {"update"}, {"create", "update"}, {"resubmit"}, {"resubmit", "approve"}, {"resubmit", "bulkApprove"}}

\* Two rows of the same names and agent, of which one has a device that is
\* known; a customer with the names and the phone of the first may exist.
TwoRows == [r \in Rows |->
  [agent |-> "ann", names |-> "Joy Obi", phone |-> IF r = r1 THEN "1" ELSE "2", device |-> IF r = r1 THEN "known" ELSE "new"]]
TheFirst == {[names |-> "Joy Obi", phone |-> "1", imported |-> FALSE]}

\* Three devices, of which two are of one sale.
TwoSales == [d \in CodeDevices |-> IF d = g3 THEN "sold later" ELSE "sold first"]
TwoOrThree == [d \in CodeDevices |-> IF d = g1 THEN 3 ELSE 2]

=============================================================================
