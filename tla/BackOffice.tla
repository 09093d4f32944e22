----------------------------- MODULE BackOffice ----------------------------
(***************************************************************************)
(* How customers, past sales and codes get in, and which sale a device is  *)
(* in: the approval of customers, the import of a file, the correction of  *)
(* missing payments, the codes of an uploaded batch, and the requests that *)
(* take devices.                                                           *)
(*                                                                         *)
(* The approval and the import write rows of one table, but each needs     *)
(* only some of its columns: the import finds customers by names and       *)
(* phone, which no review changes, and what it adds is an action of the    *)
(* approval (ImportCustomer).  The others share nothing: the correction    *)
(* works on sales that exist, and no import gets as far as a sale.  So one *)
(* of them is chosen, and it alone moves.                                  *)
(***************************************************************************)
EXTENDS CustomerApproval, CsvImport, PaymentCorrection, TokenBatch, DeviceSales

VARIABLE part    \* the one that moves

Part == {"customers", "import", "correction", "batch", "sales"}

vars == <<customerVars, importVars, correctionVars, batchVars, saleVars, part>>

Init ==
  /\ part \in Part
  /\ CustomerInit /\ ImportInit /\ CorrectionInit /\ BatchInit /\ SalesInit
  \* the ones that rest need no choice of their initial states
  /\ part # "import" => people = << >>
  /\ part # "correction" => \A s \in Sold : payments[s] = 0

Next ==
  /\ UNCHANGED part
  /\ \/ part = "customers" /\ CustomerNext /\ UNCHANGED <<importVars, correctionVars, batchVars, saleVars>>
     \/ part = "import" /\ ImportNext /\ UNCHANGED <<customerVars, correctionVars, batchVars, saleVars>>
     \/ part = "correction" /\ CorrectionNext /\ UNCHANGED <<customerVars, importVars, batchVars, saleVars>>
     \/ part = "batch" /\ BatchNext /\ UNCHANGED <<customerVars, importVars, correctionVars, saleVars>>
     \/ part = "sales" /\ SalesNext /\ UNCHANGED <<customerVars, importVars, correctionVars, batchVars>>

Spec == Init /\ [][Next]_vars

=============================================================================
