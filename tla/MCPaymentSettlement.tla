------------------------ MODULE MCPaymentSettlement ------------------------
(***************************************************************************)
(* The payments the model checker explores PaymentSettlement with.         *)
(***************************************************************************)
EXTENDS PaymentSettlement

CONSTANTS paystack, ogaranya, next1, next2, direct, invoice

KindOf == [p \in Payments |-> CASE p = paystack -> "PAYSTACK"
                                [] p = ogaranya -> "OGARANYA"
                                [] p = direct   -> "DIRECT"
                                [] p = invoice  -> "INVOICE"
                                [] OTHER        -> "NEXT"]

=============================================================================
