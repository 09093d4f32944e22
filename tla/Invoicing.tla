----------------------------- MODULE Invoicing -----------------------------
(***************************************************************************)
(* The invoices of a sale: its master invoice, the sub-invoices it is      *)
(* split into, the payments made on them or on the sale itself, and the    *)
(* receipts.  An invoice row caches what is paid and a status; requests    *)
(* read payments, and write the cache in a later step.                     *)
(*                                                                         *)
(* SENT stands for SENT and OVERDUE, which a due date tells apart.         *)
(***************************************************************************)
EXTENDS Integers, Sequences, FiniteSetsExt

CONSTANTS
  Price,         \* what the sale costs
  TaxRate,       \* percent
  Amounts,       \* bound: what a payment or a sub-invoice may amount to
  Clerks,        \* requests and jobs running at the same time
  Serves,        \* bound: the operations each of them may run
  Overlap,       \* the pairs of operations that may overlap
  Careful,       \* the staff wait for open payments and name the right rows
  MaxInvoices, MaxInvoicePayments   \* bounds

Op == {"master", "sub", "void", "pay", "job", "view", "receipt"}

ASSUME InvoicingAssumption ==
  /\ Price \in Nat \ {0} /\ TaxRate \in Nat /\ Amounts \subseteq Nat \ {0}
  /\ Serves \in [Clerks -> SUBSET Op] /\ Overlap \subseteq SUBSET Op
  /\ Careful \in BOOLEAN /\ MaxInvoices \in Nat /\ MaxInvoicePayments \in Nat

VARIABLES
  invoice,   \* rows in the order of their creation
  payment,   \* rows in the order of their creation; invoice and receipt are 0 when there is none
  desk,      \* what each running request has read, and the step it is at
  threw      \* whether a payment's side effects ever failed

invoiceVars == <<invoice, payment, desk, threw>>

Status == {"SENT", "PARTIALLY_PAID", "PAID", "VOID"}
InvoiceStep == {"create", "record", "online", "derive", "write", "post", "postWrite",
         "find", "link", "sum", "sync", "receipt"}

Task == [op : Op, step : InvoiceStep, on : Nat, pay : Nat, n : Nat, saw : Nat, status : Status]
Idle == [op |-> "none"]

InvoiceTypeOK ==
  /\ invoice \in Seq([parent : 0 .. Len(invoice), number : Nat, total : Nat, paid : Nat, status : Status])
  /\ payment \in Seq([invoice : 0 .. Len(invoice), amount : Nat, receipt : 0 .. Len(invoice),
                      status : {"PENDING", "COMPLETED"}])
  /\ desk \in [Clerks -> Task \cup {Idle}]
  /\ threw \in BOOLEAN

InvoiceInit ==
  /\ invoice = <<>>
  /\ payment = <<>>
  /\ desk = [c \in Clerks |-> Idle]
  /\ threw = FALSE

-----------------------------------------------------------------------------
(* Requests *)

MayRun(op) == \A c \in Clerks : desk[c] = Idle \/ {op, desk[c].op} \in Overlap

Takes(c, op, step, i, p, n, saw) ==
  /\ desk[c] = Idle /\ op \in Serves[c] /\ MayRun(op)
  /\ desk' = [desk EXCEPT ![c] =
       [op |-> op, step |-> step, on |-> i, pay |-> p, n |-> n, saw |-> saw,
        status |-> IF i = 0 THEN "SENT" ELSE invoice[i].status]]

At(c, step) == desk[c] # Idle /\ desk[c].step = step
Goes(c, step) == desk' = [desk EXCEPT ![c].step = step]
Ends(c) == desk' = [desk EXCEPT ![c] = Idle]

-----------------------------------------------------------------------------
(* What is paid *)

Completed == {p \in DOMAIN payment : payment[p].status = "COMPLETED"}
Total(P) == SumFunction([p \in P |-> payment[p].amount])
LinkedTo(I) == {p \in Completed : payment[p].invoice \in I}

IsMaster(i) == invoice[i].parent = 0
Subs(i) == {s \in DOMAIN invoice : invoice[s].parent = i}
Active(I) == {i \in I : invoice[i].status # "VOID"}
Masters == {i \in DOMAIN invoice : IsMaster(i)}

\* deriveInvoiceAmounts: a master counts its sub-invoices' payments, and the
\* sale's payments that no invoice has yet.
DeriveInvoiceAmounts(i) == Total(LinkedTo(IF IsMaster(i) THEN {i, 0} \cup Subs(i) ELSE {i}))

PaidStatus(paid, total) == IF paid >= total THEN "PAID" ELSE IF paid > 0 THEN "PARTIALLY_PAID" ELSE "SENT"

DeriveStatus(status, paid, total) == IF status = "VOID" THEN "VOID" ELSE PaidStatus(paid, total)

Caches(i, paid, status) == invoice' = [invoice EXCEPT ![i].paid = paid, ![i].status = status]

WithTax(n) == n + (n * TaxRate) \div 100

Pending == {p \in DOMAIN payment : payment[p].status = "PENDING"}
Split == \E i \in Active(DOMAIN invoice) : ~IsMaster(i)
NothingOpen == Careful => Pending = {}

-----------------------------------------------------------------------------
(* Invoices *)

\* Mutant of NoMaster: only a master invoice that is not paid up is in the way.
NoOpenMaster == \A m \in Active(Masters) : invoice[m].status = "PAID"

NoMaster == Active(Masters) = {}

\* Mutant of Row: the status is left to the schema's default.
DraftRow(parent, number, n) == [parent |-> parent, number |-> number, total |-> WithTax(n), paid |-> 0, status |-> "DRAFT"]

Row(parent, number, n) == [parent |-> parent, number |-> number, total |-> WithTax(n), paid |-> 0, status |-> "SENT"]

\* generateMasterInvoice, which ends in a sync of its own.
BeginMaster(c) ==
  /\ NoMaster /\ Len(invoice) < MaxInvoices
  /\ Takes(c, "master", "create", 0, 0, 0, 0)
  /\ UNCHANGED <<invoice, payment, threw>>

GenerateMasterInvoice(c) ==
  /\ At(c, "create") /\ desk[c].op = "master"
  /\ Len(invoice) < MaxInvoices
  /\ invoice' = Append(invoice, Row(0, 0, Price))
  /\ Goes(c, "find")
  /\ UNCHANGED <<payment, threw>>

\* Mutant of Available: what was paid on the master does not count.
AvailableUnpaid(m) == invoice[m].total - SumFunction([s \in Active(Subs(m)) |-> invoice[s].total])

Available(m) ==
  invoice[m].total - DeriveInvoiceAmounts(m) - SumFunction([s \in Active(Subs(m)) |-> invoice[s].total])

\* createSubInvoice: the amount is compared before tax, and the number, which
\* must be unique, counts the sub-invoices that are not voided.
BeginSub(c, m, n) ==
  /\ m \in Active(Masters) /\ n <= Available(m) /\ NothingOpen
  /\ Takes(c, "sub", "create", m, 0, n, Cardinality(Active(Subs(m))) + 1)
  /\ UNCHANGED <<invoice, payment, threw>>

CreateSubInvoice(c) ==
  LET m == desk[c].on  number == desk[c].saw IN
  /\ At(c, "create") /\ desk[c].op = "sub"
  /\ \/ /\ \E s \in Subs(m) : invoice[s].number = number
        /\ UNCHANGED invoice
     \/ /\ \A s \in Subs(m) : invoice[s].number # number
        /\ Len(invoice) < MaxInvoices
        /\ invoice' = Append(invoice, Row(m, number, desk[c].n))
  /\ Ends(c)
  /\ UNCHANGED <<payment, threw>>

\* Mutant of Voidable: an invoice may be voided after a first payment.
VoidableUnlessPaid(i) == invoice[i].status \notin {"VOID", "PAID"}

Voidable(i) == invoice[i].status # "VOID" /\ DeriveInvoiceAmounts(i) = 0

\* voidInvoice, with the sub-invoices it read.
BeginVoid(c, i) ==
  /\ Voidable(i) /\ NothingOpen
  /\ Takes(c, "void", "write", i, 0, 0, Len(invoice))
  /\ UNCHANGED <<invoice, payment, threw>>

VoidInvoice(c) ==
  /\ At(c, "write") /\ desk[c].op = "void"
  /\ LET voided == {desk[c].on} \cup (Subs(desk[c].on) \cap 1 .. desk[c].saw) IN
     invoice' = [i \in DOMAIN invoice |-> IF i \in voided THEN [invoice[i] EXCEPT !.status = "VOID"] ELSE invoice[i]]
  /\ Ends(c)
  /\ UNCHANGED <<payment, threw>>

-----------------------------------------------------------------------------
(* Payments *)

NewPayment(i, n, status) ==
  /\ Len(payment) < MaxInvoicePayments
  /\ payment' = Append(payment, [invoice |-> i, amount |-> n, receipt |-> 0, status |-> status])

\* Mutant of Payable: a voided invoice may be paid.
PayableVoided(i) == Active(Subs(i)) = {}

Payable(i) == invoice[i].status # "VOID" /\ Active(Subs(i)) = {}

\* payInvoice, in cash, from a wallet, or online.
BeginPay(c, i, n) ==
  /\ Payable(i) /\ NothingOpen
  /\ n <= invoice[i].total - DeriveInvoiceAmounts(i)
  /\ \E step \in {"record", "online"} : Takes(c, "pay", step, i, 0, n, 0)
  /\ UNCHANGED <<invoice, payment, threw>>

\* generatePaymentPayload: the payment waits for the gateway.
GeneratePaymentPayload(c) ==
  /\ At(c, "online")
  /\ NewPayment(desk[c].on, desk[c].n, "PENDING")
  /\ Ends(c)
  /\ UNCHANGED <<invoice, threw>>

\* The transaction of payInvoice, or its failure.
PayInvoice(c) ==
  /\ At(c, "record")
  /\ \/ /\ NewPayment(desk[c].on, desk[c].n, "COMPLETED")
        /\ desk' = [desk EXCEPT ![c].step = "derive", ![c].pay = Len(payment) + 1]
     \/ UNCHANGED payment /\ Ends(c)
  /\ UNCHANGED <<invoice, threw>>

PayDerives(c) ==
  /\ At(c, "derive")
  /\ desk' = [desk EXCEPT ![c].step = "write", ![c].saw = DeriveInvoiceAmounts(desk[c].on)]
  /\ UNCHANGED <<invoice, payment, threw>>

PayWrites(c) ==
  /\ At(c, "write") /\ desk[c].op = "pay"
  /\ LET i == desk[c].on IN Caches(i, desk[c].saw, DeriveStatus(desk[c].status, desk[c].saw, invoice[i].total))
  /\ Goes(c, "post")
  /\ UNCHANGED <<payment, threw>>

\* The sale itself is paid, without an invoice.
SaleOwes(n) ==
  /\ Total(Completed) + n <= Price
  /\ NothingOpen /\ (Careful => ~Split)

PaySale(c, n) ==
  /\ SaleOwes(n)
  /\ NewPayment(0, n, "COMPLETED")
  /\ Takes(c, "job", "post", 0, Len(payment) + 1, 0, 0)
  /\ UNCHANGED <<invoice, threw>>

PaySaleOnline(n) ==
  /\ SaleOwes(n) /\ MayRun("pay")
  /\ NewPayment(0, n, "PENDING")
  /\ UNCHANGED <<invoice, desk, threw>>

\* The gateway confirms a payment, whenever it likes.
Confirm(c, p) ==
  /\ p \in Pending
  /\ payment' = [payment EXCEPT ![p].status = "COMPLETED"]
  /\ Takes(c, "job", "post", payment[p].invoice, p, 0, 0)
  /\ UNCHANGED <<invoice, threw>>

-----------------------------------------------------------------------------
(* What follows a payment: handlePostPayment, and the sync it ends in *)

PostDerives(c) ==
  /\ At(c, "post")
  /\ desk' = IF desk[c].on = 0 THEN [desk EXCEPT ![c].step = "find"]
             ELSE [desk EXCEPT ![c].step = "postWrite", ![c].saw = Total(LinkedTo({desk[c].on} \cup Subs(desk[c].on)))]
  /\ UNCHANGED <<invoice, payment, threw>>

\* The status of the invoice is not looked at, voided or not.
PostWrites(c) ==
  /\ At(c, "postWrite")
  /\ Caches(desk[c].on, desk[c].saw, PaidStatus(desk[c].saw, invoice[desk[c].on].total))
  /\ Goes(c, "find")
  /\ UNCHANGED <<payment, threw>>

\* The sale's own side effects throw: the request ends, a job is tried again.
PostThrows(c) ==
  /\ At(c, "find") /\ desk[c].op \in {"pay", "job"}
  /\ threw' = TRUE
  /\ Ends(c) \/ (desk[c].op = "job" /\ Goes(c, "post"))
  /\ UNCHANGED <<invoice, payment>>

\* syncSalePaymentsToMasterInvoice; a view, getInvoicesBySale, is one too.
View(c) ==
  /\ Takes(c, "view", "find", 0, 0, 0, 0)
  /\ UNCHANGED <<invoice, payment, threw>>

\* A payment on an invoice ends with that invoice's receipt.
Synced(c) == IF desk[c].op = "pay" THEN Goes(c, "receipt") ELSE Ends(c)

\* Mutant of NothingToSync: a payment that has its invoice is not synced.
UnlessUnlinked(c) == NoMaster \/ desk[c].on # 0

NothingToSync(c) == NoMaster

SyncFinds(c) ==
  /\ At(c, "find")
  /\ \/ NothingToSync(c) /\ Synced(c)
     \/ \E m \in Active(Masters) :
          desk' = [desk EXCEPT ![c].step = "link", ![c].n = m, ![c].status = invoice[m].status]
  /\ UNCHANGED <<invoice, payment, threw>>

SyncLinks(c) ==
  /\ At(c, "link")
  /\ payment' = [p \in DOMAIN payment |->
       IF p \in LinkedTo({0}) THEN [payment[p] EXCEPT !.invoice = desk[c].n] ELSE payment[p]]
  /\ Goes(c, "sum")
  /\ UNCHANGED <<invoice, threw>>

SyncSums(c) ==
  /\ At(c, "sum")
  /\ desk' = [desk EXCEPT ![c].step = "sync", ![c].saw = DeriveInvoiceAmounts(desk[c].n)]
  /\ UNCHANGED <<invoice, payment, threw>>

\* maybeAutoGenerateReceipt, when the settings ask for it and it does not fail.
Receipted(P, i) ==
  payment' = [p \in DOMAIN payment |->
    IF p \in P /\ payment[p].receipt = 0 THEN [payment[p] EXCEPT !.receipt = i] ELSE payment[p]]

SyncWrites(c) ==
  LET m == desk[c].n IN
  /\ At(c, "sync")
  /\ Caches(m, desk[c].saw, DeriveStatus(desk[c].status, desk[c].saw, invoice[m].total))
  /\ \/ desk[c].op # "view" /\ Receipted(LinkedTo({m}), m)
     \/ UNCHANGED payment
  /\ Synced(c)
  /\ UNCHANGED threw

PayReceipt(c) ==
  /\ At(c, "receipt") /\ desk[c].op = "pay"
  /\ Receipted({desk[c].pay}, desk[c].on) \/ UNCHANGED payment
  /\ Ends(c)
  /\ UNCHANGED <<invoice, threw>>

-----------------------------------------------------------------------------
(* Receipts *)

\* Mutant of LinkAndReceipt: the payment is not linked.
ReceiptOnly(p, i, saw) == [payment[p] EXCEPT !.receipt = IF @ = 0 THEN i ELSE @]

LinkAndReceipt(p, i, saw) ==
  [payment[p] EXCEPT !.invoice = IF saw = 0 THEN i ELSE @, !.receipt = IF @ = 0 THEN i ELSE @]

\* generateReceiptForInvoice: of any completed payment that is named, or of
\* the invoice's or the sale's latest; a payment without an invoice joins this one.
BeginReceipt(c, i, p) ==
  /\ p \in Completed
  /\ Careful => invoice[i].status # "VOID" /\ p \in LinkedTo({i, 0})
  /\ Takes(c, "receipt", "receipt", i, p, 0, payment[p].invoice)
  /\ UNCHANGED <<invoice, payment, threw>>

GenerateReceiptForInvoice(c) ==
  /\ At(c, "receipt") /\ desk[c].op = "receipt"
  /\ payment' = [payment EXCEPT ![desk[c].pay] = LinkAndReceipt(desk[c].pay, desk[c].on, desk[c].saw)]
  /\ Ends(c)
  /\ UNCHANGED <<invoice, threw>>

-----------------------------------------------------------------------------

InvoiceNext ==
  \/ \E n \in Amounts : PaySaleOnline(n)
  \/ \E c \in Clerks :
       \/ BeginMaster(c) \/ GenerateMasterInvoice(c) \/ CreateSubInvoice(c) \/ VoidInvoice(c)
       \/ GeneratePaymentPayload(c) \/ PayInvoice(c) \/ PayDerives(c) \/ PayWrites(c)
       \/ PostDerives(c) \/ PostWrites(c) \/ PostThrows(c)
       \/ View(c) \/ SyncFinds(c) \/ SyncLinks(c) \/ SyncSums(c) \/ SyncWrites(c) \/ PayReceipt(c)
       \/ GenerateReceiptForInvoice(c)
       \/ \E n \in Amounts : PaySale(c, n)
       \/ \E p \in DOMAIN payment : Confirm(c, p)
       \/ \E i \in DOMAIN invoice : \/ BeginVoid(c, i)
                                    \/ \E n \in Amounts : BeginSub(c, i, n) \/ BeginPay(c, i, n)
                                    \/ \E p \in DOMAIN payment : BeginReceipt(c, i, p)

InvoiceSpec == InvoiceInit /\ [][InvoiceNext]_invoiceVars

-----------------------------------------------------------------------------
(* Properties *)

\* A voided invoice stays voided: no payment, sync or view brings it back
\* (payInvoice refuses one).
VoidIsFinal == [][\A i \in DOMAIN invoice : invoice[i].status = "VOID" => invoice'[i].status = "VOID"]_invoiceVars

\* The invoices of a sale add up.  It never has two active masters, what is
\* paid on a master and what its sub-invoices still ask for fit in its total,
\* and every completed payment of the sale counts in it: splitting asks for no
\* more than the sale costs, and no payment is left on an invoice that was
\* voided (generateMasterInvoice, createSubInvoice, voidInvoice, payInvoice).
InvoicesAddUp ==
  /\ InvoiceTypeOK
  /\ \A i, j \in Active(Masters) : i = j
  /\ \A m \in Active(Masters) :
       /\ DeriveInvoiceAmounts(m)
            + SumFunction([s \in Active(Subs(m)) |-> Max({0, invoice[s].total - DeriveInvoiceAmounts(s)})])
          <= invoice[m].total
       /\ DeriveInvoiceAmounts(m) = Total(Completed)

Quiet == \A c \in Clerks : desk[c] = Idle

\* Once no request runs, the cached amount and status of every active invoice,
\* which getInvoiceStats and the lists filter by, are what its payments say,
\* unless the side effects of a payment failed; and a receipt is always of the
\* invoice its payment was made on.
CacheAgrees ==
  /\ Quiet /\ ~threw =>
       \A i \in Active(DOMAIN invoice) :
         LET paid == DeriveInvoiceAmounts(i) IN
         invoice[i].paid = paid /\ invoice[i].status = PaidStatus(paid, invoice[i].total)
  /\ \A p \in DOMAIN payment : payment[p].receipt \in {0, payment[p].invoice}

=============================================================================
