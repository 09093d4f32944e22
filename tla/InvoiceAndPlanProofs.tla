------------------------ MODULE InvoiceAndPlanProofs ------------------------
(***************************************************************************)
(* What a sale is owed, in two parts, each proved about by itself.         *)
(*                                                                         *)
(* Invoicing, for any price, amounts, clerks and bounds, when the staff    *)
(* are Careful and only the operations of InvoicesApart overlap.           *)
(* InstallmentPlan, for every set of plans, number of retries, failure     *)
(* point and bound.                                                        *)
(***************************************************************************)
EXTENDS Invoicing, InstallmentPlan, SumTheorems, TLAPS

\* The operations that may overlap: a view with what makes no payment and voids
\* nothing, the creation of a sub-invoice with others, with the creation of the
\* master or with a receipt, and a void with voids or a receipt.
InvoicesApart ==
  Overlap \subseteq {{"view", op} : op \in {"view", "master", "sub"}}
                    \cup {{"sub", op} : op \in {"sub", "master", "receipt"}}
                    \cup {{"void"}, {"void", "receipt"}}

Working(c) == desk[c] # Idle

RequestsApart == \A c, d \in Clerks : c # d /\ Working(c) /\ Working(d) => {desk[c].op, desk[d].op} \in Overlap

-----------------------------------------------------------------------------
(* Rows *)

IsActive(i) == i \in DOMAIN invoice /\ invoice[i].status # "VOID"

\* The master of invoice i, or i itself, is active.
Alive(i) == i \in DOMAIN invoice /\ IF invoice[i].parent = 0 THEN IsActive(i) ELSE IsActive(invoice[i].parent)

\* One master is active, a sub-invoice is no master and not active without its
\* own, and no payment is left with a master that was voided.
RowsFit ==
  /\ \A i \in DOMAIN invoice : invoice[i].parent # 0 =>
       /\ invoice[invoice[i].parent].parent = 0
       /\ IsActive(i) => IsActive(invoice[i].parent)
  /\ \A i, j \in Active(Masters) : i = j
  /\ \A p \in DOMAIN payment :
       /\ payment[p].amount > 0
       /\ payment[p].invoice # 0 => Alive(payment[p].invoice)
       /\ payment[p].invoice # 0 /\ p \in Pending => IsActive(payment[p].invoice)

StepsOf(op) ==
  CASE op = "master"  -> {"create", "find", "link", "sum", "sync"}
    [] op = "sub"     -> {"create"}
    [] op = "void"    -> {"write"}
    [] op = "pay"     -> {"record", "online", "derive", "write", "post", "postWrite",
                          "find", "link", "sum", "sync", "receipt"}
    [] op = "job"     -> {"post", "postWrite", "find", "link", "sum", "sync"}
    [] op = "view"    -> {"find", "link", "sum", "sync"}
    [] op = "receipt" -> {"receipt"}
    [] OTHER          -> {}

\* What a request has read of the rows is still so.
TaskFits(t) ==
  /\ t.step \in StepsOf(t.op)
  /\ t.op = "master" /\ t.step = "create" => Active(Masters) = {}
  /\ t.op = "sub" => t.on \in Active(Masters) /\ Pending = {} /\ t.n \in Amounts
  /\ t.op = "void" => /\ t.on \in DOMAIN invoice /\ Pending = {} /\ t.saw = Len(invoice)
                      /\ IsMaster(t.on) => Completed = {}
  /\ t.op = "pay" =>
       /\ IsActive(t.on) /\ t.status # "VOID"
       /\ IF t.step \in {"record", "online"}
            THEN Active(Subs(t.on)) = {} /\ Pending = {} /\ t.n \in Amounts
            ELSE t.pay \in Completed /\ payment[t.pay].invoice = t.on
  /\ t.op = "job" => IF t.on = 0 THEN t.step # "postWrite" ELSE IsActive(t.on)
  /\ t.op = "receipt" => /\ Alive(t.on) /\ t.pay \in Completed
                         /\ payment[t.pay].invoice = t.saw /\ t.saw \in {0, t.on}
  /\ t.step \in {"link", "sum", "sync"} => t.n \in Active(Masters) /\ t.status # "VOID"

ActiveInv == RequestsApart /\ RowsFit /\ \A c \in Clerks, t \in Task : desk[c] = t => TaskFits(t)

ActiveIInv == InvoiceTypeOK /\ ActiveInv

-----------------------------------------------------------------------------
(* Money *)

\* What is open on sub-invoice s of m once n more is paid on i, and on all of them.
OpenAt(m, i, n, s) ==
  IF s \notin Active(Subs(m)) THEN 0
  ELSE LET paid == DeriveInvoiceAmounts(s) + (IF s = i THEN n ELSE 0)
       IN  IF invoice[s].total > paid THEN invoice[s].total - paid ELSE 0

Open(m, i, n) == SumFunction([s \in DOMAIN invoice |-> OpenAt(m, i, n, s)])

Claims(m) == SumFunction([s \in Active(Subs(m)) |-> invoice[s].total])

\* There is room for n more on invoice i, or on the sale when i is 0.
Room(i, n) ==
  /\ Total(Completed) + n <= Price
  /\ \A m \in Active(Masters) : Total(Completed) + n + Open(m, i, n) <= Price

MoneyRows ==
  /\ \A i \in Masters : invoice[i].total = Price
  /\ Room(0, 0)
  /\ \A p \in Pending : Room(payment[p].invoice, payment[p].amount)
  /\ \A p, q \in Pending : p = q

\* A payment that is recorded still has room; a sub-invoice that is created has
\* too, or finds its number taken.
MoneyFits(t) ==
  /\ t.op = "pay" /\ t.step \in {"record", "online"} => Room(t.on, t.n)
  /\ t.op = "sub" =>
       \/ t.saw = Cardinality(Active(Subs(t.on))) + 1 /\ t.n + Total(Completed) + Claims(t.on) <= Price
       \/ \E s \in Subs(t.on) : invoice[s].number = t.saw

MoneyInv == MoneyRows /\ \A c \in Clerks, t \in Task : desk[c] = t => MoneyFits(t)

-----------------------------------------------------------------------------
(* Types *)

InvoiceRow(n) == [parent : 0 .. n, number : Nat, total : Nat, paid : Nat, status : Status]
PaymentRow(n) == [invoice : 0 .. n, amount : Nat, receipt : 0 .. n, status : {"PENDING", "COMPLETED"}]

LEMMA RowTypes ==
  ASSUME InvoiceTypeOK
  PROVE  /\ Len(invoice) \in Nat /\ DOMAIN invoice = 1 .. Len(invoice) /\ invoice \in Seq(InvoiceRow(Len(invoice)))
         /\ Len(payment) \in Nat /\ DOMAIN payment = 1 .. Len(payment) /\ payment \in Seq(PaymentRow(Len(invoice)))
         /\ \A i \in DOMAIN invoice : /\ invoice[i].parent \in 0 .. Len(invoice) /\ invoice[i].number \in Nat
                                      /\ invoice[i].total \in Nat /\ invoice[i].paid \in Nat
                                      /\ invoice[i].status \in Status
         /\ \A p \in DOMAIN payment : /\ payment[p].invoice \in 0 .. Len(invoice) /\ payment[p].amount \in Nat
                                      /\ payment[p].receipt \in 0 .. Len(invoice)
                                      /\ payment[p].status \in {"PENDING", "COMPLETED"}
<1>1. /\ invoice \in Seq(InvoiceRow(Len(invoice)))
      /\ payment \in Seq(PaymentRow(Len(invoice)))
  BY DEF InvoiceTypeOK, InvoiceRow, PaymentRow
<1>2. /\ Len(invoice) \in Nat /\ DOMAIN invoice = 1 .. Len(invoice)
      /\ Len(payment) \in Nat /\ DOMAIN payment = 1 .. Len(payment)
  BY <1>1
<1>3. /\ \A i \in DOMAIN invoice : invoice[i] \in InvoiceRow(Len(invoice))
      /\ \A p \in DOMAIN payment : payment[p] \in PaymentRow(Len(invoice))
  BY <1>1
<1> QED
  BY <1>1, <1>2, <1>3 DEF InvoiceRow, PaymentRow

LEMMA DeskTypes ==
  ASSUME InvoiceTypeOK, NEW c \in Clerks
  PROVE  Working(c) => desk[c] \in Task /\ desk[c].op \in Op /\ desk[c].step \in InvoiceStep
                       /\ desk[c].on \in Nat /\ desk[c].pay \in Nat /\ desk[c].n \in Nat
                       /\ desk[c].saw \in Nat /\ desk[c].status \in Status
<1>1. Working(c) => desk[c] \in Task
  BY DEF InvoiceTypeOK, Working
<1> QED
  BY <1>1 DEF Task

\* What is summed is a natural number.
LEMMA PaymentsAreFinite ==
  ASSUME InvoiceTypeOK
  PROVE  /\ \A P : P \subseteq DOMAIN payment => IsFiniteSet(P)
         /\ \A I : I \subseteq DOMAIN invoice => IsFiniteSet(I)
<1>1. IsFiniteSet(1 .. Len(payment)) /\ IsFiniteSet(1 .. Len(invoice))
  BY RowTypes, FS_Interval
<1> QED
  BY <1>1, RowTypes, FS_Subset

LEMMA TotalType ==
  ASSUME InvoiceTypeOK, NEW P, P \subseteq DOMAIN payment
  PROVE  Total(P) \in Nat /\ \A p \in P : payment[p].amount <= Total(P)
<1> DEFINE f == [p \in P |-> payment[p].amount]
<1>1. IsFiniteSet(P) /\ \A p \in P : f[p] = payment[p].amount /\ f[p] \in Nat
  BY RowTypes, PaymentsAreFinite
<1>2. Total(P) = SumFunctionOnSet(f, P)
  BY DEF Total, SumFunction
<1> HIDE DEF f
<1> QED
  BY <1>1, <1>2, SumNat

LEMMA DerivedType ==
  ASSUME InvoiceTypeOK
  PROVE  /\ Completed \subseteq DOMAIN payment
         /\ \A I : LinkedTo(I) \subseteq DOMAIN payment /\ Total(LinkedTo(I)) \in Nat
         /\ \A i : DeriveInvoiceAmounts(i) \in Nat
<1>1. Completed \subseteq DOMAIN payment
  BY DEF Completed
<1>2. \A I : LinkedTo(I) \subseteq DOMAIN payment /\ Total(LinkedTo(I)) \in Nat
  BY <1>1, TotalType DEF LinkedTo
<1> QED
  BY <1>1, <1>2 DEF DeriveInvoiceAmounts

-----------------------------------------------------------------------------
(* Requests *)

\* Which operations run beside which.
Beside(a, b) ==
  /\ a \notin {"pay", "job"}
  /\ a = "void" => b \in {"void", "receipt"}
  /\ a = "receipt" => b \in {"void", "sub"}
  /\ a = "master" => b \in {"view", "sub"}
  /\ a = "sub" => b \in {"view", "sub", "master", "receipt"}
  /\ a = "view" => b \in {"view", "master", "sub"}

LEMMA PairMeans ==
  ASSUME InvoicesApart, NEW a \in Op, NEW b \in Op, {a, b} \in Overlap
  PROVE  Beside(a, b) /\ Beside(b, a)
<1>1. \/ \E op \in {"view", "master", "sub"} : {a, b} = {"view", op}
      \/ \E op \in {"sub", "master", "receipt"} : {a, b} = {"sub", op}
      \/ {a, b} = {"void"} \/ {a, b} = {"void", "receipt"}
  BY DEF InvoicesApart
<1>2. \A x, y : {a, b} = {x, y} => (a = x /\ b = y) \/ (a = y /\ b = x)
  OBVIOUS
<1>3. {a, b} = {"void"} => a = "void" /\ b = "void"
  OBVIOUS
<1> QED
  BY <1>1, <1>2, <1>3 DEF Beside, Op

LEMMA WhoIsBeside ==
  ASSUME InvoicesApart, InvoiceTypeOK, RequestsApart, NEW c \in Clerks, NEW d \in Clerks, c # d,
         Working(c), Working(d)
  PROVE  Beside(desk[c].op, desk[d].op)
BY PairMeans, DeskTypes DEF RequestsApart

LEMMA WhoMayRun ==
  ASSUME InvoicesApart, InvoiceTypeOK, NEW op \in Op, MayRun(op), NEW d \in Clerks, Working(d)
  PROVE  Beside(op, desk[d].op) /\ Beside(desk[d].op, op)
BY PairMeans, DeskTypes DEF MayRun, Working

\* A request begins, goes on or ends.
DeskStep(c, t) ==
  /\ desk' = [desk EXCEPT ![c] = t]
  /\ t = Idle \/ t \in Task
  /\ t # Idle => IF Working(c) THEN t.op = desk[c].op ELSE MayRun(t.op)

LEMMA DeskSteps ==
  ASSUME InvoiceTypeOK, RequestsApart, NEW c \in Clerks, NEW t, DeskStep(c, t)
  PROVE  /\ RequestsApart' /\ desk' \in [Clerks -> Task \cup {Idle}]
         /\ desk'[c] = t /\ \A d \in Clerks \ {c} : desk'[d] = desk[d]
<1>1. /\ desk' \in [Clerks -> Task \cup {Idle}]
      /\ desk'[c] = t /\ \A d \in Clerks \ {c} : desk'[d] = desk[d]
  BY DEF InvoiceTypeOK, DeskStep
<1>2. ASSUME NEW d \in Clerks, d # c, t # Idle, Working(d)
      PROVE  {t.op, desk[d].op} \in Overlap
  BY <1>2 DEF DeskStep, RequestsApart, MayRun, Working
<1>3. \A d \in Clerks : Working(d)' <=> desk'[d] # Idle
  BY DEF Working
<1>4. SUFFICES ASSUME NEW d \in Clerks, NEW e \in Clerks, d # e, desk'[d] # Idle, desk'[e] # Idle
               PROVE  {desk'[d].op, desk'[e].op} \in Overlap
  BY <1>1, <1>3 DEF RequestsApart
<1>5. CASE d = c
  BY <1>1, <1>2, <1>4, <1>5 DEF Working
<1>6. CASE e = c
  <2>1. {desk'[d].op, desk'[e].op} = {desk'[e].op, desk'[d].op}
    OBVIOUS
  <2> QED
    BY <1>1, <1>2, <1>4, <1>6, <2>1 DEF Working
<1>7. CASE d # c /\ e # c
  BY <1>1, <1>4, <1>7 DEF RequestsApart, Working
<1> QED
  BY <1>5, <1>6, <1>7

LEMMA TakesIsStep ==
  ASSUME InvoiceTypeOK, NEW c \in Clerks, NEW op \in Op, NEW step \in InvoiceStep,
         NEW i \in Nat, i # 0 => i \in DOMAIN invoice, NEW p \in Nat, NEW n \in Nat, NEW saw \in Nat,
         Takes(c, op, step, i, p, n, saw)
  PROVE  \E st \in Status :
           /\ DeskStep(c, [op |-> op, step |-> step, on |-> i, pay |-> p, n |-> n, saw |-> saw, status |-> st])
           /\ i # 0 => st = invoice[i].status
           /\ ~Working(c) /\ MayRun(op)
<1> DEFINE st == IF i = 0 THEN "SENT" ELSE invoice[i].status
           t == [op |-> op, step |-> step, on |-> i, pay |-> p, n |-> n, saw |-> saw, status |-> st]
<1>1. st \in Status /\ (i # 0 => st = invoice[i].status)
  BY RowTypes DEF Status
<1>2. desk' = [desk EXCEPT ![c] = t] /\ ~Working(c) /\ MayRun(op)
  BY DEF Takes, Working
<1>3. t \in Task /\ t.op = op
  BY <1>1 DEF Task
<1>4. DeskStep(c, t)
  BY <1>2, <1>3 DEF DeskStep
<1> HIDE DEF st
<1> QED
  BY <1>1, <1>2, <1>4

-----------------------------------------------------------------------------
(* A step that leaves all but the cache and the receipts as they are *)

RowsTyped == invoice \in Seq(InvoiceRow(Len(invoice))) /\ payment \in Seq(PaymentRow(Len(invoice)))

SameRows ==
  /\ Len(invoice') = Len(invoice) /\ Len(payment') = Len(payment)
  /\ \A i \in DOMAIN invoice : /\ invoice'[i].parent = invoice[i].parent
                               /\ invoice'[i].number = invoice[i].number
                               /\ invoice'[i].total = invoice[i].total
                               /\ invoice'[i].status = "VOID" <=> invoice[i].status = "VOID"
  /\ \A p \in DOMAIN payment : /\ payment'[p].invoice = payment[p].invoice
                               /\ payment'[p].amount = payment[p].amount
                               /\ payment'[p].status = payment[p].status

LEMMA TypedTogether ==
  ASSUME RowsTyped', desk' \in [Clerks -> Task \cup {Idle}], threw' \in BOOLEAN
  PROVE  InvoiceTypeOK'
BY DEF RowsTyped, InvoiceRow, PaymentRow, InvoiceTypeOK

LEMMA TypedRows ==
  ASSUME InvoiceTypeOK
  PROVE  RowsTyped
BY RowTypes DEF RowsTyped

LEMMA SameDomains ==
  ASSUME InvoiceTypeOK, RowsTyped', SameRows
  PROVE  DOMAIN invoice' = DOMAIN invoice /\ DOMAIN payment' = DOMAIN payment
<1>1. DOMAIN invoice' = 1 .. Len(invoice') /\ DOMAIN payment' = 1 .. Len(payment')
  BY DEF RowsTyped
<1> QED
  BY <1>1, RowTypes DEF SameRows

LEMMA SameSets ==
  ASSUME InvoiceTypeOK, RowsTyped', SameRows
  PROVE  /\ Masters' = Masters /\ Active(Masters)' = Active(Masters)
         /\ \A i : Subs(i)' = Subs(i) /\ Active(Subs(i))' = Active(Subs(i))
         /\ Completed' = Completed /\ Pending' = Pending
         /\ \A i : IsActive(i)' <=> IsActive(i)
         /\ \A i : Alive(i)' <=> Alive(i)
<1>1. Masters' = Masters /\ \A i : Subs(i)' = Subs(i)
  BY SameDomains DEF SameRows, Masters, IsMaster, Subs
<1>2. Active(Masters)' = Active(Masters) /\ \A i : Active(Subs(i))' = Active(Subs(i))
  BY <1>1, SameDomains DEF SameRows, Active, Masters, Subs
<1>3. Completed' = Completed /\ Pending' = Pending
  BY SameDomains DEF SameRows, Completed, Pending
<1>4. \A i : IsActive(i)' <=> IsActive(i)
  BY SameDomains DEF SameRows, IsActive
<1>5. \A i : Alive(i)' <=> Alive(i)
  BY <1>4, SameDomains DEF SameRows, Alive
<1> QED
  BY <1>1, <1>2, <1>3, <1>4, <1>5

LEMMA SameFits ==
  ASSUME InvoiceTypeOK, RowsTyped', SameRows
  PROVE  /\ RowsFit => RowsFit'
         /\ \A t \in Task : TaskFits(t) => TaskFits(t)'
<1>1. RowsFit => RowsFit'
  <2> SUFFICES ASSUME RowsFit PROVE RowsFit'
    OBVIOUS
  <2>1. \A i \in DOMAIN invoice' : invoice'[i].parent # 0 =>
          /\ invoice'[invoice'[i].parent].parent = 0
          /\ IsActive(i)' => IsActive(invoice[i].parent)'
    BY SameDomains, SameSets, RowTypes DEF SameRows, RowsFit
  <2>2. \A p \in DOMAIN payment' :
          /\ payment'[p].amount > 0
          /\ payment'[p].invoice # 0 => Alive(payment[p].invoice)'
          /\ payment'[p].invoice # 0 /\ p \in Pending' => IsActive(payment[p].invoice)'
    <3> SUFFICES ASSUME NEW p \in DOMAIN payment
                 PROVE  /\ payment'[p].amount > 0
                        /\ payment'[p].invoice # 0 => Alive(payment[p].invoice)'
                        /\ payment'[p].invoice # 0 /\ p \in Pending' => IsActive(payment[p].invoice)'
      BY SameDomains
    <3>1. PICK i : i = payment[p].invoice
      OBVIOUS
    <3>2. payment'[p].invoice = i /\ payment'[p].amount = payment[p].amount
      BY <3>1 DEF SameRows
    <3>3. Alive(payment[p].invoice)' <=> Alive(i)
      BY <3>2, SameSets, SameDomains DEF Alive, IsActive
    <3>4. IsActive(payment[p].invoice)' <=> IsActive(i)
      BY <3>2, SameSets, SameDomains DEF IsActive
    <3> QED
      BY <3>1, <3>2, <3>3, <3>4, SameSets DEF RowsFit
  <2> QED
    BY <2>1, <2>2, SameSets DEF RowsFit
<1>2. ASSUME NEW t \in Task, TaskFits(t)
      PROVE  TaskFits(t)'
  <2>1. t.pay \in Completed => payment'[t.pay].invoice = payment[t.pay].invoice
    BY DerivedType DEF SameRows
  <2>2. t.on \in DOMAIN invoice => (IsMaster(t.on)' <=> IsMaster(t.on))
    BY DEF SameRows, IsMaster
  <2> QED
    BY <1>2, <2>1, <2>2, SameSets, SameDomains DEF TaskFits, SameRows
<1> QED
  BY <1>1, <1>2

LEMMA SameRowsStep ==
  ASSUME ActiveIInv, RowsTyped', SameRows, threw' \in BOOLEAN,
         NEW c \in Clerks, NEW t, DeskStep(c, t), t \in Task => TaskFits(t)
  PROVE  ActiveIInv'
<1>1. /\ RequestsApart' /\ desk' \in [Clerks -> Task \cup {Idle}]
      /\ desk'[c] = t /\ \A d \in Clerks \ {c} : desk'[d] = desk[d]
  BY DeskSteps DEF ActiveIInv, ActiveInv
<1>2. InvoiceTypeOK'
  BY <1>1, TypedTogether
<1>3. \A d \in Clerks, u \in Task : desk'[d] = u => TaskFits(u)'
  BY <1>1, SameFits DEF ActiveIInv, ActiveInv
<1> QED
  BY <1>1, <1>2, <1>3, SameFits DEF ActiveIInv, ActiveInv

LEMMA EndsIsStep ==
  ASSUME NEW c \in Clerks, Ends(c)
  PROVE  DeskStep(c, Idle) /\ Idle \notin Task
<1>1. Idle \notin Task
  BY DEF Idle, Task, Op
<1> QED
  BY <1>1 DEF DeskStep, Ends

\* The task of c at its next step.
Moved(c, step, pay, n, saw, st) ==
  [op |-> desk[c].op, step |-> step, on |-> desk[c].on, pay |-> pay, n |-> n, saw |-> saw, status |-> st]

LEMMA MovedIsStep ==
  ASSUME InvoiceTypeOK, NEW c \in Clerks, Working(c), NEW step \in InvoiceStep, NEW pay \in Nat,
         NEW n \in Nat, NEW saw \in Nat, NEW st \in Status,
         desk' = [desk EXCEPT ![c] = Moved(c, step, pay, n, saw, st)]
  PROVE  DeskStep(c, Moved(c, step, pay, n, saw, st)) /\ Moved(c, step, pay, n, saw, st) \in Task
<1>1. Moved(c, step, pay, n, saw, st) \in Task /\ Moved(c, step, pay, n, saw, st).op = desk[c].op
  BY DeskTypes DEF Moved, Task
<1> QED
  BY <1>1 DEF DeskStep

\* The forms a request's step takes.
LEMMA MovedForms ==
  ASSUME InvoiceTypeOK, NEW c \in Clerks, Working(c), NEW step, NEW x
  PROVE  /\ Goes(c, step)
              => desk' = [desk EXCEPT ![c] = Moved(c, step, desk[c].pay, desk[c].n, desk[c].saw, desk[c].status)]
         /\ desk' = [desk EXCEPT ![c].step = step, ![c].pay = x]
              => desk' = [desk EXCEPT ![c] = Moved(c, step, x, desk[c].n, desk[c].saw, desk[c].status)]
         /\ desk' = [desk EXCEPT ![c].step = step, ![c].saw = x]
              => desk' = [desk EXCEPT ![c] = Moved(c, step, desk[c].pay, desk[c].n, x, desk[c].status)]
<1>1. desk[c] \in Task
  BY DeskTypes
<1> DEFINE r == Moved(c, step, desk[c].pay, desk[c].n, desk[c].saw, desk[c].status)
<1>2. [desk[c] EXCEPT !.step = step] = r
  BY <1>1 DEF Task, Moved
<1>3. /\ [r EXCEPT !.pay = x] = Moved(c, step, x, desk[c].n, desk[c].saw, desk[c].status)
      /\ [r EXCEPT !.saw = x] = Moved(c, step, desk[c].pay, desk[c].n, x, desk[c].status)
  BY DEF Moved
<1> HIDE DEF r
<1>4. [desk[c] EXCEPT !.step = step, !.pay = x] = Moved(c, step, x, desk[c].n, desk[c].saw, desk[c].status)
  BY <1>2, <1>3, Zenon
<1>5. [desk[c] EXCEPT !.step = step, !.saw = x] = Moved(c, step, desk[c].pay, desk[c].n, x, desk[c].status)
  BY <1>2, <1>3, Zenon
<1> USE DEF r
<1>6. Goes(c, step)
        => desk' = [desk EXCEPT ![c] = Moved(c, step, desk[c].pay, desk[c].n, desk[c].saw, desk[c].status)]
  BY <1>2 DEF Goes
<1>7. desk' = [desk EXCEPT ![c].step = step, ![c].pay = x]
        => desk' = [desk EXCEPT ![c] = Moved(c, step, x, desk[c].n, desk[c].saw, desk[c].status)]
  BY <1>4 DEF InvoiceTypeOK
<1>8. desk' = [desk EXCEPT ![c].step = step, ![c].saw = x]
        => desk' = [desk EXCEPT ![c] = Moved(c, step, desk[c].pay, desk[c].n, x, desk[c].status)]
  BY <1>5 DEF InvoiceTypeOK
<1> QED
  BY <1>6, <1>7, <1>8

Found(c, step, x, st) == desk' = [desk EXCEPT ![c].step = step, ![c].n = x, ![c].status = st]

LEMMA FoundForm ==
  ASSUME InvoiceTypeOK, NEW c \in Clerks, Working(c), NEW step, NEW x, NEW st,
         Found(c, step, x, st)
  PROVE  desk' = [desk EXCEPT ![c] = Moved(c, step, desk[c].pay, x, desk[c].saw, st)]
<1>1. desk[c] \in Task
  BY DeskTypes
<1> DEFINE r == Moved(c, step, desk[c].pay, desk[c].n, desk[c].saw, desk[c].status)
           q == Moved(c, step, desk[c].pay, x, desk[c].saw, desk[c].status)
<1>2. [desk[c] EXCEPT !.step = step] = r
  BY <1>1 DEF Task, Moved
<1>3. [r EXCEPT !.n = x] = q
  BY DEF Moved
<1>4. [q EXCEPT !.status = st] = Moved(c, step, desk[c].pay, x, desk[c].saw, st)
  BY DEF Moved
<1> HIDE DEF r, q
<1>5. [desk[c] EXCEPT !.step = step, !.n = x, !.status = st] = Moved(c, step, desk[c].pay, x, desk[c].saw, st)
  BY <1>2, <1>3, <1>4, Zenon
<1> QED
  BY <1>5 DEF InvoiceTypeOK, Found

-----------------------------------------------------------------------------
(* Steps that only write the cache and receipts *)

LEMMA UnchangedIsSame ==
  ASSUME InvoiceTypeOK, UNCHANGED <<invoice, payment>>
  PROVE  RowsTyped' /\ SameRows
BY TypedRows DEF RowsTyped, SameRows

LEMMA ReceiptedIsSame ==
  ASSUME InvoiceTypeOK, NEW P, NEW i \in DOMAIN invoice, Receipted(P, i)
  PROVE  /\ payment' \in Seq(PaymentRow(Len(invoice))) /\ Len(payment') = Len(payment)
         /\ \A p \in DOMAIN payment : /\ payment'[p].invoice = payment[p].invoice
                                      /\ payment'[p].amount = payment[p].amount
                                      /\ payment'[p].status = payment[p].status
                                      /\ payment'[p].receipt =
                                           IF p \in P /\ payment[p].receipt = 0 THEN i ELSE payment[p].receipt
<1>1. DOMAIN payment = 1 .. Len(payment) /\ Len(payment) \in Nat
      /\ \A p \in DOMAIN payment : payment[p] \in PaymentRow(Len(invoice))
  BY RowTypes
<1>2. i \in 0 .. Len(invoice)
  BY RowTypes
<1>3. \A p \in DOMAIN payment :
        /\ payment'[p] \in PaymentRow(Len(invoice))
        /\ payment'[p].invoice = payment[p].invoice /\ payment'[p].amount = payment[p].amount
        /\ payment'[p].status = payment[p].status
        /\ payment'[p].receipt = IF p \in P /\ payment[p].receipt = 0 THEN i ELSE payment[p].receipt
  BY <1>1, <1>2 DEF Receipted, PaymentRow
<1>4. payment' = [p \in 1 .. Len(payment) |-> payment'[p]]
  BY <1>1 DEF Receipted
<1>5. payment' \in Seq(PaymentRow(Len(invoice))) /\ Len(payment') = Len(payment)
  BY <1>1, <1>3, <1>4
<1> QED
  BY <1>3, <1>5

LEMMA CachesIsSame ==
  ASSUME InvoiceTypeOK, NEW i \in DOMAIN invoice, NEW paid \in Nat, NEW st \in Status,
         st = "VOID" <=> invoice[i].status = "VOID", Caches(i, paid, st)
  PROVE  /\ invoice' \in Seq(InvoiceRow(Len(invoice))) /\ Len(invoice') = Len(invoice)
         /\ \A j \in DOMAIN invoice : /\ invoice'[j].parent = invoice[j].parent
                                      /\ invoice'[j].number = invoice[j].number
                                      /\ invoice'[j].total = invoice[j].total
                                      /\ invoice'[j].status = "VOID" <=> invoice[j].status = "VOID"
                                      /\ j # i => invoice'[j] = invoice[j]
         /\ invoice'[i].paid = paid /\ invoice'[i].status = st
<1>1. DOMAIN invoice = 1 .. Len(invoice) /\ Len(invoice) \in Nat /\ invoice \in Seq(InvoiceRow(Len(invoice)))
      /\ \A j \in DOMAIN invoice : invoice[j] \in InvoiceRow(Len(invoice))
  BY RowTypes
<1> DEFINE row == [invoice[i] EXCEPT !.paid = paid, !.status = st]
<1>2. invoice' = [invoice EXCEPT ![i] = row]
  BY <1>1 DEF Caches, InvoiceRow
<1>3. /\ row \in InvoiceRow(Len(invoice)) /\ row.paid = paid /\ row.status = st
      /\ row.parent = invoice[i].parent /\ row.number = invoice[i].number /\ row.total = invoice[i].total
  BY <1>1 DEF InvoiceRow
<1> HIDE DEF row
<1>4. invoice' \in Seq(InvoiceRow(Len(invoice))) /\ Len(invoice') = Len(invoice)
      /\ \A j \in DOMAIN invoice : invoice'[j] = IF j = i THEN row ELSE invoice[j]
  BY <1>1, <1>2, <1>3
<1> QED
  BY <1>3, <1>4

LEMMA StatusOfPaid ==
  \A paid, total, st : /\ PaidStatus(paid, total) \in Status \ {"VOID"}
                       /\ st # "VOID" => DeriveStatus(st, paid, total) = PaidStatus(paid, total)
BY DEF PaidStatus, DeriveStatus, Status

-----------------------------------------------------------------------------
(* Requests that begin *)

LEMMA AllCounted ==
  ASSUME InvoiceTypeOK, RowsFit, NEW m \in Active(Masters)
  PROVE  LinkedTo({m, 0} \cup Subs(m)) = Completed /\ DeriveInvoiceAmounts(m) = Total(Completed)
<1>1. m \in DOMAIN invoice /\ invoice[m].parent = 0 /\ IsActive(m)
  BY DEF Active, Masters, IsMaster, IsActive
<1>2. ASSUME NEW p \in Completed PROVE payment[p].invoice \in {m, 0} \cup Subs(m)
  <2>1. p \in DOMAIN payment
    BY DEF Completed
  <2>2. CASE payment[p].invoice # 0
    <3> DEFINE i == payment[p].invoice
           h == IF invoice[i].parent = 0 THEN i ELSE invoice[i].parent
    <3>1. i \in DOMAIN invoice /\ IsActive(h) /\ invoice[h].parent = 0
      BY <2>1, <2>2 DEF RowsFit, Alive
    <3>2. h \in Active(Masters)
      BY <3>1 DEF IsActive, Active, Masters, IsMaster
    <3>3. h = m
      BY <3>2 DEF RowsFit
    <3> QED
      BY <3>1, <3>3 DEF Subs
  <2> QED
    BY <2>2
<1>3. LinkedTo({m, 0} \cup Subs(m)) = Completed
  BY <1>2 DEF LinkedTo
<1> QED
  BY <1>1, <1>3 DEF DeriveInvoiceAmounts, IsMaster

LEMMA ZeroTotal ==
  ASSUME InvoiceTypeOK, RowsFit, NEW P, P \subseteq DOMAIN payment, Total(P) = 0
  PROVE  P = {}
BY TotalType, RowTypes DEF RowsFit

LEMMA NothingTotal == Total({}) = 0
<1>1. PICK f : f = [p \in {} |-> payment[p].amount]
  OBVIOUS
<1>2. Total({}) = SumFunctionOnSet(f, {})
  BY <1>1 DEF Total, SumFunction
<1> QED
  BY <1>2, SumEmpty

LEMMA ActiveIsAlive ==
  ASSUME RowsFit, NEW i, IsActive(i)
  PROVE  Alive(i)
BY DEF RowsFit, Alive, IsActive

LEMMA MasterIsActive ==
  /\ \A m : m \in Active(Masters) <=> IsActive(m) /\ IsMaster(m)
  /\ \A i \in DOMAIN invoice : invoice[i].status # "VOID" <=> IsActive(i)
BY DEF Active, Masters, IsActive

LEMMA SubNumber ==
  ASSUME InvoiceTypeOK, NEW m
  PROVE  Cardinality(Active(Subs(m))) + 1 \in Nat
<1>1. IsFiniteSet(Active(Subs(m)))
  BY PaymentsAreFinite DEF Active, Subs
<1> QED
  BY <1>1, FS_CardinalityType

LEMMA StepKinds ==
  /\ InvoiceStep = {"create", "record", "online", "derive", "write", "post", "postWrite",
                    "find", "link", "sum", "sync", "receipt"}
  /\ \A op : StepsOf(op) \subseteq InvoiceStep
BY DEF InvoiceStep, StepsOf

LEMMA BeginningsActive ==
  ASSUME InvoicesApart, Careful, ActiveIInv, NEW c \in Clerks,
         \/ BeginMaster(c) \/ View(c)
         \/ \E i \in DOMAIN invoice : \/ BeginVoid(c, i)
                                      \/ \E n \in Amounts : BeginSub(c, i, n) \/ BeginPay(c, i, n)
                                      \/ \E p \in DOMAIN payment : BeginReceipt(c, i, p)
  PROVE  ActiveIInv'
<1> USE InvoicingAssumption
<1>0. InvoiceTypeOK /\ RowsFit /\ RequestsApart
  BY DEF ActiveIInv, ActiveInv
<1>1. UNCHANGED <<invoice, payment, threw>>
  BY DEF BeginMaster, View, BeginVoid, BeginSub, BeginPay, BeginReceipt
<1>2. RowsTyped' /\ SameRows /\ threw' \in BOOLEAN
  BY <1>0, <1>1, UnchangedIsSame DEF InvoiceTypeOK
<1>3. SUFFICES \E t : DeskStep(c, t) /\ (t \in Task => TaskFits(t))
  BY <1>2, SameRowsStep
<1>4. CASE BeginMaster(c)
  <2>1. PICK st \in Status :
          DeskStep(c, [op |-> "master", step |-> "create", on |-> 0, pay |-> 0, n |-> 0, saw |-> 0, status |-> st])
    BY <1>0, <1>4, TakesIsStep DEF BeginMaster, Op, InvoiceStep
  <2> QED
    BY <1>4, <2>1 DEF BeginMaster, TaskFits, StepsOf, NoMaster
<1>5. CASE View(c)
  <2>1. PICK st \in Status :
          DeskStep(c, [op |-> "view", step |-> "find", on |-> 0, pay |-> 0, n |-> 0, saw |-> 0, status |-> st])
    BY <1>0, <1>5, TakesIsStep DEF View, Op, InvoiceStep
  <2> QED
    BY <2>1 DEF TaskFits, StepsOf
<1>6. ASSUME NEW i \in DOMAIN invoice, BeginVoid(c, i)
      PROVE  \E t : DeskStep(c, t) /\ (t \in Task => TaskFits(t))
  <2>1. i \in Nat /\ Len(invoice) \in Nat
    BY <1>0, RowTypes
  <2>2. PICK st \in Status :
          DeskStep(c, [op |-> "void", step |-> "write", on |-> i, pay |-> 0, n |-> 0, saw |-> Len(invoice), status |-> st])
    BY <1>0, <1>6, <2>1, TakesIsStep DEF BeginVoid, Op, InvoiceStep
  <2>3. Pending = {} /\ IsActive(i) /\ DeriveInvoiceAmounts(i) = 0
    BY <1>6, MasterIsActive DEF BeginVoid, NothingOpen, Voidable
  <2>4. IsMaster(i) => Completed = {}
    BY <1>0, <2>3, AllCounted, MasterIsActive, ZeroTotal, DerivedType
  <2> QED
    BY <2>2, <2>3, <2>4 DEF TaskFits, StepsOf
<1>7. ASSUME NEW i \in DOMAIN invoice, NEW n \in Amounts, BeginSub(c, i, n)
      PROVE  \E t : DeskStep(c, t) /\ (t \in Task => TaskFits(t))
  <2>0. Cardinality(Active(Subs(i))) + 1 \in Nat
    BY <1>0, SubNumber
  <2>a. i \in Nat
    BY <1>0, RowTypes
  <2>b. n \in Nat
    BY InvoicingAssumption
  <2>1. i \in Nat /\ n \in Nat /\ Cardinality(Active(Subs(i))) + 1 \in Nat
    BY <2>0, <2>a, <2>b
  <2>2. PICK st \in Status :
          DeskStep(c, [op |-> "sub", step |-> "create", on |-> i, pay |-> 0, n |-> n,
                       saw |-> Cardinality(Active(Subs(i))) + 1, status |-> st])
    BY <1>0, <1>7, <2>1, TakesIsStep DEF BeginSub, Op, InvoiceStep
  <2>3. Pending = {} /\ i \in Active(Masters)
    BY <1>7 DEF BeginSub, NothingOpen
  <2> QED
    BY <2>2, <2>3 DEF TaskFits, StepsOf
<1>8. ASSUME NEW i \in DOMAIN invoice, NEW n \in Amounts, BeginPay(c, i, n)
      PROVE  \E t : DeskStep(c, t) /\ (t \in Task => TaskFits(t))
  <2>0. n \in Nat
    BY InvoicingAssumption
  <2>4. i \in Nat /\ i # 0
    BY <1>0, RowTypes
  <2>1. i \in Nat /\ n \in Nat /\ i # 0
    BY <2>0, <2>4
  <2>a. PICK step \in {"record", "online"} : Takes(c, "pay", step, i, 0, n, 0)
    BY <1>8 DEF BeginPay
  <2>b. "pay" \in Op /\ step \in InvoiceStep
    BY DEF Op, InvoiceStep
  <2>2. PICK st \in Status :
          /\ DeskStep(c, [op |-> "pay", step |-> step, on |-> i, pay |-> 0, n |-> n, saw |-> 0, status |-> st])
          /\ i # 0 => st = invoice[i].status
          /\ ~Working(c) /\ MayRun("pay")
    BY <1>0, <2>a, <2>b, <2>1, TakesIsStep
  <2>3. Pending = {} /\ IsActive(i) /\ Active(Subs(i)) = {}
    BY <1>8, MasterIsActive DEF BeginPay, NothingOpen, Payable
  <2> QED
    BY <2>1, <2>2, <2>3 DEF TaskFits, StepsOf, IsActive
<1>9. ASSUME NEW i \in DOMAIN invoice, NEW p \in DOMAIN payment, BeginReceipt(c, i, p)
      PROVE  \E t : DeskStep(c, t) /\ (t \in Task => TaskFits(t))
  <2>1. i \in Nat /\ p \in Nat /\ payment[p].invoice \in Nat
    BY <1>0, RowTypes
  <2>a. Takes(c, "receipt", "receipt", i, p, 0, payment[p].invoice)
    BY <1>9 DEF BeginReceipt
  <2>b. "receipt" \in Op /\ "receipt" \in InvoiceStep
    BY DEF Op, InvoiceStep
  <2>2. PICK st \in Status :
          DeskStep(c, [op |-> "receipt", step |-> "receipt", on |-> i, pay |-> p, n |-> 0,
                       saw |-> payment[p].invoice, status |-> st])
    BY <1>0, <2>a, <2>b, <2>1, TakesIsStep
  <2>3. Alive(i) /\ p \in Completed /\ payment[p].invoice \in {0, i}
    BY <1>0, <1>9, MasterIsActive, ActiveIsAlive DEF BeginReceipt, LinkedTo
  <2> QED
    BY <2>2, <2>3 DEF TaskFits, StepsOf
<1> QED
  BY <1>4, <1>5, <1>6, <1>7, <1>8, <1>9

-----------------------------------------------------------------------------
(* Requests that go on, and leave all but the cache and receipts alone *)

\* What is known of a request that is at a step.
LEMMA AtStep ==
  ASSUME ActiveIInv, NEW c \in Clerks, NEW step, At(c, step)
  PROVE  /\ Working(c) /\ desk[c].step = step /\ step \in StepsOf(desk[c].op) /\ TaskFits(desk[c])
         /\ desk[c] \in Task
<1>1. Working(c) /\ desk[c].step = step
  BY DEF At, Working
<1>2. desk[c] \in Task
  BY <1>1, DeskTypes DEF ActiveIInv
<1>3. PICK u \in Task : u = desk[c]
  BY <1>2
<1>4. TaskFits(u)
  BY <1>3 DEF ActiveIInv, ActiveInv
<1>5. TaskFits(desk[c])
  BY <1>3, <1>4
<1>6. desk[c].step \in StepsOf(desk[c].op)
  BY <1>5 DEF TaskFits
<1> QED
  BY <1>1, <1>2, <1>5, <1>6

LEMMA WhichOp ==
  ASSUME NEW op \in Op
  PROVE  /\ "create" \in StepsOf(op) => op \in {"master", "sub"}
         /\ "record" \in StepsOf(op) => op = "pay"
         /\ "online" \in StepsOf(op) => op = "pay"
         /\ "derive" \in StepsOf(op) => op = "pay"
         /\ "write" \in StepsOf(op) => op \in {"pay", "void"}
         /\ "post" \in StepsOf(op) => op \in {"pay", "job"}
         /\ "postWrite" \in StepsOf(op) => op \in {"pay", "job"}
         /\ "find" \in StepsOf(op) => op \in {"pay", "job", "master", "view"}
         /\ "link" \in StepsOf(op) => op \in {"pay", "job", "master", "view"}
         /\ "sum" \in StepsOf(op) => op \in {"pay", "job", "master", "view"}
         /\ "sync" \in StepsOf(op) => op \in {"pay", "job", "master", "view"}
         /\ "receipt" \in StepsOf(op) => op \in {"pay", "receipt"}
BY DEF Op, StepsOf

\* Task t is that of c at its next step.
Follows(c, t, step, pay, n, saw, st) ==
  /\ t \in Task /\ DeskStep(c, t)
  /\ t.op = desk[c].op /\ t.on = desk[c].on
  /\ t.step = step /\ t.pay = pay /\ t.n = n /\ t.saw = saw /\ t.status = st

LEMMA GoesTo ==
  ASSUME InvoiceTypeOK, NEW c \in Clerks, Working(c), NEW step \in InvoiceStep
  PROVE  /\ Goes(c, step)
              => \E t : Follows(c, t, step, desk[c].pay, desk[c].n, desk[c].saw, desk[c].status)
         /\ \A x \in Nat : desk' = [desk EXCEPT ![c].step = step, ![c].pay = x]
              => \E t : Follows(c, t, step, x, desk[c].n, desk[c].saw, desk[c].status)
         /\ \A x \in Nat : desk' = [desk EXCEPT ![c].step = step, ![c].saw = x]
              => \E t : Follows(c, t, step, desk[c].pay, desk[c].n, x, desk[c].status)
         /\ \A x \in Nat, st \in Status : Found(c, step, x, st)
              => \E t : Follows(c, t, step, desk[c].pay, x, desk[c].saw, st)
<1>1. desk[c].pay \in Nat /\ desk[c].n \in Nat /\ desk[c].saw \in Nat /\ desk[c].status \in Status
  BY DeskTypes
<1>2. ASSUME NEW pay \in Nat, NEW n \in Nat, NEW saw \in Nat, NEW st \in Status,
             desk' = [desk EXCEPT ![c] = Moved(c, step, pay, n, saw, st)]
      PROVE  \E t : Follows(c, t, step, pay, n, saw, st)
  <2> DEFINE t == Moved(c, step, pay, n, saw, st)
  <2>1. DeskStep(c, t) /\ t \in Task
    BY <1>2, MovedIsStep
  <2>2. /\ t.op = desk[c].op /\ t.on = desk[c].on
        /\ t.step = step /\ t.pay = pay /\ t.n = n /\ t.saw = saw /\ t.status = st
    BY DEF Moved
  <2> HIDE DEF t
  <2> QED
    BY <2>1, <2>2 DEF Follows
<1>3. Goes(c, step) => \E t : Follows(c, t, step, desk[c].pay, desk[c].n, desk[c].saw, desk[c].status)
  BY <1>1, <1>2, MovedForms
<1>4. ASSUME NEW x \in Nat, desk' = [desk EXCEPT ![c].step = step, ![c].pay = x]
      PROVE  \E t : Follows(c, t, step, x, desk[c].n, desk[c].saw, desk[c].status)
  <2>1. desk' = [desk EXCEPT ![c] = Moved(c, step, x, desk[c].n, desk[c].saw, desk[c].status)]
    BY <1>4, MovedForms, Zenon
  <2> QED
    BY <1>1, <1>2, <2>1
<1>5. ASSUME NEW x \in Nat, desk' = [desk EXCEPT ![c].step = step, ![c].saw = x]
      PROVE  \E t : Follows(c, t, step, desk[c].pay, desk[c].n, x, desk[c].status)
  <2>0. \A y, z : desk' = [desk EXCEPT ![c].step = step, ![c].saw = y]
          => desk' = [desk EXCEPT ![c] = Moved(c, step, desk[c].pay, desk[c].n, y, desk[c].status)]
    BY MovedForms
  <2>1. desk' = [desk EXCEPT ![c] = Moved(c, step, desk[c].pay, desk[c].n, x, desk[c].status)]
    BY <1>5, <2>0
  <2> QED
    BY <1>1, <1>2, <2>1
<1>6. ASSUME NEW x \in Nat, NEW st \in Status, Found(c, step, x, st)
      PROVE  \E t : Follows(c, t, step, desk[c].pay, x, desk[c].saw, st)
  <2>1. desk' = [desk EXCEPT ![c] = Moved(c, step, desk[c].pay, x, desk[c].saw, st)]
    BY <1>6, FoundForm
  <2> QED
    BY <1>1, <1>2, <2>1
<1> QED
  BY <1>3, <1>4, <1>5, <1>6, Zenon

LEMMA SyncedIsStep ==
  ASSUME ActiveIInv, NEW c \in Clerks, NEW step, At(c, step), step \in {"find", "sync"}, Synced(c)
  PROVE  \E t : DeskStep(c, t) /\ (t \in Task => TaskFits(t))
<1>1. Working(c) /\ TaskFits(desk[c]) /\ desk[c].step = step /\ desk[c].op \in Op
  BY AtStep, DeskTypes DEF ActiveIInv
<1>2. CASE desk[c].op # "pay"
  BY <1>2, EndsIsStep DEF Synced
<1>3. CASE desk[c].op = "pay"
  <2>1. PICK t : Follows(c, t, "receipt", desk[c].pay, desk[c].n, desk[c].saw, desk[c].status)
    BY <1>1, <1>3, GoesTo, StepKinds DEF Synced, ActiveIInv
  <2>2. TaskFits(t)
    BY <1>1, <1>3, <2>1 DEF TaskFits, StepsOf, Follows
  <2> QED
    BY <2>1, <2>2 DEF Follows
<1> QED
  BY <1>2, <1>3

\* Steps that change no row.
LEMMA ReadingsActive ==
  ASSUME ActiveIInv, NEW c \in Clerks,
         \/ PayDerives(c) \/ PostDerives(c) \/ PostThrows(c) \/ SyncFinds(c) \/ SyncSums(c)
         \/ At(c, "create") /\ Ends(c) /\ UNCHANGED <<invoice, payment, threw>>
         \/ At(c, "record") /\ Ends(c) /\ UNCHANGED <<invoice, payment, threw>>
  PROVE  ActiveIInv'
<1>0. InvoiceTypeOK /\ RowsFit
  BY DEF ActiveIInv, ActiveInv
<1>1. UNCHANGED <<invoice, payment>> /\ threw' \in BOOLEAN
  BY <1>0 DEF PayDerives, PostDerives, PostThrows, SyncFinds, SyncSums, InvoiceTypeOK
<1>2. RowsTyped' /\ SameRows
  BY <1>0, <1>1, UnchangedIsSame
<1>3. SUFFICES \E t : DeskStep(c, t) /\ (t \in Task => TaskFits(t))
  BY <1>1, <1>2, SameRowsStep
<1>4. CASE PayDerives(c)
  <2>1. Working(c) /\ TaskFits(desk[c]) /\ desk[c].step = "derive" /\ desk[c].op = "pay"
    BY <1>0, <1>4, AtStep, DeskTypes, WhichOp DEF PayDerives
  <2>2. PICK t : Follows(c, t, "write", desk[c].pay, desk[c].n, DeriveInvoiceAmounts(desk[c].on), desk[c].status)
    BY <1>0, <1>4, <2>1, GoesTo, StepKinds, DerivedType DEF PayDerives
  <2>3. TaskFits(t)
    BY <2>1, <2>2 DEF TaskFits, StepsOf, Follows
  <2> QED
    BY <2>2, <2>3 DEF Follows
<1>5. CASE PostDerives(c)
  <2>1. Working(c) /\ TaskFits(desk[c]) /\ desk[c].step = "post" /\ desk[c].op \in {"pay", "job"}
    BY <1>0, <1>5, AtStep, DeskTypes, WhichOp DEF PostDerives
  <2>2. \E t : \E saw \in Nat : \E step \in {"find", "postWrite"} :
          (desk[c].on = 0 => step = "find") /\ Follows(c, t, step, desk[c].pay, desk[c].n, saw, desk[c].status)
    <3>1. CASE desk[c].on = 0
      <4>1. desk' = [desk EXCEPT ![c].step = "find"]
        BY <1>5, <3>1 DEF PostDerives
      <4>2. \E t : Follows(c, t, "find", desk[c].pay, desk[c].n, desk[c].saw, desk[c].status)
        BY <1>0, <2>1, <4>1, GoesTo, StepKinds DEF Goes
      <4> QED
        BY <1>0, <2>1, <3>1, <4>2, DeskTypes
    <3>2. CASE desk[c].on # 0
      <4> DEFINE saw == Total(LinkedTo({desk[c].on} \cup Subs(desk[c].on)))
      <4>1. saw \in Nat
        BY <1>0, DerivedType
      <4>2. desk' = [desk EXCEPT ![c].step = "postWrite", ![c].saw = saw]
        BY <1>5, <3>2 DEF PostDerives
      <4> HIDE DEF saw
      <4>3. \E t : Follows(c, t, "postWrite", desk[c].pay, desk[c].n, saw, desk[c].status)
        BY <1>0, <2>1, <4>1, <4>2, GoesTo, StepKinds
      <4> QED
        BY <3>2, <4>1, <4>3
    <3> QED
      BY <3>1, <3>2
  <2>3. PICK t : \E saw \in Nat : \E step \in {"find", "postWrite"} :
          (desk[c].on = 0 => step = "find") /\ Follows(c, t, step, desk[c].pay, desk[c].n, saw, desk[c].status)
    BY <2>2
  <2>4. TaskFits(t)
    BY <2>1, <2>3 DEF TaskFits, StepsOf, Follows
  <2> QED
    BY <2>3, <2>4 DEF Follows
<1>6. CASE PostThrows(c)
  <2>1. Working(c) /\ TaskFits(desk[c]) /\ desk[c].step = "find"
    BY <1>6, AtStep DEF PostThrows
  <2>2. CASE Ends(c)
    BY <2>2, EndsIsStep
  <2>3. CASE desk[c].op = "job" /\ Goes(c, "post")
    <3>1. PICK t : Follows(c, t, "post", desk[c].pay, desk[c].n, desk[c].saw, desk[c].status)
      BY <1>0, <2>1, <2>3, GoesTo, StepKinds
    <3>2. TaskFits(t)
      BY <2>1, <2>3, <3>1 DEF TaskFits, StepsOf, Follows
    <3> QED
      BY <3>1, <3>2 DEF Follows
  <2> QED
    BY <1>6, <2>2, <2>3 DEF PostThrows
<1>7. CASE SyncFinds(c)
  <2>1. /\ Working(c) /\ TaskFits(desk[c]) /\ desk[c].step = "find" /\ At(c, "find")
        /\ desk[c].op \in {"pay", "job", "master", "view"}
    BY <1>0, <1>7, AtStep, DeskTypes, WhichOp DEF SyncFinds
  <2>2. CASE Synced(c)
    BY <2>1, <2>2, SyncedIsStep
  <2>3. ASSUME NEW m \in Active(Masters),
               desk' = [desk EXCEPT ![c].step = "link", ![c].n = m, ![c].status = invoice[m].status]
        PROVE  \E t : DeskStep(c, t) /\ (t \in Task => TaskFits(t))
    <3>1. m \in DOMAIN invoice /\ m \in Nat /\ invoice[m].status \in Status /\ invoice[m].status # "VOID"
      BY <1>0, RowTypes DEF Active, Masters
    <3>a. Found(c, "link", m, invoice[m].status)
      BY <2>3, Zenon DEF Found
    <3>2. PICK t : Follows(c, t, "link", desk[c].pay, m, desk[c].saw, invoice[m].status)
      BY <1>0, <2>1, <3>a, <3>1, GoesTo, StepKinds
    <3>3. TaskFits(t)
      BY <2>1, <3>1, <3>2 DEF TaskFits, StepsOf, Follows
    <3> QED
      BY <3>2, <3>3 DEF Follows
  <2> QED
    BY <1>7, <2>2, <2>3 DEF SyncFinds
<1>8. CASE SyncSums(c)
  <2>1. /\ Working(c) /\ TaskFits(desk[c]) /\ desk[c].step = "sum"
        /\ desk[c].op \in {"pay", "job", "master", "view"}
    BY <1>0, <1>8, AtStep, DeskTypes, WhichOp DEF SyncSums
  <2>2. PICK t : Follows(c, t, "sync", desk[c].pay, desk[c].n, DeriveInvoiceAmounts(desk[c].n), desk[c].status)
    BY <1>0, <1>8, <2>1, GoesTo, StepKinds, DerivedType DEF SyncSums
  <2>3. TaskFits(t)
    BY <2>1, <2>2 DEF TaskFits, StepsOf, Follows
  <2> QED
    BY <2>2, <2>3 DEF Follows
<1>9. CASE Ends(c)
  BY <1>9, EndsIsStep
<1> QED
  BY <1>4, <1>5, <1>6, <1>7, <1>8, <1>9

VoidStays == \A i \in DOMAIN invoice : invoice[i].status = "VOID" => invoice'[i].status = "VOID"

\* Steps that write the cache or a receipt.
LEMMA WritesActive ==
  ASSUME ActiveIInv, NEW c \in Clerks, PayWrites(c) \/ PostWrites(c) \/ SyncWrites(c) \/ PayReceipt(c)
  PROVE  ActiveIInv' /\ SameRows
<1>0. InvoiceTypeOK /\ RowsFit
  BY DEF ActiveIInv, ActiveInv
<1>1. threw' \in BOOLEAN
  BY <1>0 DEF PayWrites, PostWrites, SyncWrites, PayReceipt, InvoiceTypeOK
<1>2. SUFFICES RowsTyped' /\ SameRows /\ \E t : DeskStep(c, t) /\ (t \in Task => TaskFits(t))
  BY <1>1, SameRowsStep
<1>3. ASSUME NEW i, IsActive(i), NEW paid \in Nat, NEW st \in Status \ {"VOID"}, Caches(i, paid, st),
             payment' \in Seq(PaymentRow(Len(invoice))), Len(payment') = Len(payment),
             \A p \in DOMAIN payment : /\ payment'[p].invoice = payment[p].invoice
                                        /\ payment'[p].amount = payment[p].amount
                                        /\ payment'[p].status = payment[p].status
      PROVE  RowsTyped' /\ SameRows
  BY <1>0, <1>3, CachesIsSame DEF RowsTyped, SameRows, IsActive
<1>4. CASE PayWrites(c)
  <2>1. /\ Working(c) /\ TaskFits(desk[c]) /\ desk[c].step = "write" /\ desk[c].op = "pay"
        /\ desk[c].saw \in Nat
    BY <1>0, <1>4, AtStep, DeskTypes DEF PayWrites
  <2>2. IsActive(desk[c].on) /\ desk[c].status # "VOID"
    BY <2>1 DEF TaskFits
  <2>3. RowsTyped' /\ SameRows
    BY <1>0, <1>3, <1>4, <2>1, <2>2, StatusOfPaid, TypedRows DEF PayWrites, RowsTyped
  <2>4. PICK t : Follows(c, t, "post", desk[c].pay, desk[c].n, desk[c].saw, desk[c].status)
    BY <1>0, <1>4, <2>1, GoesTo, StepKinds DEF PayWrites
  <2>5. TaskFits(t)
    BY <2>1, <2>4 DEF TaskFits, StepsOf, Follows
  <2> QED
    BY <2>3, <2>4, <2>5 DEF Follows
<1>5. CASE PostWrites(c)
  <2>1. /\ Working(c) /\ TaskFits(desk[c]) /\ desk[c].step = "postWrite" /\ desk[c].op \in {"pay", "job"}
        /\ desk[c].saw \in Nat
    BY <1>0, <1>5, AtStep, DeskTypes, WhichOp DEF PostWrites
  <2>2. IsActive(desk[c].on)
    BY <2>1 DEF TaskFits
  <2>3. RowsTyped' /\ SameRows
    BY <1>0, <1>3, <1>5, <2>1, <2>2, StatusOfPaid, TypedRows DEF PostWrites, RowsTyped
  <2>4. PICK t : Follows(c, t, "find", desk[c].pay, desk[c].n, desk[c].saw, desk[c].status)
    BY <1>0, <1>5, <2>1, GoesTo, StepKinds DEF PostWrites
  <2>5. TaskFits(t)
    BY <2>1, <2>4 DEF TaskFits, StepsOf, Follows
  <2> QED
    BY <2>3, <2>4, <2>5 DEF Follows
<1>6. CASE SyncWrites(c)
  <2>1. /\ Working(c) /\ TaskFits(desk[c]) /\ desk[c].step = "sync" /\ At(c, "sync")
        /\ desk[c].saw \in Nat
    BY <1>0, <1>6, AtStep, DeskTypes DEF SyncWrites
  <2>2. IsActive(desk[c].n) /\ desk[c].status # "VOID"
    BY <2>1, MasterIsActive DEF TaskFits
  <2>3. RowsTyped' /\ SameRows
    <3>1. /\ payment' \in Seq(PaymentRow(Len(invoice))) /\ Len(payment') = Len(payment)
          /\ \A p \in DOMAIN payment : /\ payment'[p].invoice = payment[p].invoice
                                        /\ payment'[p].amount = payment[p].amount
                                        /\ payment'[p].status = payment[p].status
      BY <1>0, <1>6, <2>2, ReceiptedIsSame, TypedRows DEF SyncWrites, RowsTyped, IsActive
    <3> QED
      BY <1>3, <1>6, <2>1, <2>2, <3>1, StatusOfPaid DEF SyncWrites
  <2>4. Synced(c)
    BY <1>6 DEF SyncWrites
  <2> QED
    BY <2>1, <2>3, <2>4, SyncedIsStep
<1>7. CASE PayReceipt(c)
  <2>1. Working(c) /\ TaskFits(desk[c]) /\ desk[c].op = "pay"
    BY <1>7, AtStep DEF PayReceipt
  <2>2. desk[c].on \in DOMAIN invoice
    BY <2>1 DEF TaskFits, IsActive
  <2>3. /\ payment' \in Seq(PaymentRow(Len(invoice))) /\ Len(payment') = Len(payment)
        /\ \A p \in DOMAIN payment : /\ payment'[p].invoice = payment[p].invoice
                                      /\ payment'[p].amount = payment[p].amount
                                      /\ payment'[p].status = payment[p].status
    BY <1>0, <1>7, <2>2, ReceiptedIsSame, TypedRows DEF PayReceipt, RowsTyped
  <2>4. RowsTyped' /\ SameRows
    BY <1>0, <1>7, <2>3, TypedRows DEF PayReceipt, RowsTyped, SameRows
  <2> QED
    BY <1>7, <2>4, EndsIsStep DEF PayReceipt
<1> QED
  BY <1>4, <1>5, <1>6, <1>7

-----------------------------------------------------------------------------
(* Steps that add a payment, complete one or link it to an invoice *)

LEMMA StepFits ==
  ASSUME ActiveIInv, RowsTyped', RowsFit', threw' \in BOOLEAN,
         NEW c \in Clerks, NEW t, DeskStep(c, t), t \in Task => TaskFits(t)',
         \A d \in Clerks \ {c}, u \in Task : desk[d] = u => TaskFits(u)'
  PROVE  ActiveIInv'
<1>1. /\ RequestsApart' /\ desk' \in [Clerks -> Task \cup {Idle}]
      /\ desk'[c] = t /\ \A d \in Clerks \ {c} : desk'[d] = desk[d]
  BY DeskSteps DEF ActiveIInv, ActiveInv
<1>2. InvoiceTypeOK'
  BY <1>1, TypedTogether
<1>3. \A d \in Clerks, u \in Task : desk'[d] = u => TaskFits(u)'
  BY <1>1
<1> QED
  BY <1>1, <1>2, <1>3 DEF ActiveIInv, ActiveInv

\* A payment in progress is alone.
LEMMA PaysAlone ==
  ASSUME InvoicesApart, InvoiceTypeOK, RequestsApart, NEW c \in Clerks,
         \/ Working(c) /\ desk[c].op \in {"pay", "job"}
         \/ MayRun("pay") \/ MayRun("job")
  PROVE  \A d \in Clerks \ {c}, u \in Task : desk[d] # u
<1>0. Idle \notin Task /\ {"pay", "job"} \subseteq Op
  BY DEF Idle, Task, Op
<1>1. SUFFICES ASSUME NEW d \in Clerks \ {c}, Working(d)
               PROVE  FALSE
  BY <1>0 DEF Working
<1>2. CASE Working(c) /\ desk[c].op \in {"pay", "job"}
  <2>1. Beside(desk[c].op, desk[d].op)
    BY <1>1, <1>2, WhoIsBeside
  <2> QED
    BY <1>2, <2>1 DEF Beside
<1>3. CASE MayRun("pay")
  BY <1>0, <1>1, <1>3, WhoMayRun DEF Beside
<1>4. CASE MayRun("job")
  BY <1>0, <1>1, <1>4, WhoMayRun DEF Beside
<1> QED
  BY <1>2, <1>3, <1>4

LEMMA NewPaymentFits ==
  ASSUME InvoiceTypeOK, RowsFit, UNCHANGED invoice, NEW i, i = 0 \/ IsActive(i), NEW n \in Amounts,
         NEW st \in {"PENDING", "COMPLETED"}, NewPayment(i, n, st)
  PROVE  /\ RowsTyped' /\ RowsFit' /\ Len(payment') = Len(payment) + 1
         /\ payment'[Len(payment) + 1] = [invoice |-> i, amount |-> n, receipt |-> 0, status |-> st]
         /\ \A p \in DOMAIN payment : payment'[p] = payment[p]
<1> DEFINE row == [invoice |-> i, amount |-> n, receipt |-> 0, status |-> st]
<1>1. /\ DOMAIN payment = 1 .. Len(payment) /\ Len(payment) \in Nat /\ payment \in Seq(PaymentRow(Len(invoice)))
      /\ DOMAIN invoice = 1 .. Len(invoice) /\ Len(invoice) \in Nat
  BY RowTypes
<1>2. n \in Nat /\ n > 0 /\ i \in 0 .. Len(invoice)
  BY <1>1, InvoicingAssumption DEF IsActive
<1>3. row \in PaymentRow(Len(invoice)) /\ row.invoice = i /\ row.amount = n /\ row.status = st
  BY <1>2 DEF PaymentRow
<1>4. payment' = Append(payment, row)
  BY DEF NewPayment
<1> HIDE DEF row
<1>5. /\ payment' \in Seq(PaymentRow(Len(invoice))) /\ Len(payment') = Len(payment) + 1
      /\ payment'[Len(payment) + 1] = row
      /\ \A p \in DOMAIN payment : payment'[p] = payment[p]
      /\ \A p \in DOMAIN payment' : p \in DOMAIN payment \/ p = Len(payment) + 1
  BY <1>1, <1>3, <1>4
<1>6. RowsTyped'
  BY <1>5, TypedRows DEF RowsTyped
<1>7. (\A j : IsActive(j)' <=> IsActive(j)) /\ (\A j : Alive(j)' <=> Alive(j)) /\ Active(Masters)' = Active(Masters)
  BY DEF IsActive, Alive, Active, Masters, IsMaster
<1>8. i # 0 => Alive(i)
  BY ActiveIsAlive
<1>9. \A p \in DOMAIN payment' :
        /\ payment'[p].amount > 0
        /\ payment'[p].invoice # 0 => Alive(payment'[p].invoice)
        /\ payment'[p].invoice # 0 /\ payment'[p].status = "PENDING" => IsActive(payment'[p].invoice)
  <2>1. SUFFICES ASSUME NEW p \in DOMAIN payment'
                 PROVE  /\ payment'[p].amount > 0
                        /\ payment'[p].invoice # 0 => Alive(payment'[p].invoice)
                        /\ payment'[p].invoice # 0 /\ payment'[p].status = "PENDING" => IsActive(payment'[p].invoice)
    OBVIOUS
  <2>2. CASE p \in DOMAIN payment
    BY <1>5, <2>2 DEF RowsFit, Pending
  <2>3. CASE p = Len(payment) + 1
    BY <1>2, <1>3, <1>5, <1>8, <2>3
  <2> QED
    BY <1>5, <2>2, <2>3
<1>10. \A p \in DOMAIN payment' :
        /\ payment'[p].amount > 0
        /\ payment'[p].invoice # 0 => Alive(payment[p].invoice)'
        /\ payment'[p].invoice # 0 /\ p \in Pending' => IsActive(payment[p].invoice)'
  BY <1>9 DEF Pending, Alive, IsActive
<1>11. \A j \in DOMAIN invoice' : invoice'[j].parent # 0 =>
         /\ invoice'[invoice'[j].parent].parent = 0
         /\ IsActive(j)' => IsActive(invoice[j].parent)'
  BY DEF RowsFit, IsActive
<1> QED
  BY <1>5, <1>6, <1>7, <1>10, <1>11 DEF RowsFit, row

LEMMA PaymentsActive ==
  ASSUME InvoicesApart, Careful, ActiveIInv, NEW c \in Clerks,
         GeneratePaymentPayload(c) \/ PayInvoice(c) \/ \E n \in Amounts : PaySale(c, n)
  PROVE  ActiveIInv'
<1>0. InvoiceTypeOK /\ RowsFit /\ RequestsApart
  BY DEF ActiveIInv, ActiveInv
<1>1. UNCHANGED <<invoice, threw>> /\ threw' \in BOOLEAN /\ Len(payment) + 1 \in Nat \ {0}
  BY <1>0, RowTypes DEF GeneratePaymentPayload, PayInvoice, PaySale, InvoiceTypeOK
<1>2. CASE GeneratePaymentPayload(c)
  <2>1. Working(c) /\ TaskFits(desk[c]) /\ desk[c].step = "online" /\ desk[c].op = "pay"
    BY <1>0, <1>2, AtStep, DeskTypes, WhichOp DEF GeneratePaymentPayload
  <2>2. IsActive(desk[c].on) /\ desk[c].n \in Amounts
    BY <2>1 DEF TaskFits
  <2>3. RowsTyped' /\ RowsFit'
    BY <1>0, <1>1, <1>2, <2>2, NewPaymentFits DEF GeneratePaymentPayload
  <2>4. \A d \in Clerks \ {c}, u \in Task : desk[d] # u
    BY <1>0, <2>1, PaysAlone
  <2>5. DeskStep(c, Idle) /\ Idle \notin Task
    BY <1>2, EndsIsStep DEF GeneratePaymentPayload
  <2> QED
    BY <1>1, <2>3, <2>4, <2>5, StepFits
<1>3. CASE PayInvoice(c)
  <2>1. Working(c) /\ TaskFits(desk[c]) /\ desk[c].step = "record" /\ desk[c].op = "pay" /\ At(c, "record")
    BY <1>0, <1>3, AtStep, DeskTypes, WhichOp DEF PayInvoice
  <2>2. CASE UNCHANGED payment /\ Ends(c)
    BY <1>1, <2>1, <2>2, ReadingsActive
  <2>3. CASE /\ NewPayment(desk[c].on, desk[c].n, "COMPLETED")
             /\ desk' = [desk EXCEPT ![c].step = "derive", ![c].pay = Len(payment) + 1]
    <3>1. IsActive(desk[c].on) /\ desk[c].n \in Amounts /\ desk[c].status # "VOID"
      BY <2>1 DEF TaskFits
    <3>2. /\ RowsTyped' /\ RowsFit' /\ Len(payment') = Len(payment) + 1
          /\ payment'[Len(payment) + 1].invoice = desk[c].on /\ payment'[Len(payment) + 1].status = "COMPLETED"
      <4>1. PICK i, n : i = desk[c].on /\ n = desk[c].n
        OBVIOUS
      <4>2. IsActive(i) /\ n \in Amounts /\ NewPayment(i, n, "COMPLETED")
        BY <2>3, <3>1, <4>1
      <4>3. /\ RowsTyped' /\ RowsFit' /\ Len(payment') = Len(payment) + 1
            /\ payment'[Len(payment) + 1] = [invoice |-> i, amount |-> n, receipt |-> 0, status |-> "COMPLETED"]
        BY <1>0, <1>1, <4>2, NewPaymentFits
      <4> QED
        BY <4>1, <4>3
    <3>3. PICK t : Follows(c, t, "derive", Len(payment) + 1, desk[c].n, desk[c].saw, desk[c].status)
      BY <1>0, <1>1, <2>1, <2>3, GoesTo, StepKinds
    <3>4. Len(payment) + 1 \in Completed'
      BY <1>1, <3>2 DEF RowsTyped, Completed
    <3>5. TaskFits(t)'
      BY <1>1, <2>1, <3>1, <3>2, <3>3, <3>4 DEF TaskFits, StepsOf, Follows, IsActive
    <3>6. \A d \in Clerks \ {c}, u \in Task : desk[d] # u
      BY <1>0, <2>1, PaysAlone
    <3> QED
      BY <1>1, <3>2, <3>3, <3>5, <3>6, StepFits DEF Follows
  <2> QED
    BY <1>3, <2>2, <2>3 DEF PayInvoice
<1>4. ASSUME NEW n \in Amounts, PaySale(c, n)
      PROVE  ActiveIInv'
  <2>1. RowsTyped' /\ RowsFit'
    BY <1>0, <1>1, <1>4, NewPaymentFits DEF PaySale
  <2>2. PICK st \in Status :
          /\ DeskStep(c, [op |-> "job", step |-> "post", on |-> 0, pay |-> Len(payment) + 1, n |-> 0, saw |-> 0, status |-> st])
          /\ 0 # 0 => st = invoice[0].status
          /\ ~Working(c) /\ MayRun("job")
    <3>1. Takes(c, "job", "post", 0, Len(payment) + 1, 0, 0) /\ "job" \in Op /\ "post" \in InvoiceStep
      BY <1>4 DEF PaySale, Op, InvoiceStep
    <3> QED
      BY <1>0, <1>1, <3>1, TakesIsStep
  <2>b. PICK t : t = [op |-> "job", step |-> "post", on |-> 0, pay |-> Len(payment) + 1, n |-> 0, saw |-> 0, status |-> st]
    OBVIOUS
  <2>3. TaskFits(t)'
    BY <2>b DEF TaskFits, StepsOf
  <2>4. \A d \in Clerks \ {c}, u \in Task : desk[d] # u
    BY <1>0, <2>2, PaysAlone
  <2>5. DeskStep(c, t)
    BY <2>b, <2>2
  <2> QED
    BY <1>1, <2>1, <2>3, <2>4, <2>5, StepFits
<1> QED
  BY <1>2, <1>3, <1>4

LEMMA SaleOnlineActive ==
  ASSUME InvoicesApart, ActiveIInv, NEW n \in Amounts, PaySaleOnline(n)
  PROVE  ActiveIInv'
<1>0. InvoiceTypeOK /\ RowsFit /\ RequestsApart
  BY DEF ActiveIInv, ActiveInv
<1>1. RowsTyped' /\ RowsFit'
  BY <1>0, NewPaymentFits DEF PaySaleOnline
<1>2. UNCHANGED <<desk, threw>> /\ MayRun("pay")
  BY DEF PaySaleOnline
<1>3. \A c \in Clerks, u \in Task : desk[c] # u
  <2>1. SUFFICES ASSUME NEW c \in Clerks, NEW u \in Task, desk[c] = u PROVE FALSE
    OBVIOUS
  <2>2. Working(c) /\ "pay" \in Op
    BY <2>1 DEF Working, Idle, Task, Op
  <2> QED
    BY <1>0, <1>2, <2>2, WhoMayRun DEF Beside
<1>4. InvoiceTypeOK'
  BY <1>0, <1>1, <1>2, TypedTogether DEF InvoiceTypeOK
<1>5. RequestsApart'
  BY <1>0, <1>2 DEF RequestsApart, Working
<1> QED
  BY <1>1, <1>2, <1>3, <1>4, <1>5 DEF ActiveIInv, ActiveInv

\* A payment is completed, or joins an invoice whose master is active.
Joined(p) ==
  /\ payment'[p].amount = payment[p].amount
  /\ payment'[p].status \in {payment[p].status, "COMPLETED"}
  /\ \/ payment'[p].invoice = payment[p].invoice
     \/ p \in Completed /\ payment[p].invoice = 0 /\ Alive(payment'[p].invoice)

LEMMA JoinedFits ==
  ASSUME InvoiceTypeOK, RowsFit, UNCHANGED invoice, RowsTyped', Len(payment') = Len(payment),
         \A p \in DOMAIN payment : Joined(p)
  PROVE  /\ RowsFit' /\ Pending' \subseteq Pending /\ Completed \subseteq Completed'
         /\ \A p \in DOMAIN payment : payment[p].invoice # 0 => payment'[p].invoice = payment[p].invoice
         /\ \A i : (IsActive(i)' <=> IsActive(i)) /\ (Alive(i)' <=> Alive(i))
         /\ \A i : Active(Subs(i))' = Active(Subs(i))
         /\ Active(Masters)' = Active(Masters)
<1>1. DOMAIN payment' = DOMAIN payment
  BY RowTypes DEF RowsTyped
<1>2. /\ \A i : (IsActive(i)' <=> IsActive(i)) /\ (Alive(i)' <=> Alive(i))
      /\ \A i : Active(Subs(i))' = Active(Subs(i))
      /\ Active(Masters)' = Active(Masters)
  BY DEF IsActive, Alive, Active, Masters, IsMaster, Subs
<1>3. Pending' \subseteq Pending /\ Completed \subseteq Completed'
  BY <1>1, RowTypes DEF Joined, Pending, Completed
<1>4. \A p \in DOMAIN payment : p \notin Pending <=> p \in Completed
  BY RowTypes DEF Pending, Completed
<1>5. \A p \in DOMAIN payment :
        /\ payment'[p].amount > 0
        /\ payment'[p].invoice # 0 => Alive(payment'[p].invoice)
        /\ payment'[p].invoice # 0 /\ payment'[p].status = "PENDING" => IsActive(payment'[p].invoice)
  BY <1>4 DEF RowsFit, Joined, Pending, Completed
<1>6. \A p \in DOMAIN payment' :
        /\ payment'[p].amount > 0
        /\ payment'[p].invoice # 0 => Alive(payment[p].invoice)'
        /\ payment'[p].invoice # 0 /\ p \in Pending' => IsActive(payment[p].invoice)'
  BY <1>1, <1>5 DEF Pending, Alive, IsActive
<1>7. \A j \in DOMAIN invoice' : invoice'[j].parent # 0 =>
         /\ invoice'[invoice'[j].parent].parent = 0
         /\ IsActive(j)' => IsActive(invoice[j].parent)'
  BY DEF RowsFit, IsActive
<1>8. RowsFit'
  BY <1>1, <1>2, <1>6, <1>7 DEF RowsFit
<1>9. \A p \in DOMAIN payment : payment[p].invoice # 0 => payment'[p].invoice = payment[p].invoice
  BY DEF Joined
<1> QED
  BY <1>2, <1>3, <1>8, <1>9

\* Such a step leaves true what other requests have read.
LEMMA JoinedTasks ==
  ASSUME InvoiceTypeOK, RowsFit, UNCHANGED invoice, RowsTyped', Len(payment') = Len(payment),
         \A p \in DOMAIN payment : Joined(p), Completed' = Completed,
         NEW t \in Task, TaskFits(t), t.op # "receipt"
  PROVE  TaskFits(t)'
<1>1. t.pay \in Completed /\ payment[t.pay].invoice = t.on /\ t.on # 0 => payment'[t.pay].invoice = t.on
  BY JoinedFits DEF Completed
<1>2. t.op = "pay" => t.on # 0
  BY RowTypes DEF TaskFits, IsActive
<1>3. t.on \in DOMAIN invoice => (IsMaster(t.on)' <=> IsMaster(t.on))
  BY DEF IsMaster
<1>4. Pending = {} => Pending' = {}
  BY JoinedFits
<1>5. /\ IsActive(t.on)' <=> IsActive(t.on)
      /\ Active(Subs(t.on))' = Active(Subs(t.on))
      /\ Active(Masters)' = Active(Masters)
  BY JoinedFits
<1> QED
  BY <1>1, <1>2, <1>3, <1>4, <1>5 DEF TaskFits

LEMMA JoinsActive ==
  ASSUME InvoicesApart, Careful, ActiveIInv, NEW c \in Clerks,
         \/ \E p \in DOMAIN payment : Confirm(c, p)
         \/ SyncLinks(c) \/ GenerateReceiptForInvoice(c)
  PROVE  /\ ActiveIInv' /\ DOMAIN payment' = DOMAIN payment /\ \A p \in DOMAIN payment : Joined(p)
         /\ \/ Completed' = Completed /\ Pending' = Pending
            \/ \E p \in Pending : Confirm(c, p) /\ Completed' = Completed \cup {p} /\ Pending' = Pending \ {p}
<1>0. InvoiceTypeOK /\ RowsFit /\ RequestsApart
  BY DEF ActiveIInv, ActiveInv
<1>1. /\ UNCHANGED invoice /\ threw' \in BOOLEAN
      /\ DOMAIN payment = 1 .. Len(payment) /\ Len(payment) \in Nat
      /\ DOMAIN invoice = 1 .. Len(invoice) /\ Len(invoice) \in Nat
      /\ \A p \in DOMAIN payment : payment[p] \in PaymentRow(Len(invoice))
      /\ payment \in Seq(PaymentRow(Len(invoice)))
  BY <1>0, RowTypes DEF Confirm, SyncLinks, GenerateReceiptForInvoice, InvoiceTypeOK
<1>2. ASSUME NEW p \in DOMAIN payment, Confirm(c, p)
      PROVE  /\ ActiveIInv' /\ DOMAIN payment' = DOMAIN payment /\ \A q \in DOMAIN payment : Joined(q)
             /\ p \in Pending /\ Completed' = Completed \cup {p} /\ Pending' = Pending \ {p}
  <2>1. /\ p \in Pending /\ payment' = [payment EXCEPT ![p].status = "COMPLETED"]
        /\ Takes(c, "job", "post", payment[p].invoice, p, 0, 0)
    BY <1>2 DEF Confirm
  <2>2. /\ payment' \in Seq(PaymentRow(Len(invoice))) /\ Len(payment') = Len(payment)
        /\ \A q \in DOMAIN payment : Joined(q)
        /\ payment'[p].status = "COMPLETED" /\ \A q \in DOMAIN payment : q # p => payment'[q] = payment[q]
    <3> DEFINE row == [payment[p] EXCEPT !.status = "COMPLETED"]
    <3>1. /\ row \in PaymentRow(Len(invoice)) /\ row.status = "COMPLETED"
          /\ row.invoice = payment[p].invoice /\ row.amount = payment[p].amount
      BY <1>1 DEF PaymentRow
    <3>2. payment' = [payment EXCEPT ![p] = row]
      BY <2>1
    <3> HIDE DEF row
    <3>3. /\ payment' \in Seq(PaymentRow(Len(invoice))) /\ Len(payment') = Len(payment)
          /\ payment'[p] = row /\ \A q \in DOMAIN payment : q # p => payment'[q] = payment[q]
      BY <1>1, <3>1, <3>2
    <3> QED
      BY <3>1, <3>3 DEF Joined
  <2>3. RowsTyped'
    BY <1>0, <1>1, <2>2, TypedRows DEF RowsTyped
  <2>4. PICK i : i = payment[p].invoice
    OBVIOUS
  <2>5. i \in Nat /\ (i # 0 => i \in DOMAIN invoice /\ IsActive(i)) /\ p \in Nat /\ "job" \in Op /\ "post" \in InvoiceStep
    BY <1>0, <1>1, <2>1, <2>4, RowTypes DEF RowsFit, IsActive, Op, InvoiceStep
  <2>6. Takes(c, "job", "post", i, p, 0, 0)
    BY <2>1, <2>4
  <2>7. PICK st \in Status :
          /\ DeskStep(c, [op |-> "job", step |-> "post", on |-> i, pay |-> p, n |-> 0, saw |-> 0, status |-> st])
          /\ i # 0 => st = invoice[i].status
          /\ ~Working(c) /\ MayRun("job")
    BY <1>0, <2>5, <2>6, TakesIsStep
  <2>8. RowsFit' /\ (IsActive(i)' <=> IsActive(i))
    BY <1>0, <1>1, <2>2, <2>3, JoinedFits
  <2>b. PICK t : t = [op |-> "job", step |-> "post", on |-> i, pay |-> p, n |-> 0, saw |-> 0, status |-> st]
    OBVIOUS
  <2>9. TaskFits(t)'
    BY <2>5, <2>8, <2>b DEF TaskFits, StepsOf
  <2>10. \A d \in Clerks \ {c}, u \in Task : desk[d] # u
    BY <1>0, <2>7, PaysAlone
  <2> QED
    <3>1. ActiveIInv'
      BY <1>1, <2>3, <2>7, <2>8, <2>b, <2>9, <2>10, StepFits
    <3>2. DOMAIN payment' = DOMAIN payment
      BY <1>1, <2>2
    <3>3. Completed' = Completed \cup {p} /\ Pending' = Pending \ {p}
      BY <2>1, <2>2, <3>2 DEF Completed, Pending
    <3> QED
      BY <2>1, <2>2, <3>1, <3>2, <3>3
<1>3. CASE SyncLinks(c)
  <2>1. /\ Working(c) /\ TaskFits(desk[c]) /\ desk[c].step = "link"
        /\ desk[c].op \in {"pay", "job", "master", "view"} /\ desk[c].n \in Nat
    BY <1>0, <1>3, AtStep, DeskTypes, WhichOp DEF SyncLinks
  <2>2. desk[c].n \in DOMAIN invoice /\ Alive(desk[c].n)
    BY <1>0, <2>1, MasterIsActive, ActiveIsAlive DEF TaskFits, IsActive
  <2>3. \A p \in DOMAIN payment :
          /\ payment'[p] \in PaymentRow(Len(invoice)) /\ Joined(p) /\ payment'[p].status = payment[p].status
    <3>1. SUFFICES ASSUME NEW p \in DOMAIN payment
                   PROVE  /\ payment'[p] \in PaymentRow(Len(invoice)) /\ Joined(p)
                          /\ payment'[p].status = payment[p].status
      OBVIOUS
    <3>2. payment[p] \in PaymentRow(Len(invoice)) /\ desk[c].n \in 0 .. Len(invoice)
      BY <1>1, <2>2
    <3>3. CASE p \in LinkedTo({0})
      <4>1. payment'[p] = [payment[p] EXCEPT !.invoice = desk[c].n]
        BY <1>3, <3>3 DEF SyncLinks
      <4> QED
        BY <2>2, <3>2, <3>3, <4>1 DEF Joined, LinkedTo, PaymentRow
    <3>4. CASE p \notin LinkedTo({0})
      <4>1. payment'[p] = payment[p]
        BY <1>3, <3>4 DEF SyncLinks
      <4> QED
        BY <3>2, <4>1 DEF Joined
    <3> QED
      BY <3>3, <3>4
  <2>4. payment' = [p \in 1 .. Len(payment) |-> payment'[p]]
    BY <1>1, <1>3 DEF SyncLinks
  <2>5. payment' \in Seq(PaymentRow(Len(invoice))) /\ Len(payment') = Len(payment)
    BY <1>1, <2>3, <2>4
  <2>6. RowsTyped' /\ Completed' = Completed /\ Pending' = Pending /\ DOMAIN payment' = DOMAIN payment
    BY <1>0, <1>1, <2>3, <2>5, TypedRows DEF RowsTyped, Completed, Pending
  <2>7. RowsFit' /\ \A u \in Task : TaskFits(u) /\ u.op # "receipt" => TaskFits(u)'
    BY <1>0, <1>1, <2>3, <2>5, <2>6, JoinedFits, JoinedTasks
  <2>8. \A d \in Clerks \ {c}, u \in Task : desk[d] = u => u.op # "receipt"
    <3>1. SUFFICES ASSUME NEW d \in Clerks \ {c}, NEW u \in Task, desk[d] = u PROVE u.op # "receipt"
      OBVIOUS
    <3>2. Working(d)
      BY <3>1 DEF Working, Idle, Task, Op
    <3> QED
      BY <1>0, <2>1, <3>1, <3>2, WhoIsBeside DEF Beside
  <2>9. \A d \in Clerks \ {c}, u \in Task : desk[d] = u => TaskFits(u)'
    BY <2>7, <2>8 DEF ActiveIInv, ActiveInv
  <2>10. PICK t : Follows(c, t, "sum", desk[c].pay, desk[c].n, desk[c].saw, desk[c].status)
    BY <1>0, <1>3, <2>1, GoesTo, StepKinds DEF SyncLinks
  <2>11. TaskFits(t) /\ t \in Task /\ t.op # "receipt" /\ DeskStep(c, t)
    BY <2>1, <2>10 DEF TaskFits, StepsOf, Follows
  <2> QED
    BY <1>1, <2>3, <2>6, <2>7, <2>9, <2>11, StepFits
<1>4. CASE GenerateReceiptForInvoice(c)
  <2>1. /\ Working(c) /\ TaskFits(desk[c]) /\ desk[c].op = "receipt"
    BY <1>4, AtStep DEF GenerateReceiptForInvoice
  <2>2. PICK p, i, saw : p = desk[c].pay /\ i = desk[c].on /\ saw = desk[c].saw
    OBVIOUS
  <2>3. p \in Completed /\ Alive(i) /\ saw \in {0, i} /\ payment[p].invoice = saw /\ p \in DOMAIN payment
    BY <2>1, <2>2 DEF TaskFits, Completed
  <2>4. payment' = [payment EXCEPT ![p] = LinkAndReceipt(p, i, saw)]
    BY <1>4, <2>2 DEF GenerateReceiptForInvoice
  <2>5. PICK j, r : j = (IF saw = 0 THEN i ELSE payment[p].invoice) /\ r = (IF payment[p].receipt = 0 THEN i ELSE payment[p].receipt)
    OBVIOUS
  <2>d. j = i
    BY <2>3, <2>5
  <2>e. j \in 0 .. Len(invoice)
    BY <1>1, <2>3, <2>d DEF Alive
  <2>f. payment[p].receipt \in 0 .. Len(invoice)
    BY <1>1, <2>3 DEF PaymentRow
  <2>a. j = i /\ j \in 0 .. Len(invoice) /\ r \in 0 .. Len(invoice)
    BY <2>5, <2>d, <2>e, <2>f
  <2>b. PICK half : half = [payment[p] EXCEPT !.invoice = j]
    OBVIOUS
  <2>c. LinkAndReceipt(p, i, saw) = [half EXCEPT !.receipt = r]
    <3>1. LinkAndReceipt(p, i, saw) = [payment[p] EXCEPT !.invoice = j, !.receipt = r]
      <4>1. half.receipt = payment[p].receipt
        BY <1>1, <2>3, <2>b DEF PaymentRow
      <4> QED
        BY <2>5, <2>b, <4>1, Zenon DEF LinkAndReceipt
    <3> QED
      BY <2>b, <3>1, Zenon
  <2> DEFINE row == LinkAndReceipt(p, i, saw)
  <2>6. /\ row \in PaymentRow(Len(invoice)) /\ row.status = payment[p].status
        /\ row.invoice = i /\ row.amount = payment[p].amount
    BY <1>1, <2>3, <2>a, <2>b, <2>c DEF PaymentRow
  <2> HIDE DEF row
  <2>7. /\ payment' \in Seq(PaymentRow(Len(invoice))) /\ Len(payment') = Len(payment)
        /\ payment'[p] = row /\ \A q \in DOMAIN payment : q # p => payment'[q] = payment[q]
    BY <1>1, <2>3, <2>4, <2>6 DEF row
  <2>8. \A q \in DOMAIN payment : Joined(q) /\ payment'[q].status = payment[q].status
    BY <2>3, <2>6, <2>7 DEF Joined
  <2>9. RowsTyped' /\ Completed' = Completed /\ Pending' = Pending /\ DOMAIN payment' = DOMAIN payment
    BY <1>0, <1>1, <2>7, <2>8, TypedRows DEF RowsTyped, Completed, Pending
  <2>10. RowsFit' /\ \A u \in Task : TaskFits(u) /\ u.op # "receipt" => TaskFits(u)'
    BY <1>0, <1>1, <2>7, <2>8, <2>9, JoinedFits, JoinedTasks
  <2>11. \A d \in Clerks \ {c}, u \in Task : desk[d] = u => u.op # "receipt"
    <3>1. SUFFICES ASSUME NEW d \in Clerks \ {c}, NEW u \in Task, desk[d] = u PROVE u.op # "receipt"
      OBVIOUS
    <3>2. Working(d)
      BY <3>1 DEF Working, Idle, Task, Op
    <3> QED
      BY <1>0, <2>1, <3>1, <3>2, WhoIsBeside DEF Beside
  <2>12. \A d \in Clerks \ {c}, u \in Task : desk[d] = u => TaskFits(u)'
    BY <2>10, <2>11 DEF ActiveIInv, ActiveInv
  <2>13. DeskStep(c, Idle) /\ Idle \notin Task
    BY <1>4, EndsIsStep DEF GenerateReceiptForInvoice
  <2> QED
    BY <1>1, <2>8, <2>9, <2>10, <2>12, <2>13, StepFits
<1> QED
  BY <1>2, <1>3, <1>4

-----------------------------------------------------------------------------
(* Steps that add or void an invoice *)

LEMMA RowType ==
  ASSUME InvoiceTypeOK, NEW parent \in 0 .. Len(invoice), NEW number \in Nat, NEW n \in Nat
  PROVE  /\ Row(parent, number, n) \in InvoiceRow(Len(invoice) + 1)
         /\ WithTax(n) \in Nat /\ WithTax(n) >= n
<1>1. n * TaxRate \in Nat
  BY InvoicingAssumption
<1>2. (n * TaxRate) \div 100 \in Nat
  <2> DEFINE x == n * TaxRate
  <2>1. x \in Nat
    BY <1>1
  <2> HIDE DEF x
  <2>2. x \div 100 \in Nat
    BY <2>1
  <2> QED
    BY <2>2 DEF x
<1>3. WithTax(n) \in Nat /\ WithTax(n) >= n
  BY <1>2 DEF WithTax
<1>4. Len(invoice) \in Nat
  BY RowTypes
<1> QED
  BY <1>3, <1>4 DEF Row, InvoiceRow, Status

LEMMA AddedFits ==
  ASSUME InvoiceTypeOK, RowsFit, UNCHANGED payment, NEW row \in InvoiceRow(Len(invoice) + 1),
         invoice' = Append(invoice, row), row.status = "SENT",
         IF row.parent = 0 THEN Active(Masters) = {} ELSE row.parent \in Active(Masters)
  PROVE  /\ RowsTyped' /\ RowsFit'
         /\ DOMAIN invoice' = DOMAIN invoice \cup {Len(invoice) + 1} /\ Len(invoice) + 1 \notin DOMAIN invoice
         /\ \A i \in DOMAIN invoice : invoice'[i] = invoice[i]
         /\ invoice'[Len(invoice) + 1] = row
         /\ \A i : (IsActive(i) => IsActive(i)') /\ (Alive(i) => Alive(i)')
         /\ Active(Masters)' = Active(Masters) \cup (IF row.parent = 0 THEN {Len(invoice) + 1} ELSE {})
<1>1. /\ invoice \in Seq(InvoiceRow(Len(invoice))) /\ DOMAIN invoice = 1 .. Len(invoice) /\ Len(invoice) \in Nat
      /\ payment \in Seq(PaymentRow(Len(invoice))) /\ DOMAIN payment = 1 .. Len(payment) /\ Len(payment) \in Nat
      /\ \A i \in DOMAIN invoice : invoice[i].parent \in 0 .. Len(invoice)
  BY RowTypes
<1>0. 0 .. Len(invoice) \subseteq 0 .. (Len(invoice) + 1)
  BY <1>1
<1>a. InvoiceRow(Len(invoice)) \subseteq InvoiceRow(Len(invoice) + 1)
  BY <1>0 DEF InvoiceRow
<1>b. PaymentRow(Len(invoice)) \subseteq PaymentRow(Len(invoice) + 1)
  BY <1>0 DEF PaymentRow
<1>2. /\ InvoiceRow(Len(invoice)) \subseteq InvoiceRow(Len(invoice) + 1)
      /\ PaymentRow(Len(invoice)) \subseteq PaymentRow(Len(invoice) + 1)
  BY <1>a, <1>b
<1>3. /\ invoice \in Seq(InvoiceRow(Len(invoice) + 1))
      /\ payment \in Seq(PaymentRow(Len(invoice) + 1))
  BY <1>1, <1>2
<1>4. /\ invoice' \in Seq(InvoiceRow(Len(invoice) + 1)) /\ Len(invoice') = Len(invoice) + 1
      /\ \A i \in DOMAIN invoice : invoice'[i] = invoice[i]
      /\ invoice'[Len(invoice) + 1] = row
      /\ DOMAIN invoice' = DOMAIN invoice \cup {Len(invoice) + 1} /\ Len(invoice) + 1 \notin DOMAIN invoice
  BY <1>1, <1>3
<1>5. RowsTyped'
  BY <1>3, <1>4 DEF RowsTyped
<1>6. \A i : IsActive(i)' <=> IsActive(i) \/ i = Len(invoice) + 1
  BY <1>4 DEF IsActive
<1>7. \A i : Alive(i) => Alive(i)'
  BY <1>4, <1>6 DEF Alive
<1>8. Active(Masters)' = Active(Masters) \cup (IF row.parent = 0 THEN {Len(invoice) + 1} ELSE {})
  BY <1>4 DEF Active, Masters, IsMaster
<1>9. \A i, j \in Active(Masters)' : i = j
  BY <1>8 DEF RowsFit
<1>10. row.parent # 0 => row.parent \in DOMAIN invoice /\ IsActive(row.parent) /\ invoice[row.parent].parent = 0
  BY DEF Active, Masters, IsMaster, IsActive
<1>11. ASSUME NEW i \in DOMAIN invoice', invoice'[i].parent # 0
       PROVE  /\ invoice'[invoice'[i].parent].parent = 0
              /\ IsActive(i)' => IsActive(invoice[i].parent)'
  <2>1. CASE i = Len(invoice) + 1
    BY <1>4, <1>6, <1>10, <1>11, <2>1 DEF IsActive
  <2>2. CASE i # Len(invoice) + 1
    <3>1. i \in DOMAIN invoice /\ invoice'[i].parent = invoice[i].parent
      BY <1>4, <2>2
    <3>2. invoice[i].parent \in DOMAIN invoice
      BY <1>1, <1>11, <3>1
    <3>3. invoice[invoice[i].parent].parent = 0 /\ (IsActive(i) => IsActive(invoice[i].parent))
      BY <1>11, <3>1 DEF RowsFit
    <3>4. IsActive(invoice[i].parent)' <=> IsActive(invoice[i].parent) \/ invoice[i].parent = Len(invoice) + 1
      <4>1. PICK m : m = invoice[i].parent
        OBVIOUS
      <4>2. IsActive(invoice[i].parent)' <=> IsActive(m)'
        BY <3>1, <4>1 DEF IsActive
      <4> QED
        BY <1>6, <4>1, <4>2
    <3> QED
      BY <1>4, <1>6, <2>2, <3>1, <3>2, <3>3, <3>4
  <2> QED
    BY <2>1, <2>2
<1>12. \A p \in DOMAIN payment' :
        /\ payment'[p].amount > 0
        /\ payment'[p].invoice # 0 => Alive(payment[p].invoice)'
        /\ payment'[p].invoice # 0 /\ p \in Pending' => IsActive(payment[p].invoice)'
  <2>1. SUFFICES ASSUME NEW p \in DOMAIN payment
                 PROVE  /\ payment[p].amount > 0
                        /\ payment[p].invoice # 0 => Alive(payment[p].invoice)'
                        /\ payment[p].invoice # 0 /\ p \in Pending => IsActive(payment[p].invoice)'
    BY DEF Pending
  <2>2. PICK i : i = payment[p].invoice
    OBVIOUS
  <2>3. (IsActive(payment[p].invoice)' <=> IsActive(i)') /\ (Alive(payment[p].invoice)' <=> Alive(i)')
    BY <2>2 DEF Alive, IsActive
  <2> QED
    BY <1>6, <1>7, <2>2, <2>3 DEF RowsFit
<1> QED
  BY <1>4, <1>5, <1>6, <1>7, <1>8, <1>9, <1>11, <1>12 DEF RowsFit

LEMMA CreatesActive ==
  ASSUME InvoicesApart, Careful, ActiveIInv, NEW c \in Clerks, GenerateMasterInvoice(c) \/ CreateSubInvoice(c)
  PROVE  ActiveIInv' /\ VoidStays
<1>0. InvoiceTypeOK /\ RowsFit /\ RequestsApart
  BY DEF ActiveIInv, ActiveInv
<1>1. UNCHANGED payment /\ threw' \in BOOLEAN
  BY <1>0 DEF GenerateMasterInvoice, CreateSubInvoice, InvoiceTypeOK
<1>2. Completed' = Completed /\ Pending' = Pending
  BY <1>1 DEF Completed, Pending
<1>3. CASE GenerateMasterInvoice(c)
  <2>1. Working(c) /\ TaskFits(desk[c]) /\ desk[c].step = "create" /\ desk[c].op = "master"
    BY <1>3, AtStep DEF GenerateMasterInvoice
  <2>2. Active(Masters) = {}
    BY <2>1 DEF TaskFits
  <2>3. PICK row : row = Row(0, 0, Price)
    OBVIOUS
  <2>4. row \in InvoiceRow(Len(invoice) + 1) /\ row.status = "SENT" /\ row.parent = 0
    <3>1. row \in InvoiceRow(Len(invoice) + 1)
      BY <1>0, <2>3, RowType, RowTypes, InvoicingAssumption
    <3> QED
      BY <2>3, <3>1 DEF Row
  <2>5. RowsTyped' /\ RowsFit' /\ \A i \in DOMAIN invoice : invoice'[i] = invoice[i]
    BY <1>0, <1>1, <1>3, <2>2, <2>3, <2>4, AddedFits DEF GenerateMasterInvoice
  <2>a. VoidStays
    BY <2>5 DEF VoidStays
  <2>6. PICK t : Follows(c, t, "find", desk[c].pay, desk[c].n, desk[c].saw, desk[c].status)
    BY <1>0, <1>3, <2>1, GoesTo, StepKinds DEF GenerateMasterInvoice
  <2>7. TaskFits(t)' /\ DeskStep(c, t)
    BY <2>1, <2>6 DEF TaskFits, StepsOf, Follows
  <2>8. ASSUME NEW d \in Clerks \ {c}, NEW u \in Task, desk[d] = u
        PROVE  TaskFits(u)'
    <3>1. Working(d) /\ TaskFits(u)
      BY <2>8 DEF Working, Idle, Task, Op, ActiveIInv, ActiveInv
    <3>2. u.op \in {"view", "sub"}
      BY <1>0, <2>1, <2>8, <3>1, WhoIsBeside DEF Beside
    <3>3. u.op = "view" /\ u.step = "find"
      BY <2>2, <3>1, <3>2 DEF TaskFits, StepsOf
    <3> QED
      BY <3>3 DEF TaskFits, StepsOf
  <2> QED
    BY <1>1, <2>a, <2>5, <2>7, <2>8, StepFits
<1>4. CASE CreateSubInvoice(c)
  <2>1. /\ Working(c) /\ TaskFits(desk[c]) /\ desk[c].step = "create" /\ desk[c].op = "sub" /\ At(c, "create")
        /\ desk[c].saw \in Nat
    BY <1>0, <1>4, AtStep, DeskTypes DEF CreateSubInvoice
  <2>2. PICK m, number, n : m = desk[c].on /\ number = desk[c].saw /\ n = desk[c].n
    OBVIOUS
  <2>3. m \in Active(Masters) /\ m # 0 /\ m \in 0 .. Len(invoice) /\ n \in Nat /\ number \in Nat
    <3>1. m \in Active(Masters) /\ n \in Amounts
      BY <2>1, <2>2 DEF TaskFits
    <3> QED
      BY <1>0, <2>1, <2>2, <3>1, RowTypes, InvoicingAssumption DEF Active, Masters
  <2>4. CASE UNCHANGED invoice
    BY <1>1, <1>4, <2>1, <2>4, ReadingsActive DEF CreateSubInvoice, VoidStays
  <2>5. CASE invoice' = Append(invoice, Row(m, number, n))
    <3>1. PICK row : row = Row(m, number, n)
      OBVIOUS
    <3>2. row \in InvoiceRow(Len(invoice) + 1) /\ row.status = "SENT" /\ row.parent = m
      <4>1. row \in InvoiceRow(Len(invoice) + 1)
        BY <1>0, <2>3, <3>1, RowType
      <4> QED
        BY <3>1, <4>1 DEF Row
    <3>3. /\ RowsTyped' /\ RowsFit' /\ Active(Masters)' = Active(Masters) /\ \A i \in DOMAIN invoice : invoice'[i] = invoice[i]
          /\ \A i : (IsActive(i) => IsActive(i)') /\ (Alive(i) => Alive(i)')
      BY <1>0, <1>1, <2>3, <2>5, <3>1, <3>2, AddedFits
    <3>4. ASSUME NEW d \in Clerks \ {c}, NEW u \in Task, desk[d] = u
          PROVE  TaskFits(u)'
      <4>1. Working(d) /\ TaskFits(u)
        BY <3>4 DEF Working, Idle, Task, Op, ActiveIInv, ActiveInv
      <4>2. u.op \in {"view", "sub", "master", "receipt"}
        BY <1>0, <2>1, <3>4, <4>1, WhoIsBeside DEF Beside
      <4>3. u.op = "receipt" => payment'[u.pay].invoice = payment[u.pay].invoice
        BY <1>1
      <4> QED
        BY <1>2, <3>3, <4>1, <4>2, <4>3 DEF TaskFits
    <3>5. DeskStep(c, Idle) /\ Idle \notin Task
      BY <1>4, EndsIsStep DEF CreateSubInvoice
    <3> QED
      BY <1>1, <3>3, <3>4, <3>5, StepFits DEF VoidStays
  <2> QED
    BY <1>4, <2>2, <2>4, <2>5 DEF CreateSubInvoice
<1> QED
  BY <1>3, <1>4

LEMMA VoidActive ==
  ASSUME InvoicesApart, Careful, ActiveIInv, NEW c \in Clerks, VoidInvoice(c)
  PROVE  ActiveIInv' /\ VoidStays
<1>0. InvoiceTypeOK /\ RowsFit /\ RequestsApart
  BY DEF ActiveIInv, ActiveInv
<1>1. UNCHANGED payment /\ threw' \in BOOLEAN /\ Completed' = Completed /\ Pending' = Pending
  BY <1>0 DEF VoidInvoice, InvoiceTypeOK, Completed, Pending
<1>2. /\ Working(c) /\ TaskFits(desk[c]) /\ desk[c].op = "void"
  BY AtStep DEF VoidInvoice
<1>3. PICK on : on = desk[c].on
  OBVIOUS
<1>4. /\ on \in DOMAIN invoice /\ Pending = {} /\ desk[c].saw = Len(invoice)
      /\ IsMaster(on) => Completed = {}
  BY <1>2, <1>3 DEF TaskFits
<1>5. /\ DOMAIN invoice = 1 .. Len(invoice) /\ Len(invoice) \in Nat
      /\ \A i \in DOMAIN invoice : invoice[i] \in InvoiceRow(Len(invoice))
      /\ DOMAIN payment = Completed \cup Pending
  BY <1>0, RowTypes DEF Completed, Pending
<1> DEFINE voided == {on} \cup Subs(on)
<1>6. invoice' = [i \in DOMAIN invoice |-> IF i \in voided THEN [invoice[i] EXCEPT !.status = "VOID"] ELSE invoice[i]]
  <2>1. Subs(on) \cap 1 .. Len(invoice) = Subs(on)
    BY <1>5 DEF Subs
  <2> QED
    BY <1>3, <1>4, <2>1 DEF VoidInvoice
<1>7. \A i : i \in voided <=> i = on \/ (i \in DOMAIN invoice /\ invoice[i].parent = on)
  BY DEF Subs
<1> HIDE DEF voided
<1>8. \A i \in DOMAIN invoice :
        /\ invoice'[i] \in InvoiceRow(Len(invoice))
        /\ invoice'[i].parent = invoice[i].parent
        /\ invoice'[i].status = IF i \in voided THEN "VOID" ELSE invoice[i].status
  <2>1. SUFFICES ASSUME NEW i \in DOMAIN invoice
                 PROVE  /\ invoice'[i] \in InvoiceRow(Len(invoice))
                        /\ invoice'[i].parent = invoice[i].parent
                        /\ invoice'[i].status = IF i \in voided THEN "VOID" ELSE invoice[i].status
    OBVIOUS
  <2>2. invoice'[i] = IF i \in voided THEN [invoice[i] EXCEPT !.status = "VOID"] ELSE invoice[i]
    BY <1>6
  <2> QED
    BY <1>5, <2>2 DEF InvoiceRow, Status
<1>9. invoice' = [i \in 1 .. Len(invoice) |-> invoice'[i]]
  BY <1>5, <1>6
<1>10. invoice' \in Seq(InvoiceRow(Len(invoice))) /\ Len(invoice') = Len(invoice) /\ DOMAIN invoice' = DOMAIN invoice
  BY <1>5, <1>8, <1>9
<1>11. RowsTyped'
  BY <1>0, <1>1, <1>10, TypedRows DEF RowsTyped
<1>12. \A i : IsActive(i)' <=> IsActive(i) /\ i \notin voided
  BY <1>8, <1>10 DEF IsActive
<1>13. Active(Masters)' \subseteq Active(Masters)
  BY <1>8, <1>10 DEF Active, Masters, IsMaster
<1>14. ~IsMaster(on) => voided = {on} /\ \A i : Alive(i) => Alive(i)'
  <2>1. SUFFICES ASSUME invoice[on].parent # 0
                 PROVE  voided = {on} /\ \A i : Alive(i) => Alive(i)'
    BY DEF IsMaster
  <2>2. \A i \in DOMAIN invoice : invoice[i].parent # on
    BY <1>0, <1>4, <1>5, <2>1 DEF RowsFit
  <2>3. voided = {on}
    BY <1>7, <2>2
  <2>4. \A i : Alive(i) => Alive(i)'
    BY <1>8, <1>10, <1>12, <2>1, <2>2, <2>3 DEF Alive
  <2> QED
    BY <2>3, <2>4
<1>15. RowsFit'
  <2>1. ASSUME NEW i \in DOMAIN invoice, invoice[i].parent # 0
        PROVE  /\ invoice'[invoice[i].parent].parent = 0
               /\ IsActive(i)' => IsActive(invoice[i].parent)'
    <3>1. PICK m : m = invoice[i].parent
      OBVIOUS
    <3>2. m \in DOMAIN invoice /\ invoice[m].parent = 0 /\ (IsActive(i) => IsActive(m))
      BY <1>0, <1>5, <2>1, <3>1, RowTypes DEF RowsFit
    <3>3. m \in voided => i \in voided
      BY <1>4, <1>5, <1>7, <2>1, <3>1, <3>2
    <3>4. IsActive(invoice[i].parent)' <=> IsActive(m)'
      BY <1>8, <1>10, <2>1, <3>1 DEF IsActive
    <3> QED
      BY <1>8, <1>12, <3>1, <3>2, <3>3, <3>4
  <2>2. ASSUME NEW p \in DOMAIN payment
        PROVE  /\ payment'[p].amount > 0
               /\ payment'[p].invoice # 0 => Alive(payment[p].invoice)'
               /\ ~(p \in Pending')
    <3>1. PICK i : i = payment[p].invoice
      OBVIOUS
    <3>2. Alive(payment[p].invoice)' <=> Alive(i)'
      BY <1>1, <3>1 DEF Alive, IsActive
    <3>3. ~IsMaster(on)
      BY <1>4, <1>5
    <3>4. i # 0 => Alive(i)
      BY <1>0, <3>1 DEF RowsFit
    <3> QED
      BY <1>0, <1>1, <1>4, <1>14, <3>1, <3>2, <3>3, <3>4 DEF RowsFit
  <2>3. \A i, j \in Active(Masters)' : i = j
    BY <1>0, <1>13 DEF RowsFit
  <2>4. \A i \in DOMAIN invoice' : invoice'[i].parent # 0 =>
               /\ invoice'[invoice'[i].parent].parent = 0
               /\ IsActive(i)' => IsActive(invoice[i].parent)'
    BY <1>8, <1>10, <2>1
  <2> QED
    BY <1>1, <2>2, <2>3, <2>4 DEF RowsFit
<1>16. ASSUME NEW d \in Clerks \ {c}, NEW u \in Task, desk[d] = u
       PROVE  TaskFits(u)'
  <2>1. Working(d) /\ TaskFits(u)
    BY <1>16 DEF Working, Idle, Task, Op, ActiveIInv, ActiveInv
  <2>2. u.op \in {"void", "receipt"}
    BY <1>0, <1>2, <1>16, <2>1, WhoIsBeside DEF Beside
  <2>3. CASE u.op = "void"
    <3>1. u.on \in DOMAIN invoice => (IsMaster(u.on)' <=> IsMaster(u.on))
      BY <1>8 DEF IsMaster
    <3> QED
      BY <1>1, <1>10, <2>1, <2>3, <3>1 DEF TaskFits, StepsOf
  <2>4. CASE u.op = "receipt"
    <3>1. ~IsMaster(on) /\ payment'[u.pay].invoice = payment[u.pay].invoice
      BY <1>1, <1>4, <2>1, <2>4 DEF TaskFits
    <3> QED
      BY <1>1, <1>14, <2>1, <2>4, <3>1 DEF TaskFits, StepsOf
  <2> QED
    BY <2>2, <2>3, <2>4
<1>17. DeskStep(c, Idle) /\ Idle \notin Task
  BY EndsIsStep DEF VoidInvoice
<1>18. VoidStays
  BY <1>8 DEF VoidStays
<1>19. ActiveIInv'
  BY <1>1, <1>11, <1>15, <1>16, <1>17, StepFits
<1> QED
  BY <1>18, <1>19

-----------------------------------------------------------------------------
(* Voided invoices *)

LEMMA InitActive ==
  ASSUME InvoiceInit
  PROVE  ActiveIInv
<1>1. Len(invoice) = 0 /\ Len(payment) = 0 /\ DOMAIN invoice = {} /\ DOMAIN payment = {}
  BY DEF InvoiceInit
<1>2. InvoiceTypeOK
  <2>1. \A S : <<>> \in Seq(S)
    OBVIOUS
  <2> QED
    BY <2>1 DEF InvoiceInit, InvoiceTypeOK
<1>3. RowsFit
  BY <1>1 DEF RowsFit, Active, Masters
<1>4. \A c \in Clerks : desk[c] = Idle /\ Idle \notin Task
  BY DEF InvoiceInit, Idle, Task, Op
<1>5. RequestsApart
  BY <1>4 DEF RequestsApart, Working
<1> QED
  BY <1>2, <1>3, <1>4, <1>5 DEF ActiveIInv, ActiveInv

LEMMA ActiveStep ==
  ASSUME InvoicesApart, Careful, ActiveIInv, [InvoiceNext]_invoiceVars
  PROVE  ActiveIInv' /\ VoidStays
<1>0. InvoiceTypeOK /\ RowsFit
  BY DEF ActiveIInv, ActiveInv
<1>1. CASE UNCHANGED invoiceVars
  <2>1. /\ InvoiceTypeOK' /\ RequestsApart' /\ RowsFit' /\ \A t \in Task : TaskFits(t) => TaskFits(t)'
    <3>1. InvoiceTypeOK' /\ RequestsApart'
      BY <1>1 DEF invoiceVars, InvoiceTypeOK, ActiveIInv, ActiveInv, RequestsApart, Working
    <3>2. RowsTyped' /\ SameRows
      BY <1>0, <1>1, UnchangedIsSame DEF invoiceVars
    <3> QED
      BY <1>0, <3>1, <3>2, SameFits
  <2> QED
    BY <1>1, <2>1 DEF invoiceVars, ActiveIInv, ActiveInv, VoidStays
<1>2. ASSUME NEW n \in Amounts, PaySaleOnline(n)
      PROVE  ActiveIInv' /\ VoidStays
  BY <1>2, SaleOnlineActive DEF PaySaleOnline, VoidStays
<1>3. ASSUME NEW c \in Clerks,
             \/ BeginMaster(c) \/ View(c)
             \/ \E i \in DOMAIN invoice : \/ BeginVoid(c, i)
                                          \/ \E n \in Amounts : BeginSub(c, i, n) \/ BeginPay(c, i, n)
                                          \/ \E p \in DOMAIN payment : BeginReceipt(c, i, p)
      PROVE  ActiveIInv' /\ VoidStays
  <2>1. UNCHANGED invoice
    BY <1>3 DEF BeginMaster, View, BeginVoid, BeginSub, BeginPay, BeginReceipt
  <2> QED
    BY <1>3, <2>1, BeginningsActive DEF VoidStays
<1>4. ASSUME NEW c \in Clerks,
             PayDerives(c) \/ PostDerives(c) \/ PostThrows(c) \/ SyncFinds(c) \/ SyncSums(c)
      PROVE  ActiveIInv' /\ VoidStays
  <2>1. UNCHANGED invoice
    BY <1>4 DEF PayDerives, PostDerives, PostThrows, SyncFinds, SyncSums
  <2> QED
    BY <1>4, <2>1, ReadingsActive DEF VoidStays
<1>5. ASSUME NEW c \in Clerks, PayWrites(c) \/ PostWrites(c) \/ SyncWrites(c) \/ PayReceipt(c)
      PROVE  ActiveIInv' /\ VoidStays
  BY <1>5, WritesActive DEF SameRows, VoidStays
<1>6. ASSUME NEW c \in Clerks,
             GeneratePaymentPayload(c) \/ PayInvoice(c) \/ \E n \in Amounts : PaySale(c, n)
      PROVE  ActiveIInv' /\ VoidStays
  <2>1. UNCHANGED invoice
    BY <1>6 DEF GeneratePaymentPayload, PayInvoice, PaySale
  <2> QED
    BY <1>6, <2>1, PaymentsActive DEF VoidStays
<1>7. ASSUME NEW c \in Clerks,
             \/ \E p \in DOMAIN payment : Confirm(c, p)
             \/ SyncLinks(c) \/ GenerateReceiptForInvoice(c)
      PROVE  ActiveIInv' /\ VoidStays
  <2>1. UNCHANGED invoice
    BY <1>7 DEF Confirm, SyncLinks, GenerateReceiptForInvoice
  <2> QED
    BY <1>7, <2>1, JoinsActive DEF VoidStays
<1>8. ASSUME NEW c \in Clerks, GenerateMasterInvoice(c) \/ CreateSubInvoice(c) \/ VoidInvoice(c)
      PROVE  ActiveIInv' /\ VoidStays
  BY <1>8, CreatesActive, VoidActive
<1> QED
  BY <1>1, <1>2, <1>3, <1>4, <1>5, <1>6, <1>7, <1>8 DEF InvoiceNext

\* Where what must not overlap does not, and the staff are careful, no payment,
\* sync or view brings a voided invoice back: handlePostPayment writes a status
\* without looking at the one it replaces, and no job of it is ever at a voided
\* invoice.
THEOREM VoidedStaysVoided ==
  ASSUME InvoicesApart, Careful
  PROVE  InvoiceSpec => VoidIsFinal
<1>1. InvoiceInit => ActiveIInv
  BY InitActive
<1>2. ActiveIInv /\ [InvoiceNext]_invoiceVars => ActiveIInv'
  BY ActiveStep
<1>3. ActiveIInv /\ [InvoiceNext]_invoiceVars
        => [\A i \in DOMAIN invoice : invoice[i].status = "VOID" => invoice'[i].status = "VOID"]_invoiceVars
  BY ActiveStep DEF VoidStays
<1> QED
  BY <1>1, <1>2, <1>3, PTL DEF InvoiceSpec, VoidIsFinal

-----------------------------------------------------------------------------
(* Totals *)

TotalsAdd ==
  /\ \A P, Q : P \subseteq Q /\ Q \subseteq DOMAIN payment
       => Total(P) \in Nat /\ Total(Q) \in Nat /\ Total(P) <= Total(Q)
  /\ \A P, p : P \subseteq DOMAIN payment /\ p \in DOMAIN payment \ P
       => Total(P \cup {p}) = Total(P) + payment[p].amount

LEMMA TotalsDoAdd == InvoiceTypeOK => TotalsAdd
<1> SUFFICES ASSUME InvoiceTypeOK PROVE TotalsAdd
  OBVIOUS
<1> DEFINE f == [p \in DOMAIN payment |-> payment[p].amount]
<1>1. \A p \in DOMAIN payment : f[p] = payment[p].amount /\ f[p] \in Nat
  BY RowTypes
<1>2. ASSUME NEW P, P \subseteq DOMAIN payment
      PROVE  Total(P) = SumFunctionOnSet(f, P) /\ IsFiniteSet(P)
  <2> DEFINE g == [p \in P |-> payment[p].amount]
  <2>1. IsFiniteSet(P)
    BY <1>2, PaymentsAreFinite
  <2>2. Total(P) = SumFunctionOnSet(g, P)
    BY DEF Total, SumFunction
  <2>3. \A p \in P : g[p] = f[p]
    BY <1>2
  <2> HIDE DEF f, g
  <2> QED
    BY <2>1, <2>2, <2>3, SumSame
<1> HIDE DEF f
<1>3. ASSUME NEW P, NEW Q, P \subseteq Q, Q \subseteq DOMAIN payment
      PROVE  Total(P) \in Nat /\ Total(Q) \in Nat /\ Total(P) <= Total(Q)
  <2>1. IsFiniteSet(P) /\ IsFiniteSet(Q \ P) /\ IsFiniteSet(Q)
    BY <1>3, PaymentsAreFinite, FS_Subset
  <2>2. Q = P \cup (Q \ P) /\ P \cap (Q \ P) = {} /\ P \subseteq DOMAIN payment
    BY <1>3
  <2>3. SumFunctionOnSet(f, P) \in Nat /\ SumFunctionOnSet(f, Q \ P) \in Nat /\ SumFunctionOnSet(f, Q) \in Nat
    BY <1>1, <1>3, <2>1, SumNat
  <2>4. \A p \in P \cup (Q \ P) : f[p] \in Int
    BY <1>1, <1>3
  <2>5. SumFunctionOnSet(f, P \cup (Q \ P)) = SumFunctionOnSet(f, P) + SumFunctionOnSet(f, Q \ P)
    BY <2>1, <2>2, <2>4, SumUnion
  <2> QED
    BY <1>2, <1>3, <2>2, <2>3, <2>5
<1>4. ASSUME NEW P, NEW p, P \subseteq DOMAIN payment, p \in DOMAIN payment \ P
      PROVE  Total(P \cup {p}) = Total(P) + payment[p].amount
  <2>1. IsFiniteSet(P) /\ P \cup {p} \subseteq DOMAIN payment /\ \A q \in P \cup {p} : f[q] \in Int
    BY <1>1, <1>4, PaymentsAreFinite
  <2>2. SumFunctionOnSet(f, P \cup {p}) = f[p] + SumFunctionOnSet(f, P)
    BY <1>4, <2>1, SumAdd
  <2>3. SumFunctionOnSet(f, P) \in Int
    BY <2>1, SumType
  <2> QED
    BY <1>1, <1>2, <1>4, <2>1, <2>2, <2>3
<1> QED
  BY <1>3, <1>4 DEF TotalsAdd

RowFacts ==
  /\ DOMAIN invoice = 1 .. Len(invoice) /\ Len(invoice) \in Nat
  /\ DOMAIN payment = 1 .. Len(payment) /\ Len(payment) \in Nat
  /\ \A i \in DOMAIN invoice : invoice[i].parent \in 0 .. Len(invoice) /\ invoice[i].total \in Nat
  /\ \A p \in DOMAIN payment : payment[p].invoice \in 0 .. Len(invoice) /\ payment[p].amount \in Nat

LEMMA RowFactsHold == InvoiceTypeOK => RowFacts
BY RowTypes DEF RowFacts

LEMMA NextRowFacts == InvoiceTypeOK' => RowFacts'
BY RowFactsHold, PTL

LEMMA NextTotalsAdd == InvoiceTypeOK' => TotalsAdd'
BY TotalsDoAdd, PTL

LEMMA TotalKept ==
  ASSUME NEW P, \A p \in P : payment'[p].amount = payment[p].amount
  PROVE  Total(P)' = Total(P)
<1>1. [p \in P |-> payment'[p].amount] = [p \in P |-> payment[p].amount]
  OBVIOUS
<1> QED
  BY <1>1 DEF Total

\* No payment is lost to an invoice.
PaymentsKept ==
  /\ Completed \subseteq Completed' /\ Completed' \subseteq DOMAIN payment'
  /\ \A p \in Completed :
       /\ payment'[p].amount = payment[p].amount
       /\ payment[p].invoice # 0 => payment'[p].invoice = payment[p].invoice

LEMMA LinksKept ==
  ASSUME InvoiceTypeOK, InvoiceTypeOK', PaymentsKept, NEW s, s # 0
  PROVE  /\ Total(LinkedTo({s})) \in Nat /\ Total(LinkedTo({s}))' \in Nat
         /\ Total(LinkedTo({s})) <= Total(LinkedTo({s}))'
<1>1. PICK P : P = LinkedTo({s})
  OBVIOUS
<1>2. PICK Q : Q = LinkedTo({s})'
  OBVIOUS
<1>3. P \subseteq DOMAIN payment /\ P \subseteq Q /\ Q \subseteq DOMAIN payment'
  BY <1>1, <1>2 DEF LinkedTo, PaymentsKept, Completed
<1>4. Total(P)' = Total(P)
  BY <1>1, TotalKept DEF LinkedTo, PaymentsKept
<1>5. Total(P) \in Nat /\ Total(P)' <= Total(Q)' /\ Total(Q)' \in Nat
  BY <1>3, TotalsDoAdd, NextTotalsAdd DEF TotalsAdd
<1>6. Total(LinkedTo({s}))' = Total(Q)' /\ Total(LinkedTo({s})) = Total(P)
  BY <1>1, <1>2 DEF Total
<1> QED
  BY <1>4, <1>5, <1>6

LEMMA CompletedKept ==
  ASSUME PaymentsKept, Completed' = Completed
  PROVE  Total(Completed)' = Total(Completed)
<1>1. PICK P : P = Completed
  OBVIOUS
<1>2. Total(P)' = Total(P)
  BY <1>1, TotalKept DEF PaymentsKept
<1> QED
  BY <1>1, <1>2 DEF Total

\* One more payment is completed.
Completes(p, i, n) ==
  /\ p \notin Completed /\ Completed' = Completed \cup {p}
  /\ payment'[p].invoice = i /\ payment'[p].amount = n
  /\ \A q \in Completed : payment'[q].invoice = payment[q].invoice

LEMMA CompletedGrows ==
  ASSUME InvoiceTypeOK, InvoiceTypeOK', PaymentsKept, NEW p, NEW i, NEW n, Completes(p, i, n)
  PROVE  /\ Total(Completed)' = Total(Completed) + n /\ n \in Nat
         /\ \A s : Total(LinkedTo({s}))' = Total(LinkedTo({s})) + (IF s = i THEN n ELSE 0)
<1> USE DEF Completes
<1>0. p \in DOMAIN payment' /\ n \in Nat
  <2>1. p \in DOMAIN payment'
    BY DEF PaymentsKept
  <2> QED
    BY <2>1, NextRowFacts DEF RowFacts
<1>1. ASSUME NEW P, P \subseteq Completed
      PROVE  Total(P \cup {p})' = Total(P) + n
  <2>1. Total(P)' = Total(P)
    BY <1>1, TotalKept DEF PaymentsKept
  <2>2. P \subseteq DOMAIN payment' /\ p \notin P
    BY <1>1 DEF PaymentsKept
  <2>3. Total(P \cup {p})' = Total(P)' + payment'[p].amount
    BY <1>0, <2>2, NextTotalsAdd DEF TotalsAdd
  <2> QED
    BY <2>1, <2>3
<1>2. Total(Completed)' = Total(Completed) + n
  <2>1. PICK P : P = Completed
    OBVIOUS
  <2>2. Total(P \cup {p})' = Total(P) + n
    BY <1>1, <2>1
  <2> QED
    BY <2>1, <2>2 DEF Total
<1>3. ASSUME NEW s
      PROVE  Total(LinkedTo({s}))' = Total(LinkedTo({s})) + (IF s = i THEN n ELSE 0)
  <2>1. PICK P : P = LinkedTo({s})
    OBVIOUS
  <2>2. P \subseteq Completed /\ LinkedTo({s})' = IF s = i THEN P \cup {p} ELSE P
    BY <2>1 DEF LinkedTo
  <2>3. CASE s = i
    <3>1. Total(P \cup {p})' = Total(P) + n
      BY <1>1, <2>2
    <3> QED
      BY <2>1, <2>2, <2>3, <3>1 DEF Total
  <2>4. CASE s # i
    <3>1. Total(P)' = Total(P)
      BY <2>2, TotalKept DEF PaymentsKept
    <3>2. Total(P) \in Nat
      BY <2>1, DerivedType
    <3>3. Total(LinkedTo({s}))' = Total(P)'
      BY <2>2, <2>4 DEF Total
    <3> QED
      BY <2>1, <2>4, <3>1, <3>2, <3>3
  <2> QED
    BY <2>3, <2>4
<1> QED
  BY <1>0, <1>2, <1>3

-----------------------------------------------------------------------------
(* What is open *)

OpensTyped ==
  /\ IsFiniteSet(DOMAIN invoice)
  /\ \A m, i, s : \A n \in Nat : OpenAt(m, i, n, s) \in Nat /\ Open(m, i, n) \in Nat

LEMMA OpensAreTyped == InvoiceTypeOK => OpensTyped
<1> SUFFICES ASSUME InvoiceTypeOK PROVE OpensTyped
  OBVIOUS
<1>1. IsFiniteSet(DOMAIN invoice)
  BY PaymentsAreFinite
<1>2. ASSUME NEW m, NEW i, NEW s, NEW n \in Nat
      PROVE  OpenAt(m, i, n, s) \in Nat
  <2>1. s \in Active(Subs(m)) => invoice[s].total \in Nat
    BY RowTypes DEF Active, Subs
  <2>2. DeriveInvoiceAmounts(s) \in Nat
    BY DerivedType
  <2> QED
    BY <2>1, <2>2 DEF OpenAt
<1>3. ASSUME NEW m, NEW i, NEW n \in Nat
      PROVE  Open(m, i, n) \in Nat
  <2> DEFINE f == [s \in DOMAIN invoice |-> OpenAt(m, i, n, s)]
  <2>1. \A s \in DOMAIN invoice : f[s] \in Nat
    BY <1>2
  <2>2. Open(m, i, n) = SumFunctionOnSet(f, DOMAIN invoice)
    BY DEF Open, SumFunction
  <2> HIDE DEF f
  <2> QED
    BY <1>1, <2>1, <2>2, SumNat
<1> QED
  BY <1>1, <1>2, <1>3 DEF OpensTyped

LEMMA NextOpensTyped == InvoiceTypeOK' => OpensTyped'
BY OpensAreTyped, PTL

LEMMA OpenLess ==
  ASSUME InvoiceTypeOK, InvoiceTypeOK', DOMAIN invoice' = DOMAIN invoice,
         NEW m, NEW i, NEW n \in Nat, NEW j, NEW k \in Nat,
         \A s \in DOMAIN invoice : OpenAt(m, j, k, s)' <= OpenAt(m, i, n, s)
  PROVE  Open(m, j, k)' <= Open(m, i, n)
<1>1. PICK S : S = DOMAIN invoice
  OBVIOUS
<1>2. PICK f : f = [s \in S |-> OpenAt(m, i, n, s)]
  OBVIOUS
<1>3. PICK g : g = [s \in S |-> OpenAt(m, j, k, s)']
  OBVIOUS
<1>4. Open(m, i, n) = SumFunctionOnSet(f, S)
  BY <1>1, <1>2 DEF Open, SumFunction
<1>5. Open(m, j, k)' = SumFunctionOnSet(g, S)
  BY <1>1, <1>3 DEF Open, SumFunction
<1>6. IsFiniteSet(S) /\ \A s \in S : f[s] \in Int /\ g[s] \in Int /\ g[s] <= f[s]
  BY <1>1, <1>2, <1>3, OpensAreTyped, NextOpensTyped DEF OpensTyped
<1> QED
  BY <1>4, <1>5, <1>6, SumLess

\* No invoice asks for more, and none becomes active.
InvoicesKept ==
  /\ DOMAIN invoice' = DOMAIN invoice
  /\ \A i \in DOMAIN invoice : /\ invoice'[i].parent = invoice[i].parent
                               /\ invoice'[i].total = invoice[i].total
                               /\ invoice[i].status = "VOID" => invoice'[i].status = "VOID"

LEMMA InvoicesKeptMeans ==
  ASSUME InvoicesKept
  PROVE  /\ Masters' = Masters /\ Active(Masters)' \subseteq Active(Masters)
         /\ \A m : Active(Subs(m))' \subseteq Active(Subs(m))
         /\ \A s \in DOMAIN invoice : IsMaster(s)' <=> IsMaster(s)
<1>1. Masters' = Masters /\ Active(Masters)' \subseteq Active(Masters)
  BY DEF InvoicesKept, Active, Masters, IsMaster
<1>2. \A m : Active(Subs(m))' \subseteq Active(Subs(m))
  BY DEF InvoicesKept, Active, Subs
<1> QED
  BY <1>1, <1>2 DEF InvoicesKept, IsMaster

\* An active sub-invoice counts its own payments.
LEMMA SubDerived ==
  ASSUME InvoiceTypeOK, InvoiceTypeOK', InvoicesKept, NEW m, m # 0, NEW s \in Active(Subs(m))
  PROVE  /\ s \in DOMAIN invoice /\ s # 0
         /\ DeriveInvoiceAmounts(s) = Total(LinkedTo({s}))
         /\ DeriveInvoiceAmounts(s)' = Total(LinkedTo({s}))'
<1>1. s \in DOMAIN invoice /\ invoice[s].parent = m /\ s # 0
  BY RowTypes DEF Active, Subs
<1>2. ~IsMaster(s) /\ ~IsMaster(s)'
  BY <1>1, InvoicesKeptMeans DEF IsMaster
<1> QED
  BY <1>1, <1>2 DEF DeriveInvoiceAmounts

LEMMA RoomKept ==
  ASSUME InvoiceTypeOK, InvoiceTypeOK', InvoicesKept, PaymentsKept, Completed' = Completed,
         NEW i, NEW n \in Nat, Room(i, n)
  PROVE  Room(i, n)'
<1>1. Total(Completed)' = Total(Completed)
  BY CompletedKept
<1>2. ASSUME NEW m \in Active(Masters)
      PROVE  Open(m, i, n)' <= Open(m, i, n)
  <2>1. m # 0
    BY RowTypes DEF Active, Masters
  <2>2. ASSUME NEW s \in DOMAIN invoice
        PROVE  OpenAt(m, i, n, s)' <= OpenAt(m, i, n, s)
    <3>1. CASE s \notin Active(Subs(m))'
      <4>1. OpenAt(m, i, n, s)' = 0 /\ OpenAt(m, i, n, s) \in Nat
        BY <3>1, OpensAreTyped DEF OpenAt, OpensTyped
      <4> QED
        BY <4>1
    <3>2. CASE s \in Active(Subs(m))'
      <4>1. s \in Active(Subs(m))
        BY <3>2, InvoicesKeptMeans
      <4>2. /\ s # 0 /\ DeriveInvoiceAmounts(s) = Total(LinkedTo({s}))
            /\ DeriveInvoiceAmounts(s)' = Total(LinkedTo({s}))'
        BY <2>1, <4>1, SubDerived
      <4>3. /\ DeriveInvoiceAmounts(s) <= DeriveInvoiceAmounts(s)'
            /\ DeriveInvoiceAmounts(s) \in Nat /\ DeriveInvoiceAmounts(s)' \in Nat
        BY <4>2, LinksKept
      <4>4. invoice'[s].total = invoice[s].total /\ invoice[s].total \in Nat
        BY RowTypes DEF InvoicesKept
      <4> QED
        BY <3>2, <4>1, <4>3, <4>4 DEF OpenAt
    <3> QED
      BY <3>1, <3>2
  <2> QED
    BY <2>2, OpenLess DEF InvoicesKept
<1>3. Total(Completed) \in Nat /\ \A m : Open(m, i, n) \in Nat /\ Open(m, i, n)' \in Nat
  BY TotalType, DerivedType, OpensAreTyped, NextOpensTyped DEF OpensTyped
<1>4. Price \in Nat
  BY InvoicingAssumption
<1>5. \A m \in Active(Masters)' : m \in Active(Masters)
  BY InvoicesKeptMeans
<1> HIDE DEF Room
<1>6. Total(Completed)' + n <= Price
  BY <1>1, <1>3, <1>4 DEF Room
<1>7. \A m \in Active(Masters)' : Total(Completed)' + n + Open(m, i, n)' <= Price
  <2>1. SUFFICES ASSUME NEW m \in Active(Masters)' PROVE Total(Completed)' + n + Open(m, i, n)' <= Price
    OBVIOUS
  <2>2. Total(Completed) + n + Open(m, i, n) <= Price /\ Open(m, i, n)' <= Open(m, i, n)
    BY <1>2, <1>5, <2>1 DEF Room
  <2> QED
    BY <1>1, <1>3, <1>4, <2>2
<1> QED
  BY <1>6, <1>7 DEF Room

\* A payment that had room is completed.
LEMMA RoomPaid ==
  ASSUME InvoiceTypeOK, InvoiceTypeOK', UNCHANGED invoice, PaymentsKept,
         NEW p, NEW i, NEW n, Completes(p, i, n), Room(i, n)
  PROVE  Room(0, 0)'
<1>1. /\ Total(Completed)' = Total(Completed) + n /\ n \in Nat
      /\ \A s : Total(LinkedTo({s}))' = Total(LinkedTo({s})) + (IF s = i THEN n ELSE 0)
  BY CompletedGrows
<1>2. InvoicesKept /\ Active(Masters)' = Active(Masters) /\ \A m : Active(Subs(m))' = Active(Subs(m))
  BY DEF InvoicesKept, Active, Masters, IsMaster, Subs
<1>3. ASSUME NEW m \in Active(Masters)
      PROVE  Open(m, 0, 0)' <= Open(m, i, n)
  <2>1. m # 0
    BY RowTypes DEF Active, Masters
  <2>2. ASSUME NEW s \in DOMAIN invoice
        PROVE  OpenAt(m, 0, 0, s)' <= OpenAt(m, i, n, s)
    <3>1. CASE s \notin Active(Subs(m))
      BY <1>2, <3>1 DEF OpenAt
    <3>2. CASE s \in Active(Subs(m))
      <4>1. /\ DeriveInvoiceAmounts(s) = Total(LinkedTo({s}))
            /\ DeriveInvoiceAmounts(s)' = Total(LinkedTo({s}))'
        BY <1>2, <2>1, <3>2, SubDerived
      <4>2. DeriveInvoiceAmounts(s)' = DeriveInvoiceAmounts(s) + (IF s = i THEN n ELSE 0)
        BY <1>1, <4>1
      <4>3. DeriveInvoiceAmounts(s) \in Nat /\ invoice[s].total \in Nat
        BY DerivedType, RowTypes
      <4> QED
        BY <1>1, <1>2, <3>2, <4>2, <4>3 DEF OpenAt
    <3> QED
      BY <3>1, <3>2
  <2> QED
    BY <1>1, <2>2, OpenLess
<1>4. /\ Total(Completed) \in Nat /\ Price \in Nat
      /\ \A m : Open(m, i, n) \in Nat /\ Open(m, 0, 0)' \in Nat
  BY <1>1, TotalType, DerivedType, OpensAreTyped, NextOpensTyped, InvoicingAssumption DEF OpensTyped
<1>5. Total(Completed)' + 0 <= Price
  BY <1>1, <1>4 DEF Room
<1>6. ASSUME NEW m \in Active(Masters)
      PROVE  Total(Completed)' + 0 + Open(m, 0, 0)' <= Price
  <2>1. Total(Completed) + n + Open(m, i, n) <= Price
    BY DEF Room
  <2> QED
    BY <1>1, <1>3, <1>4, <2>1
<1> QED
  BY <1>2, <1>5, <1>6 DEF Room

\* Nothing is open where there is no active sub-invoice.
LEMMA NothingSplit ==
  ASSUME InvoiceTypeOK, NEW m, Active(Subs(m)) = {}, NEW i, NEW n
  PROVE  Open(m, i, n) = 0
<1> DEFINE f == [s \in DOMAIN invoice |-> OpenAt(m, i, n, s)]
<1>1. IsFiniteSet(DOMAIN invoice) /\ \A s \in DOMAIN invoice : f[s] = 0
  BY PaymentsAreFinite DEF OpenAt
<1>2. Open(m, i, n) = SumFunctionOnSet(f, DOMAIN invoice)
  BY DEF Open, SumFunction
<1> HIDE DEF f
<1> QED
  BY <1>1, <1>2, SumZero

LEMMA SaleHasRoom ==
  ASSUME InvoiceTypeOK, Careful, NEW n \in Nat, SaleOwes(n)
  PROVE  Room(0, n) /\ Pending = {}
<1>1. Total(Completed) + n <= Price /\ ~Split /\ Pending = {}
  BY DEF SaleOwes, NothingOpen
<1>2. ASSUME NEW m \in Active(Masters)
      PROVE  Open(m, 0, n) = 0
  <2>1. m # 0
    BY RowTypes DEF Active, Masters
  <2>2. Active(Subs(m)) = {}
    BY <1>1, <2>1 DEF Split, Active, Subs, IsMaster
  <2> QED
    BY <2>2, NothingSplit
<1>3. Total(Completed) \in Nat
  BY TotalType, DerivedType
<1> QED
  BY <1>1, <1>2, <1>3 DEF Room

LEMMA InvoiceHasRoom ==
  ASSUME InvoiceTypeOK, RowsFit, MoneyRows, NEW i \in DOMAIN invoice, NEW n \in Nat, Payable(i),
         n <= invoice[i].total - DeriveInvoiceAmounts(i)
  PROVE  Room(i, n)
<1>1. /\ IsActive(i) /\ Active(Subs(i)) = {} /\ i # 0
      /\ \A j, k \in Active(Masters) : j = k
      /\ Total(Completed) \in Nat /\ Price \in Nat
      /\ DeriveInvoiceAmounts(i) \in Nat /\ invoice[i].total \in Nat
  BY RowTypes, TotalType, DerivedType, InvoicingAssumption DEF Payable, IsActive, RowsFit
<1>2. CASE IsMaster(i)
  <2>1. i \in Active(Masters) /\ invoice[i].total = Price
    BY <1>1, <1>2, MasterIsActive DEF MoneyRows, Masters
  <2>2. DeriveInvoiceAmounts(i) = Total(Completed)
    BY <2>1, AllCounted
  <2>3. \A m \in Active(Masters) : Open(m, i, n) = 0
    BY <1>1, <2>1, NothingSplit
  <2> QED
    BY <1>1, <2>1, <2>2, <2>3 DEF Room
<1>3. CASE ~IsMaster(i)
  <2>1. PICK m : m = invoice[i].parent
    OBVIOUS
  <2>2. m \in Active(Masters) /\ i \in Active(Subs(m))
    <3>1. invoice[m].parent = 0 /\ IsActive(m)
      BY <1>1, <1>3, <2>1 DEF RowsFit, IsMaster
    <3> QED
      BY <1>1, <2>1, <3>1 DEF IsActive, Active, Masters, IsMaster, Subs
  <2>3. Total(Completed) + 0 + Open(m, 0, 0) <= Price
    BY <2>2 DEF MoneyRows, Room
  <2>4. Open(m, i, n) = Open(m, 0, 0) - n /\ Open(m, 0, 0) \in Nat /\ Open(m, i, n) \in Nat
    <3> DEFINE f == [s \in DOMAIN invoice |-> OpenAt(m, 0, 0, s)]
               g == [s \in DOMAIN invoice |-> OpenAt(m, i, n, s)]
    <3>1. /\ Open(m, 0, 0) = SumFunctionOnSet(f, DOMAIN invoice)
          /\ Open(m, i, n) = SumFunctionOnSet(g, DOMAIN invoice)
      BY DEF Open, SumFunction
    <3>2. IsFiniteSet(DOMAIN invoice) /\ \A s \in DOMAIN invoice : f[s] \in Int /\ g[s] \in Int
      BY OpensAreTyped DEF OpensTyped
    <3>3. f[i] = invoice[i].total - DeriveInvoiceAmounts(i)
          /\ g[i] = invoice[i].total - DeriveInvoiceAmounts(i) - n
      BY <1>1, <2>2 DEF OpenAt
    <3>4. \A s \in DOMAIN invoice \ {i} : g[s] = f[s]
      <4>1. SUFFICES ASSUME NEW s \in DOMAIN invoice, s # i PROVE OpenAt(m, i, n, s) = OpenAt(m, 0, 0, s)
        OBVIOUS
      <4>2. (IF s = i THEN n ELSE 0) = 0 /\ (IF s = 0 THEN 0 ELSE 0) = 0
        BY <4>1
      <4> QED
        BY <4>2 DEF OpenAt
    <3> HIDE DEF f, g
    <3>5. SumFunctionOnSet(g, DOMAIN invoice) = SumFunctionOnSet(f, DOMAIN invoice) - f[i] + g[i]
      <4>1. PICK S, F, G : S = DOMAIN invoice /\ F = f /\ G = g
        OBVIOUS
      <4>2. IsFiniteSet(S) /\ i \in S
        BY <3>2, <4>1
      <4>3. \A s \in S : F[s] \in Int
        BY <3>2, <4>1
      <4>4. G[i] \in Int /\ \A s \in S \ {i} : G[s] = F[s]
        BY <3>2, <3>4, <4>1
      <4>5. SumFunctionOnSet(G, S) = SumFunctionOnSet(F, S) - F[i] + G[i]
        BY <4>2, <4>3, <4>4, SumChange
      <4> QED
        BY <4>1, <4>5
    <3>6. Open(m, 0, 0) \in Nat /\ Open(m, i, n) \in Nat
      BY OpensAreTyped DEF OpensTyped
    <3> QED
      BY <1>1, <3>1, <3>3, <3>5, <3>6
  <2>5. \A k \in Active(Masters) : k = m
    BY <1>1, <2>2
  <2>6. Total(Completed) + n + Open(m, i, n) <= Price
    BY <1>1, <2>3, <2>4
  <2>7. Total(Completed) + n <= Price
    BY <1>1, <2>4, <2>6
  <2> QED
    BY <2>5, <2>6, <2>7 DEF Room
<1> QED
  BY <1>2, <1>3

LEMMA ClaimsType ==
  ASSUME InvoiceTypeOK, NEW m
  PROVE  Claims(m) \in Nat /\ IsFiniteSet(Active(Subs(m)))
<1> DEFINE f == [s \in Active(Subs(m)) |-> invoice[s].total]
<1>1. IsFiniteSet(Active(Subs(m)))
  BY PaymentsAreFinite DEF Active, Subs
<1>2. \A s \in Active(Subs(m)) : f[s] \in Nat
  BY RowTypes DEF Active, Subs
<1>3. Claims(m) = SumFunctionOnSet(f, Active(Subs(m)))
  BY DEF Claims, SumFunction
<1> HIDE DEF f
<1> QED
  BY <1>1, <1>2, <1>3, SumNat

-----------------------------------------------------------------------------
(* Where a request goes *)

LEMMA Moves ==
  ASSUME ActiveIInv, NEW c \in Clerks
  PROVE  /\ GenerateMasterInvoice(c)
              => \E t : Follows(c, t, "find", desk[c].pay, desk[c].n, desk[c].saw, desk[c].status)
         /\ PayInvoice(c)
              => \/ Ends(c) /\ UNCHANGED payment
                 \/ \E t : Follows(c, t, "derive", Len(payment) + 1, desk[c].n, desk[c].saw, desk[c].status)
         /\ PayDerives(c)
              => \E t : Follows(c, t, "write", desk[c].pay, desk[c].n, DeriveInvoiceAmounts(desk[c].on), desk[c].status)
         /\ PayWrites(c)
              => \E t : Follows(c, t, "post", desk[c].pay, desk[c].n, desk[c].saw, desk[c].status)
         /\ PostDerives(c)
              => IF desk[c].on = 0
                 THEN \E t : Follows(c, t, "find", desk[c].pay, desk[c].n, desk[c].saw, desk[c].status)
                 ELSE \E t : Follows(c, t, "postWrite", desk[c].pay, desk[c].n,
                                     Total(LinkedTo({desk[c].on} \cup Subs(desk[c].on))), desk[c].status)
         /\ PostWrites(c)
              => \E t : Follows(c, t, "find", desk[c].pay, desk[c].n, desk[c].saw, desk[c].status)
         /\ PostThrows(c)
              => \/ Ends(c)
                 \/ desk[c].op = "job" /\ \E t : Follows(c, t, "post", desk[c].pay, desk[c].n, desk[c].saw, desk[c].status)
         /\ SyncFinds(c)
              => \/ NoMaster /\ Synced(c)
                 \/ \E m \in Active(Masters) : \E t :
                      Follows(c, t, "link", desk[c].pay, m, desk[c].saw, invoice[m].status)
         /\ SyncLinks(c)
              => \E t : Follows(c, t, "sum", desk[c].pay, desk[c].n, desk[c].saw, desk[c].status)
         /\ SyncSums(c)
              => \E t : Follows(c, t, "sync", desk[c].pay, desk[c].n, DeriveInvoiceAmounts(desk[c].n), desk[c].status)
         /\ Synced(c) /\ Working(c)
              => \/ Ends(c)
                 \/ desk[c].op = "pay" /\ \E t : Follows(c, t, "receipt", desk[c].pay, desk[c].n, desk[c].saw, desk[c].status)
<1>0. InvoiceTypeOK /\ Len(payment) + 1 \in Nat /\ \A step : At(c, step) => Working(c)
  BY RowTypes DEF ActiveIInv, At, Working
<1>1. ASSUME Working(c), NEW step \in InvoiceStep, Goes(c, step)
      PROVE  \E t : Follows(c, t, step, desk[c].pay, desk[c].n, desk[c].saw, desk[c].status)
  BY <1>0, <1>1, GoesTo
<1>2. GenerateMasterInvoice(c)
        => \E t : Follows(c, t, "find", desk[c].pay, desk[c].n, desk[c].saw, desk[c].status)
  BY <1>0, <1>1, StepKinds DEF GenerateMasterInvoice
<1>3. PayInvoice(c)
        => \/ Ends(c) /\ UNCHANGED payment
           \/ \E t : Follows(c, t, "derive", Len(payment) + 1, desk[c].n, desk[c].saw, desk[c].status)
  BY <1>0, GoesTo, StepKinds DEF PayInvoice
<1>4. PayDerives(c)
        => \E t : Follows(c, t, "write", desk[c].pay, desk[c].n, DeriveInvoiceAmounts(desk[c].on), desk[c].status)
  BY <1>0, GoesTo, StepKinds, DerivedType DEF PayDerives
<1>5. PayWrites(c)
        => \E t : Follows(c, t, "post", desk[c].pay, desk[c].n, desk[c].saw, desk[c].status)
  BY <1>0, <1>1, StepKinds DEF PayWrites
<1>6. PostDerives(c)
        => IF desk[c].on = 0
           THEN \E t : Follows(c, t, "find", desk[c].pay, desk[c].n, desk[c].saw, desk[c].status)
           ELSE \E t : Follows(c, t, "postWrite", desk[c].pay, desk[c].n,
                               Total(LinkedTo({desk[c].on} \cup Subs(desk[c].on))), desk[c].status)
  <2>1. SUFFICES ASSUME PostDerives(c)
                 PROVE  IF desk[c].on = 0
                        THEN \E t : Follows(c, t, "find", desk[c].pay, desk[c].n, desk[c].saw, desk[c].status)
                        ELSE \E t : Follows(c, t, "postWrite", desk[c].pay, desk[c].n,
                                            Total(LinkedTo({desk[c].on} \cup Subs(desk[c].on))), desk[c].status)
    OBVIOUS
  <2>2. Working(c)
    BY <1>0, <2>1 DEF PostDerives
  <2>3. CASE desk[c].on = 0
    <3>1. Goes(c, "find")
      BY <2>1, <2>3 DEF PostDerives, Goes
    <3> QED
      BY <1>1, <2>2, <2>3, <3>1, StepKinds
  <2>4. CASE desk[c].on # 0
    <3> DEFINE saw == Total(LinkedTo({desk[c].on} \cup Subs(desk[c].on)))
    <3>1. saw \in Nat
      BY <1>0, DerivedType
    <3>2. desk' = [desk EXCEPT ![c].step = "postWrite", ![c].saw = saw]
      BY <2>1, <2>4 DEF PostDerives
    <3> HIDE DEF saw
    <3>3. \E t : Follows(c, t, "postWrite", desk[c].pay, desk[c].n, saw, desk[c].status)
      BY <1>0, <2>2, <3>1, <3>2, GoesTo, StepKinds
    <3> QED
      BY <2>4, <3>3 DEF saw
  <2> QED
    BY <2>3, <2>4
<1>7. PostWrites(c)
        => \E t : Follows(c, t, "find", desk[c].pay, desk[c].n, desk[c].saw, desk[c].status)
  BY <1>0, <1>1, StepKinds DEF PostWrites
<1>8. PostThrows(c)
        => \/ Ends(c)
           \/ desk[c].op = "job" /\ \E t : Follows(c, t, "post", desk[c].pay, desk[c].n, desk[c].saw, desk[c].status)
  BY <1>0, <1>1, StepKinds DEF PostThrows
<1>9. SyncFinds(c)
        => \/ NoMaster /\ Synced(c)
           \/ \E m \in Active(Masters) : \E t :
                Follows(c, t, "link", desk[c].pay, m, desk[c].saw, invoice[m].status)
  <2>1. ASSUME SyncFinds(c), NEW m \in Active(Masters),
               desk' = [desk EXCEPT ![c].step = "link", ![c].n = m, ![c].status = invoice[m].status]
        PROVE  \E t : Follows(c, t, "link", desk[c].pay, m, desk[c].saw, invoice[m].status)
    <3>0. At(c, "find")
      BY <2>1, Zenon DEF SyncFinds
    <3>1. m \in Nat /\ invoice[m].status \in Status /\ Working(c)
      BY <1>0, <3>0, RowTypes DEF Active, Masters
    <3>2. Found(c, "link", m, invoice[m].status)
      BY <2>1, Zenon DEF Found
    <3> QED
      BY <1>0, <3>1, <3>2, GoesTo, StepKinds
  <2> QED
    BY <2>1 DEF SyncFinds, NothingToSync
<1>10. SyncLinks(c)
        => \E t : Follows(c, t, "sum", desk[c].pay, desk[c].n, desk[c].saw, desk[c].status)
  BY <1>0, <1>1, StepKinds DEF SyncLinks
<1>11. SyncSums(c)
        => \E t : Follows(c, t, "sync", desk[c].pay, desk[c].n, DeriveInvoiceAmounts(desk[c].n), desk[c].status)
  BY <1>0, GoesTo, StepKinds, DerivedType DEF SyncSums
<1>12. Synced(c) /\ Working(c)
        => \/ Ends(c)
           \/ desk[c].op = "pay" /\ \E t : Follows(c, t, "receipt", desk[c].pay, desk[c].n, desk[c].saw, desk[c].status)
  BY <1>1, StepKinds DEF Synced
<1> QED
  BY <1>2, <1>3, <1>4, <1>5, <1>6, <1>7, <1>8, <1>9, <1>10, <1>11, <1>12

\* None of these begins a payment or a sub-invoice.
LEMMA GoesOn ==
  ASSUME ActiveIInv, NEW c \in Clerks,
         \/ GenerateMasterInvoice(c) \/ CreateSubInvoice(c) \/ VoidInvoice(c)
         \/ GeneratePaymentPayload(c) \/ PayInvoice(c) \/ PayDerives(c) \/ PayWrites(c)
         \/ PostDerives(c) \/ PostWrites(c) \/ PostThrows(c)
         \/ SyncFinds(c) \/ SyncLinks(c) \/ SyncSums(c) \/ SyncWrites(c) \/ PayReceipt(c)
         \/ GenerateReceiptForInvoice(c)
  PROVE  \E t : DeskStep(c, t) /\ (t \in Task => t.op # "sub" /\ t.step \notin {"record", "online"})
<1>1. ASSUME Ends(c)
      PROVE  \E t : DeskStep(c, t) /\ (t \in Task => t.op # "sub" /\ t.step \notin {"record", "online"})
  BY <1>1, EndsIsStep
<1>2. ASSUME NEW t, NEW step \in InvoiceStep \ {"create", "record", "online"}, NEW pay, NEW n, NEW saw, NEW st,
             Follows(c, t, step, pay, n, saw, st), desk[c].op # "sub"
      PROVE  \E u : DeskStep(c, u) /\ (u \in Task => u.op # "sub" /\ u.step \notin {"record", "online"})
  BY <1>2 DEF Follows
<1>3. \A step : At(c, step) => Working(c) /\ desk[c].step = step /\ step \in StepsOf(desk[c].op) /\ desk[c].op \in Op
  BY AtStep, DeskTypes DEF ActiveIInv
<1>4. \A step : At(c, step) /\ step # "create" => desk[c].op # "sub"
  BY <1>3 DEF StepsOf
<1>5. CASE \/ CreateSubInvoice(c) \/ VoidInvoice(c) \/ GeneratePaymentPayload(c) \/ PayReceipt(c)
           \/ GenerateReceiptForInvoice(c)
  BY <1>1, <1>5 DEF CreateSubInvoice, VoidInvoice, GeneratePaymentPayload, PayReceipt, GenerateReceiptForInvoice
<1>6. CASE GenerateMasterInvoice(c)
  BY <1>2, <1>6, Moves, StepKinds DEF GenerateMasterInvoice
<1>7. CASE PayInvoice(c)
  BY <1>1, <1>2, <1>4, <1>7, Moves, StepKinds DEF PayInvoice
<1>8. CASE PayDerives(c)
  BY <1>2, <1>4, <1>8, Moves, StepKinds DEF PayDerives
<1>9. CASE PayWrites(c)
  BY <1>2, <1>9, Moves, StepKinds DEF PayWrites
<1>10. CASE PostDerives(c)
  BY <1>2, <1>4, <1>10, Moves, StepKinds DEF PostDerives
<1>11. CASE PostWrites(c)
  BY <1>2, <1>4, <1>11, Moves, StepKinds DEF PostWrites
<1>12. CASE PostThrows(c)
  BY <1>1, <1>2, <1>12, Moves, StepKinds DEF PostThrows
<1>13. ASSUME Synced(c), NEW step, At(c, step), step # "create"
       PROVE  \E t : DeskStep(c, t) /\ (t \in Task => t.op # "sub" /\ t.step \notin {"record", "online"})
  <2>1. Working(c) /\ desk[c].op # "sub"
    BY <1>3, <1>4, <1>13
  <2>2. \/ Ends(c)
        \/ \E t : Follows(c, t, "receipt", desk[c].pay, desk[c].n, desk[c].saw, desk[c].status)
    BY <1>13, <2>1, Moves
  <2>3. "receipt" \in InvoiceStep \ {"create", "record", "online"}
    BY StepKinds
  <2> QED
    BY <1>1, <1>2, <2>1, <2>2, <2>3
<1>14. CASE SyncFinds(c)
  BY <1>2, <1>4, <1>13, <1>14, Moves, StepKinds DEF SyncFinds
<1>15. CASE SyncLinks(c)
  BY <1>2, <1>4, <1>15, Moves, StepKinds DEF SyncLinks
<1>16. CASE SyncSums(c)
  BY <1>2, <1>4, <1>16, Moves, StepKinds DEF SyncSums
<1>17. CASE SyncWrites(c)
  BY <1>13, <1>17 DEF SyncWrites
<1> QED
  BY <1>5, <1>6, <1>7, <1>8, <1>9, <1>10, <1>11, <1>12, <1>14, <1>15, <1>16, <1>17

-----------------------------------------------------------------------------
(* Steps, and the money there is *)

LEMMA MoneyTogether ==
  ASSUME ActiveIInv, MoneyRows', NEW c \in Clerks, NEW t, DeskStep(c, t), t \in Task => MoneyFits(t)',
         \A d \in Clerks \ {c}, u \in Task : desk[d] = u => MoneyFits(u)'
  PROVE  MoneyInv'
<1>1. desk'[c] = t /\ \A d \in Clerks \ {c} : desk'[d] = desk[d]
  BY DeskSteps DEF ActiveIInv, ActiveInv
<1> QED
  BY <1>1 DEF MoneyInv

LEMMA RowsKept ==
  ASSUME InvoiceTypeOK, InvoiceTypeOK', InvoicesKept, PaymentsKept, Completed' = Completed, MoneyRows,
         Pending' \subseteq Pending,
         \A p \in Pending' : payment'[p].invoice = payment[p].invoice /\ payment'[p].amount = payment[p].amount
  PROVE  MoneyRows'
<1>1. \A i \in Masters' : invoice'[i].total = Price
  BY InvoicesKeptMeans DEF MoneyRows, InvoicesKept, Masters
<1>2. Room(0, 0)'
  BY RoomKept DEF MoneyRows
<1>3. ASSUME NEW p \in Pending'
      PROVE  Room(payment[p].invoice, payment[p].amount)'
  <2>1. PICK i, n : i = payment[p].invoice /\ n = payment[p].amount
    OBVIOUS
  <2>2. Room(i, n) /\ n \in Nat
    BY <2>1, RowTypes DEF MoneyRows, Pending
  <2>3. Room(i, n)'
    BY <2>2, RoomKept
  <2> QED
    BY <2>1, <2>3
<1>4. \A p, q \in Pending' : p = q
  BY DEF MoneyRows
<1> QED
  BY <1>1, <1>2, <1>3, <1>4 DEF MoneyRows

LEMMA FitsKept ==
  ASSUME InvoiceTypeOK, InvoiceTypeOK', InvoicesKept, PaymentsKept, Completed' = Completed,
         \A i \in DOMAIN invoice : /\ invoice'[i].number = invoice[i].number
                                   /\ invoice'[i].status = "VOID" => invoice[i].status = "VOID",
         NEW u \in Task, MoneyFits(u)
  PROVE  MoneyFits(u)'
<1>1. u.op = "pay" /\ u.step \in {"record", "online"} => Room(u.on, u.n)'
  <2>1. u.n \in Nat
    BY DEF Task
  <2> QED
    BY <2>1, RoomKept DEF MoneyFits
<1>2. PICK m : m = u.on
  OBVIOUS
<1>3. PICK S : S = Active(Subs(m))
  OBVIOUS
<1>4. Subs(m)' = Subs(m) /\ Active(Subs(m))' = S
  BY <1>3 DEF InvoicesKept, Subs, Active
<1>5. Claims(m)' = Claims(m)
  <2>1. \A s \in S : invoice'[s].total = invoice[s].total
    BY <1>3 DEF InvoicesKept, Active, Subs
  <2>2. [s \in S |-> invoice'[s].total] = [s \in S |-> invoice[s].total]
    BY <2>1
  <2> QED
    BY <1>3, <1>4, <2>2 DEF Claims
<1>6. Total(Completed)' = Total(Completed)
  BY CompletedKept
<1>7. u.op = "sub" => \/ u.saw = Cardinality(Active(Subs(m)))' + 1 /\ u.n + Total(Completed)' + Claims(m)' <= Price
                      \/ \E s \in Subs(m)' : invoice'[s].number = u.saw
  <2>1. u.op = "sub" => \/ u.saw = Cardinality(Active(Subs(m))) + 1 /\ u.n + Total(Completed) + Claims(m) <= Price
                        \/ \E s \in Subs(m) : invoice[s].number = u.saw
    BY <1>2 DEF MoneyFits
  <2>2. \A s \in Subs(m) : invoice'[s].number = invoice[s].number
    BY DEF Subs
  <2> QED
    BY <1>3, <1>4, <1>5, <1>6, <2>1, <2>2
<1> QED
  BY <1>1, <1>2, <1>7 DEF MoneyFits

KeptRows ==
  /\ InvoicesKept /\ PaymentsKept /\ Completed' = Completed /\ Pending' \subseteq Pending
  /\ \A i \in DOMAIN invoice : /\ invoice'[i].number = invoice[i].number
                               /\ invoice'[i].status = "VOID" => invoice[i].status = "VOID"
  /\ \A p \in Pending' : payment'[p].invoice = payment[p].invoice /\ payment'[p].amount = payment[p].amount

LEMMA KeptStep ==
  ASSUME ActiveIInv, ActiveIInv', MoneyInv, KeptRows,
         NEW c \in Clerks, NEW t, DeskStep(c, t), t \in Task => MoneyFits(t)
  PROVE  MoneyInv'
<1>1. InvoiceTypeOK /\ InvoiceTypeOK' /\ MoneyRows
  BY DEF ActiveIInv, MoneyInv
<1>2. MoneyRows'
  BY <1>1, RowsKept DEF KeptRows
<1>3. \A u \in Task : MoneyFits(u) => MoneyFits(u)'
  BY <1>1, FitsKept DEF KeptRows
<1> QED
  BY <1>2, <1>3, MoneyTogether DEF MoneyInv

LEMMA SameIsKept ==
  ASSUME InvoiceTypeOK, InvoiceTypeOK', SameRows
  PROVE  KeptRows
<1>1. DOMAIN invoice' = DOMAIN invoice /\ DOMAIN payment' = DOMAIN payment
  BY RowFactsHold, NextRowFacts DEF RowFacts, SameRows
<1>2. Completed' = Completed /\ Pending' = Pending
  BY <1>1 DEF SameRows, Completed, Pending
<1>3. InvoicesKept
  BY <1>1 DEF SameRows, InvoicesKept
<1>4. PaymentsKept
  BY <1>1, <1>2 DEF SameRows, PaymentsKept, Completed
<1> QED
  BY <1>1, <1>2, <1>3, <1>4 DEF KeptRows, SameRows, Pending

\* What is known of the rows after a step of a request that is going on.
LEMMA GoingOnMoney ==
  ASSUME InvoicesApart, Careful, ActiveIInv, ActiveIInv', MoneyInv, NEW c \in Clerks,
         \/ PayDerives(c) \/ PostDerives(c) \/ PostThrows(c) \/ SyncFinds(c) \/ SyncSums(c)
         \/ PayWrites(c) \/ PostWrites(c) \/ SyncWrites(c) \/ PayReceipt(c)
         \/ CreateSubInvoice(c) /\ UNCHANGED <<invoice, payment>>
         \/ PayInvoice(c) /\ UNCHANGED <<invoice, payment>>
         \/ SyncLinks(c) \/ GenerateReceiptForInvoice(c)
  PROVE  MoneyInv'
<1>0. InvoiceTypeOK /\ InvoiceTypeOK'
  BY DEF ActiveIInv
<1>1. PICK t : DeskStep(c, t) /\ (t \in Task => t.op # "sub" /\ t.step \notin {"record", "online"})
  BY GoesOn
<1>2. t \in Task => MoneyFits(t)
  BY <1>1 DEF MoneyFits
<1>3. ASSUME SameRows PROVE MoneyInv'
  <2>1. KeptRows
    BY <1>0, <1>3, SameIsKept
  <2> QED
    BY <1>1, <1>2, <2>1, KeptStep
<1>4. CASE \/ PayDerives(c) \/ PostDerives(c) \/ PostThrows(c) \/ SyncFinds(c) \/ SyncSums(c)
           \/ CreateSubInvoice(c) /\ UNCHANGED <<invoice, payment>>
           \/ PayInvoice(c) /\ UNCHANGED <<invoice, payment>>
  <2>1. UNCHANGED <<invoice, payment>>
    BY <1>4 DEF PayDerives, PostDerives, PostThrows, SyncFinds, SyncSums
  <2> QED
    BY <1>0, <1>3, <2>1, UnchangedIsSame
<1>5. CASE PayWrites(c) \/ PostWrites(c) \/ SyncWrites(c) \/ PayReceipt(c)
  BY <1>3, <1>5, WritesActive
<1>6. CASE SyncLinks(c) \/ GenerateReceiptForInvoice(c)
  <2>1. UNCHANGED invoice
    BY <1>6 DEF SyncLinks, GenerateReceiptForInvoice
  <2>2. /\ DOMAIN payment' = DOMAIN payment /\ \A p \in DOMAIN payment : Joined(p)
        /\ Completed' = Completed /\ Pending' = Pending
    <3>1. ~ \E p \in Pending : Confirm(c, p)
      <4>1. Working(c)
        BY <1>6 DEF SyncLinks, GenerateReceiptForInvoice, At, Working
      <4> QED
        BY <4>1 DEF Confirm, Takes, Working
    <3> QED
      BY <1>6, <3>1, JoinsActive
  <2>3. InvoicesKept
    BY <2>1 DEF InvoicesKept
  <2>4. PaymentsKept
    BY <2>2 DEF PaymentsKept, Joined, Completed
  <2>5. \A p \in Pending' : payment'[p].invoice = payment[p].invoice /\ payment'[p].amount = payment[p].amount
    <3>1. \A p \in Pending : p \in DOMAIN payment /\ p \notin Completed
      BY DEF Pending, Completed
    <3> QED
      BY <2>2, <3>1 DEF Joined
  <2>6. KeptRows
    BY <2>1, <2>2, <2>3, <2>4, <2>5 DEF KeptRows
  <2> QED
    BY <1>1, <1>2, <2>6, KeptStep
<1> QED
  BY <1>4, <1>5, <1>6

LEMMA BeginningsMoney ==
  ASSUME InvoicesApart, Careful, ActiveIInv, ActiveIInv', MoneyInv, NEW c \in Clerks,
         \/ BeginMaster(c) \/ View(c)
         \/ \E i \in DOMAIN invoice : \/ BeginVoid(c, i)
                                      \/ \E n \in Amounts : BeginSub(c, i, n) \/ BeginPay(c, i, n)
                                      \/ \E p \in DOMAIN payment : BeginReceipt(c, i, p)
  PROVE  MoneyInv'
<1> USE InvoicingAssumption
<1>0. InvoiceTypeOK /\ InvoiceTypeOK' /\ RowsFit /\ MoneyRows
  BY DEF ActiveIInv, ActiveInv, MoneyInv
<1>1. UNCHANGED <<invoice, payment>>
  BY DEF BeginMaster, View, BeginVoid, BeginSub, BeginPay, BeginReceipt
<1>2. SameRows
  BY <1>0, <1>1, UnchangedIsSame
<1>3. ASSUME NEW t, DeskStep(c, t), t \in Task => MoneyFits(t)
      PROVE  MoneyInv'
  <2>1. KeptRows
    BY <1>0, <1>2, SameIsKept
  <2> QED
    BY <1>3, <2>1, KeptStep
<1>4. ASSUME NEW op \in {"master", "view", "void", "receipt"}, NEW step \in InvoiceStep, NEW i \in Nat,
             i # 0 => i \in DOMAIN invoice, NEW p \in Nat, NEW saw \in Nat, Takes(c, op, step, i, p, 0, saw)
      PROVE  MoneyInv'
  <2>1. op \in Op
    BY DEF Op
  <2>2. PICK st \in Status :
          /\ DeskStep(c, [op |-> op, step |-> step, on |-> i, pay |-> p, n |-> 0, saw |-> saw, status |-> st])
          /\ i # 0 => st = invoice[i].status
          /\ ~Working(c) /\ MayRun(op)
    BY <1>0, <1>4, <2>1, TakesIsStep
  <2>3. MoneyFits([op |-> op, step |-> step, on |-> i, pay |-> p, n |-> 0, saw |-> saw, status |-> st])
    BY DEF MoneyFits
  <2> QED
    BY <1>3, <2>2, <2>3
<1>5. CASE BeginMaster(c)
  BY <1>4, <1>5, StepKinds DEF BeginMaster
<1>6. CASE View(c)
  BY <1>4, <1>6, StepKinds DEF View
<1>7. ASSUME NEW i \in DOMAIN invoice, BeginVoid(c, i)
      PROVE  MoneyInv'
  <2>1. i \in Nat /\ Len(invoice) \in Nat
    BY <1>0, RowTypes
  <2> QED
    BY <1>4, <1>7, <2>1, StepKinds DEF BeginVoid
<1>8. ASSUME NEW i \in DOMAIN invoice, NEW p \in DOMAIN payment, BeginReceipt(c, i, p)
      PROVE  MoneyInv'
  <2>1. i \in Nat /\ p \in Nat /\ payment[p].invoice \in Nat
    BY <1>0, RowTypes
  <2> QED
    BY <1>4, <1>8, <2>1, StepKinds DEF BeginReceipt
<1>9. ASSUME NEW i \in DOMAIN invoice, NEW n \in Amounts, BeginSub(c, i, n)
      PROVE  MoneyInv'
  <2>2. PICK saw : saw = Cardinality(Active(Subs(i))) + 1
    OBVIOUS
  <2>a. saw \in Nat
    BY <1>0, <2>2, SubNumber
  <2>1. i \in Nat /\ n \in Nat /\ saw \in Nat /\ "sub" \in Op /\ "create" \in InvoiceStep
    BY <1>0, <2>a, RowTypes DEF Op, InvoiceStep
  <2>3. Takes(c, "sub", "create", i, 0, n, saw)
    BY <1>9, <2>2 DEF BeginSub
  <2>4. PICK st \in Status :
          /\ DeskStep(c, [op |-> "sub", step |-> "create", on |-> i, pay |-> 0, n |-> n, saw |-> saw, status |-> st])
          /\ i # 0 => st = invoice[i].status
          /\ ~Working(c) /\ MayRun("sub")
    BY <1>0, <2>1, <2>3, TakesIsStep
  <2>5. i \in Active(Masters) /\ n <= Available(i)
    BY <1>9 DEF BeginSub
  <2>6. Available(i) = Price - Total(Completed) - Claims(i)
    <3>1. DeriveInvoiceAmounts(i) = Total(Completed)
      BY <1>0, <2>5, AllCounted
    <3>2. invoice[i].total = Price
      BY <1>0, <2>5 DEF MoneyRows, Active
    <3> QED
      BY <3>1, <3>2 DEF Available, Claims
  <2>7. Price \in Nat /\ Total(Completed) \in Nat /\ Claims(i) \in Nat
    BY <1>0, TotalType, DerivedType, ClaimsType
  <2>8. n + Total(Completed) + Claims(i) <= Price
    BY <2>1, <2>5, <2>6, <2>7
  <2>9. MoneyFits([op |-> "sub", step |-> "create", on |-> i, pay |-> 0, n |-> n, saw |-> saw, status |-> st])
    BY <2>2, <2>8 DEF MoneyFits
  <2> QED
    BY <1>3, <2>4, <2>9
<1>10. ASSUME NEW i \in DOMAIN invoice, NEW n \in Amounts, BeginPay(c, i, n)
      PROVE  MoneyInv'
  <2>1. i \in Nat /\ n \in Nat /\ "pay" \in Op
    BY <1>0, RowTypes DEF Op
  <2>2. PICK step \in {"record", "online"} : Takes(c, "pay", step, i, 0, n, 0)
    BY <1>10 DEF BeginPay
  <2>3. step \in InvoiceStep
    BY DEF InvoiceStep
  <2>4. PICK st \in Status :
          /\ DeskStep(c, [op |-> "pay", step |-> step, on |-> i, pay |-> 0, n |-> n, saw |-> 0, status |-> st])
          /\ i # 0 => st = invoice[i].status
          /\ ~Working(c) /\ MayRun("pay")
    BY <1>0, <2>1, <2>2, <2>3, TakesIsStep
  <2>5. Room(i, n)
    BY <1>0, <1>10, <2>1, InvoiceHasRoom DEF BeginPay
  <2>6. MoneyFits([op |-> "pay", step |-> step, on |-> i, pay |-> 0, n |-> n, saw |-> 0, status |-> st])
    BY <2>5 DEF MoneyFits
  <2> QED
    BY <1>3, <2>4, <2>6
<1> QED
  BY <1>5, <1>6, <1>7, <1>8, <1>9, <1>10

LEMMA VoidMoney ==
  ASSUME InvoicesApart, Careful, ActiveIInv, ActiveIInv', MoneyInv, NEW c \in Clerks, VoidInvoice(c)
  PROVE  MoneyInv'
<1>0. InvoiceTypeOK /\ InvoiceTypeOK' /\ RequestsApart /\ MoneyRows
  BY DEF ActiveIInv, ActiveInv, MoneyInv
<1>1. UNCHANGED payment /\ At(c, "write") /\ desk[c].op = "void" /\ Ends(c)
  BY DEF VoidInvoice
<1>2. InvoicesKept
  <2> DEFINE voided == {desk[c].on} \cup (Subs(desk[c].on) \cap 1 .. desk[c].saw)
  <2>1. invoice' = [i \in DOMAIN invoice |-> IF i \in voided THEN [invoice[i] EXCEPT !.status = "VOID"] ELSE invoice[i]]
    BY DEF VoidInvoice
  <2> HIDE DEF voided
  <2>2. \A i \in DOMAIN invoice : invoice[i] \in InvoiceRow(Len(invoice))
    BY <1>0, RowTypes
  <2>3. ASSUME NEW i \in DOMAIN invoice
        PROVE  /\ invoice'[i].parent = invoice[i].parent /\ invoice'[i].total = invoice[i].total
               /\ invoice[i].status = "VOID" => invoice'[i].status = "VOID"
    <3>1. invoice'[i] = IF i \in voided THEN [invoice[i] EXCEPT !.status = "VOID"] ELSE invoice[i]
      BY <2>1
    <3> QED
      BY <2>2, <3>1 DEF InvoiceRow
  <2>4. DOMAIN invoice' = DOMAIN invoice
    BY <2>1
  <2> QED
    BY <2>3, <2>4 DEF InvoicesKept
<1>3. Completed' = Completed /\ Pending' = Pending /\ PaymentsKept
  BY <1>1 DEF PaymentsKept, Completed, Pending
<1>4. MoneyRows'
  BY <1>0, <1>1, <1>2, <1>3, RowsKept
<1>5. ASSUME NEW d \in Clerks \ {c}, NEW u \in Task, desk[d] = u
      PROVE  MoneyFits(u)'
  <2>1. Working(d) /\ Working(c)
    BY <1>1, <1>5 DEF Working, At, Idle, Task, Op
  <2>2. u.op \in {"void", "receipt"}
    BY <1>0, <1>1, <1>5, <2>1, WhoIsBeside DEF Beside
  <2> QED
    BY <2>2 DEF MoneyFits
<1>6. DeskStep(c, Idle) /\ Idle \notin Task
  BY <1>1, EndsIsStep
<1> QED
  BY <1>4, <1>5, <1>6, MoneyTogether

\* A payment waits, and it is the only one.
LEMMA PendingRows ==
  ASSUME InvoiceTypeOK, InvoiceTypeOK', RowsFit, MoneyRows, UNCHANGED invoice, NEW i, i = 0 \/ IsActive(i), NEW n \in Amounts,
         NewPayment(i, n, "PENDING"), Pending = {}, Room(i, n)
  PROVE  MoneyRows'
<1>1. /\ Len(payment') = Len(payment) + 1 /\ Len(payment) \in Nat
      /\ payment'[Len(payment) + 1] = [invoice |-> i, amount |-> n, receipt |-> 0, status |-> "PENDING"]
      /\ \A p \in DOMAIN payment : payment'[p] = payment[p]
      /\ DOMAIN payment = 1 .. Len(payment) /\ DOMAIN payment' = 1 .. Len(payment')
  BY NewPaymentFits, RowFactsHold, NextRowFacts DEF RowFacts
<1>2. PICK last : last = Len(payment) + 1
  OBVIOUS
<1>3. Completed' = Completed /\ Pending' = {last}
  <2>1. DOMAIN payment' = DOMAIN payment \cup {last} /\ payment'[last].status = "PENDING"
    BY <1>1, <1>2
  <2>2. Completed' = Completed
    BY <1>1, <1>2, <2>1 DEF Completed
  <2>3. Pending' = {last}
    BY <1>1, <1>2, <2>1 DEF Pending
  <2> QED
    BY <2>2, <2>3
<1>4. PaymentsKept
  BY <1>1, <1>3 DEF PaymentsKept, Completed
<1>5. InvoicesKept
  BY DEF InvoicesKept
<1>6. n \in Nat
  BY InvoicingAssumption
<1>7. Room(0, 0)' /\ Room(i, n)'
  BY <1>3, <1>4, <1>5, <1>6, RoomKept DEF MoneyRows
<1>8. \A p \in Pending' : Room(payment[p].invoice, payment[p].amount)'
  <2>1. payment'[last].invoice = i /\ payment'[last].amount = n
    BY <1>1, <1>2
  <2>2. Room(payment[last].invoice, payment[last].amount)'
    BY <1>7, <2>1 DEF Room, Open, OpenAt
  <2> QED
    BY <1>3, <2>2
<1>9. \A j \in Masters' : invoice'[j].total = Price
  BY <1>5, InvoicesKeptMeans DEF MoneyRows
<1> QED
  BY <1>3, <1>7, <1>8, <1>9 DEF MoneyRows

\* A payment is completed, and none waits.
LEMMA CompletedRows ==
  ASSUME InvoiceTypeOK, InvoiceTypeOK', MoneyRows, UNCHANGED invoice, PaymentsKept, Pending' = {},
         NEW p, NEW i, NEW n, Completes(p, i, n), Room(i, n)
  PROVE  MoneyRows'
<1>1. Room(0, 0)'
  BY RoomPaid
<1>2. \A j \in Masters' : invoice'[j].total = Price
  BY DEF MoneyRows, Masters, IsMaster
<1> QED
  BY <1>1, <1>2 DEF MoneyRows

LEMMA NewCompletes ==
  ASSUME InvoiceTypeOK, InvoiceTypeOK', RowsFit, UNCHANGED invoice, NEW i, i = 0 \/ IsActive(i), NEW n \in Amounts,
         NewPayment(i, n, "COMPLETED")
  PROVE  \E p : Completes(p, i, n) /\ PaymentsKept /\ Pending' = Pending
<1>1. /\ Len(payment') = Len(payment) + 1 /\ Len(payment) \in Nat
      /\ payment'[Len(payment) + 1] = [invoice |-> i, amount |-> n, receipt |-> 0, status |-> "COMPLETED"]
      /\ \A p \in DOMAIN payment : payment'[p] = payment[p]
      /\ DOMAIN payment = 1 .. Len(payment) /\ DOMAIN payment' = 1 .. Len(payment')
  BY NewPaymentFits, RowFactsHold, NextRowFacts DEF RowFacts
<1>2. PICK last : last = Len(payment) + 1
  OBVIOUS
<1>3. DOMAIN payment' = DOMAIN payment \cup {last} /\ last \notin DOMAIN payment
      /\ payment'[last].status = "COMPLETED" /\ payment'[last].invoice = i /\ payment'[last].amount = n
  BY <1>1, <1>2
<1>4. Completed' = Completed \cup {last} /\ Pending' = Pending
  BY <1>1, <1>3 DEF Completed, Pending
<1>5. PaymentsKept
  BY <1>1, <1>3, <1>4 DEF PaymentsKept, Completed
<1>6. Completes(last, i, n)
  BY <1>1, <1>3, <1>4 DEF Completes, Completed
<1> QED
  BY <1>4, <1>5, <1>6

LEMMA PaymentsMoney ==
  ASSUME InvoicesApart, Careful, ActiveIInv, ActiveIInv', MoneyInv, NEW c \in Clerks,
         \/ GeneratePaymentPayload(c) \/ PayInvoice(c) \/ \E n \in Amounts : PaySale(c, n)
         \/ \E p \in DOMAIN payment : Confirm(c, p)
  PROVE  MoneyInv'
<1> USE InvoicingAssumption
<1>0. InvoiceTypeOK /\ InvoiceTypeOK' /\ RowsFit /\ RequestsApart /\ MoneyRows
  BY DEF ActiveIInv, ActiveInv, MoneyInv
<1>1. UNCHANGED invoice
  BY DEF GeneratePaymentPayload, PayInvoice, PaySale, Confirm
<1>2. ASSUME MoneyRows', NEW t, DeskStep(c, t), t \in Task => MoneyFits(t)',
             \/ Working(c) /\ desk[c].op \in {"pay", "job"}
             \/ MayRun("pay") \/ MayRun("job")
      PROVE  MoneyInv'
  <2>1. \A d \in Clerks \ {c}, u \in Task : desk[d] # u
    BY <1>0, <1>2, PaysAlone
  <2> QED
    BY <1>2, <2>1, MoneyTogether
<1>3. CASE GeneratePaymentPayload(c) \/ PayInvoice(c)
  <2>1. /\ Working(c) /\ TaskFits(desk[c]) /\ desk[c].step \in {"online", "record"} /\ desk[c].op = "pay"
        /\ desk[c] \in Task
    BY <1>0, <1>3, AtStep, DeskTypes, WhichOp DEF GeneratePaymentPayload, PayInvoice
  <2>2. PICK i, n : i = desk[c].on /\ n = desk[c].n
    OBVIOUS
  <2>3. IsActive(i) /\ n \in Amounts /\ Pending = {}
    BY <2>1, <2>2 DEF TaskFits
  <2>4. PICK u \in Task : u = desk[c]
    BY <2>1
  <2>5. MoneyFits(u)
    BY <2>4 DEF MoneyInv
  <2>6. Room(i, n)
    BY <2>1, <2>2, <2>4, <2>5 DEF MoneyFits
  <2>7. PICK t : DeskStep(c, t) /\ (t \in Task => t.op # "sub" /\ t.step \notin {"record", "online"})
    BY <1>3, GoesOn
  <2>8. t \in Task => MoneyFits(t)'
    BY <2>7 DEF MoneyFits
  <2>9. CASE GeneratePaymentPayload(c)
    <3>1. MoneyRows'
      BY <1>0, <1>1, <2>2, <2>3, <2>6, <2>9, PendingRows DEF GeneratePaymentPayload
    <3> QED
      BY <1>2, <2>1, <2>7, <2>8, <3>1
  <2>10. CASE PayInvoice(c) /\ UNCHANGED payment
    BY <1>1, <2>10, GoingOnMoney
  <2>11. CASE NewPayment(i, n, "COMPLETED")
    <3>1. PICK p : Completes(p, i, n) /\ PaymentsKept /\ Pending' = Pending
      BY <1>0, <1>1, <2>3, <2>11, NewCompletes
    <3>2. MoneyRows'
      BY <1>0, <1>1, <2>3, <2>6, <3>1, CompletedRows
    <3> QED
      BY <1>2, <2>1, <2>7, <2>8, <3>2
  <2> QED
    BY <1>3, <2>2, <2>9, <2>10, <2>11 DEF PayInvoice
<1>4. ASSUME NEW n \in Amounts, PaySale(c, n)
      PROVE  MoneyInv'
  <2>1. Room(0, n) /\ Pending = {}
    BY <1>0, <1>4, SaleHasRoom DEF PaySale
  <2>2. PICK p : Completes(p, 0, n) /\ PaymentsKept /\ Pending' = Pending
    BY <1>0, <1>1, <1>4, NewCompletes DEF PaySale
  <2>3. MoneyRows'
    BY <1>0, <1>1, <2>1, <2>2, CompletedRows
  <2>4. PICK last : last = Len(payment) + 1 /\ last \in Nat
    BY <1>0, RowTypes
  <2>5. Takes(c, "job", "post", 0, last, 0, 0) /\ "job" \in Op /\ "post" \in InvoiceStep
    BY <1>4, <2>4 DEF PaySale, Op, InvoiceStep
  <2>6. PICK st \in Status :
          /\ DeskStep(c, [op |-> "job", step |-> "post", on |-> 0, pay |-> last, n |-> 0, saw |-> 0, status |-> st])
          /\ 0 # 0 => st = invoice[0].status
          /\ ~Working(c) /\ MayRun("job")
    BY <1>0, <2>4, <2>5, TakesIsStep
  <2>7. PICK t : t = [op |-> "job", step |-> "post", on |-> 0, pay |-> last, n |-> 0, saw |-> 0, status |-> st]
    OBVIOUS
  <2>8. MoneyFits(t)'
    BY <2>7 DEF MoneyFits
  <2> QED
    BY <1>2, <2>3, <2>6, <2>7, <2>8
<1>5. ASSUME NEW p \in DOMAIN payment, Confirm(c, p)
      PROVE  MoneyInv'
  <2>1. PICK i, n : i = payment[p].invoice /\ n = payment[p].amount
    OBVIOUS
  <2>2. /\ p \in Pending /\ Takes(c, "job", "post", i, p, 0, 0)
        /\ payment' = [payment EXCEPT ![p].status = "COMPLETED"]
    BY <1>5, <2>1 DEF Confirm
  <2>3. i \in Nat /\ (i # 0 => i \in DOMAIN invoice) /\ p \in Nat /\ "job" \in Op /\ "post" \in InvoiceStep
    BY <1>0, <2>1, RowTypes DEF Op, InvoiceStep
  <2>4. PICK st \in Status :
          /\ DeskStep(c, [op |-> "job", step |-> "post", on |-> i, pay |-> p, n |-> 0, saw |-> 0, status |-> st])
          /\ i # 0 => st = invoice[i].status
          /\ ~Working(c) /\ MayRun("job")
    BY <1>0, <2>2, <2>3, TakesIsStep
  <2>5. PICK t : t = [op |-> "job", step |-> "post", on |-> i, pay |-> p, n |-> 0, saw |-> 0, status |-> st]
    OBVIOUS
  <2>6. MoneyFits(t)'
    BY <2>5 DEF MoneyFits
  <2>7. Room(i, n)
    BY <1>0, <2>1, <2>2 DEF MoneyRows
  <2>8. PaymentsKept /\ Completes(p, i, n) /\ Pending' = {}
    <3>1. /\ DOMAIN payment' = DOMAIN payment
          /\ \A q \in DOMAIN payment : /\ payment'[q].invoice = payment[q].invoice
                                        /\ payment'[q].amount = payment[q].amount
          /\ payment'[p].status = "COMPLETED"
          /\ \A q \in DOMAIN payment \ {p} : payment'[q].status = payment[q].status
      <4> DEFINE row == [payment[p] EXCEPT !.status = "COMPLETED"]
      <4>1. payment[p] \in PaymentRow(Len(invoice))
        BY <1>0, RowTypes
      <4>2. row.status = "COMPLETED" /\ row.invoice = payment[p].invoice /\ row.amount = payment[p].amount
        BY <4>1 DEF PaymentRow
      <4>3. payment' = [payment EXCEPT ![p] = row]
        BY <2>2
      <4> HIDE DEF row
      <4>4. DOMAIN payment' = DOMAIN payment /\ payment'[p] = row /\ \A q \in DOMAIN payment \ {p} : payment'[q] = payment[q]
        BY <4>3
      <4> QED
        BY <4>2, <4>4
    <3>2. p \notin Completed
      BY <2>2 DEF Pending, Completed
    <3>3. Completed' = Completed \cup {p} /\ Pending' = Pending \ {p}
      BY <2>2, <3>1 DEF Pending, Completed
    <3>4. Pending' = {}
      BY <1>0, <2>2, <3>3 DEF MoneyRows
    <3>5. PaymentsKept
      BY <3>1, <3>3 DEF PaymentsKept, Completed
    <3> QED
      BY <2>1, <3>1, <3>2, <3>3, <3>4, <3>5 DEF Completes, Completed
  <2>9. MoneyRows'
    BY <1>0, <1>1, <2>7, <2>8, CompletedRows
  <2> QED
    BY <1>2, <2>4, <2>5, <2>6, <2>9
<1> QED
  BY <1>3, <1>4, <1>5

LEMMA SaleOnlineMoney ==
  ASSUME InvoicesApart, Careful, ActiveIInv, ActiveIInv', MoneyInv, NEW n \in Amounts, PaySaleOnline(n)
  PROVE  MoneyInv'
<1>0. InvoiceTypeOK /\ InvoiceTypeOK' /\ RowsFit /\ RequestsApart /\ MoneyRows /\ n \in Nat
  BY InvoicingAssumption DEF ActiveIInv, ActiveInv, MoneyInv
<1>1. Room(0, n) /\ Pending = {}
  BY <1>0, SaleHasRoom DEF PaySaleOnline
<1>2. MoneyRows'
  BY <1>0, <1>1, PendingRows DEF PaySaleOnline
<1>3. \A c \in Clerks, u \in Task : desk'[c] # u
  <2>1. SUFFICES ASSUME NEW c \in Clerks, NEW u \in Task, desk[c] = u PROVE FALSE
    BY DEF PaySaleOnline
  <2>2. Working(c) /\ "pay" \in Op /\ MayRun("pay")
    BY <2>1 DEF Working, Idle, Task, Op, PaySaleOnline
  <2> QED
    BY <1>0, <2>2, WhoMayRun DEF Beside
<1> QED
  BY <1>2, <1>3 DEF MoneyInv

-----------------------------------------------------------------------------
(* Invoices that are added *)

SplitNothing == \A m, i, n : Active(Subs(m)) = {} => Open(m, i, n) = 0

LEMMA SplitsNothing == InvoiceTypeOK => SplitNothing
BY NothingSplit DEF SplitNothing

LEMMA NextSplitsNothing == InvoiceTypeOK' => SplitNothing'
BY SplitsNothing, PTL

\* What is open is claimed.
OpenIsClaimed == \A m : Open(m, 0, 0) \in Nat /\ Claims(m) \in Nat /\ Open(m, 0, 0) <= Claims(m)

LEMMA OpensAreClaimed == InvoiceTypeOK => OpenIsClaimed
<1> SUFFICES ASSUME InvoiceTypeOK, NEW m
             PROVE  Open(m, 0, 0) \in Nat /\ Claims(m) \in Nat /\ Open(m, 0, 0) <= Claims(m)
  BY DEF OpenIsClaimed
<1> DEFINE S == DOMAIN invoice
           R == Active(Subs(m))
           f == [s \in S |-> OpenAt(m, 0, 0, s)]
           g == [s \in R |-> invoice[s].total]
<1>1. Open(m, 0, 0) = SumFunctionOnSet(f, S) /\ Claims(m) = SumFunctionOnSet(g, R)
  BY DEF Open, Claims, SumFunction
<1>2. R \subseteq S /\ IsFiniteSet(R) /\ IsFiniteSet(S) /\ IsFiniteSet(S \ R)
  BY PaymentsAreFinite, FS_Subset DEF Active, Subs
<1>3. \A s \in S : f[s] \in Int
  BY OpensAreTyped DEF OpensTyped
<1>4. \A s \in R : g[s] \in Int /\ f[s] <= g[s]
  <2>1. SUFFICES ASSUME NEW s \in R PROVE invoice[s].total \in Nat /\ OpenAt(m, 0, 0, s) <= invoice[s].total
    BY <1>2
  <2>2. invoice[s].total \in Nat /\ DeriveInvoiceAmounts(s) \in Nat
    BY <1>2, RowTypes, DerivedType
  <2> QED
    BY <2>1, <2>2 DEF OpenAt
<1>5. \A s \in S \ R : f[s] = 0
  BY DEF OpenAt
<1>6. Open(m, 0, 0) \in Nat /\ Claims(m) \in Nat
  BY OpensAreTyped, ClaimsType DEF OpensTyped
<1> HIDE DEF f, g, S, R
<1>7. SumFunctionOnSet(f, S \ R) = 0
  BY <1>2, <1>5, SumZero
<1>8. SumFunctionOnSet(f, R) <= SumFunctionOnSet(g, R) /\ SumFunctionOnSet(f, R) \in Int
  BY <1>2, <1>3, <1>4, SumLess
<1>9. SumFunctionOnSet(f, S) = SumFunctionOnSet(f, S \ R) + SumFunctionOnSet(f, R)
  <2>1. (S \ R) \cup R = S /\ (S \ R) \cap R = {}
    BY <1>2
  <2>2. \A s \in (S \ R) \cup R : f[s] \in Int
    BY <1>3, <2>1
  <2>3. SumFunctionOnSet(f, (S \ R) \cup R) = SumFunctionOnSet(f, S \ R) + SumFunctionOnSet(f, R)
    BY <1>2, <2>1, <2>2, SumUnion
  <2> QED
    BY <2>1, <2>3
<1> QED
  BY <1>1, <1>6, <1>7, <1>8, <1>9

LEMMA NextOpensAreClaimed == InvoiceTypeOK' => OpenIsClaimed'
BY OpensAreClaimed, PTL

LEMMA NoTax ==
  ASSUME TaxRate = 0, NEW n \in Nat
  PROVE  WithTax(n) = n
<1>1. n * TaxRate = 0
  OBVIOUS
<1> QED
  BY <1>1 DEF WithTax

LEMMA MasterMoney ==
  ASSUME InvoicesApart, Careful, TaxRate = 0, ActiveIInv, ActiveIInv', MoneyInv, NEW c \in Clerks,
         GenerateMasterInvoice(c)
  PROVE  MoneyInv'
<1>0. InvoiceTypeOK /\ InvoiceTypeOK' /\ RowsFit /\ RequestsApart /\ MoneyRows /\ Price \in Nat
  BY InvoicingAssumption DEF ActiveIInv, ActiveInv, MoneyInv
<1>1. Working(c) /\ TaskFits(desk[c]) /\ desk[c].step = "create" /\ desk[c].op = "master"
  BY AtStep DEF GenerateMasterInvoice
<1>2. Active(Masters) = {} /\ UNCHANGED payment
  BY <1>1 DEF TaskFits, GenerateMasterInvoice
<1>3. PICK row : row = Row(0, 0, Price)
  OBVIOUS
<1>4. row \in InvoiceRow(Len(invoice) + 1) /\ row.status = "SENT" /\ row.parent = 0 /\ row.total = Price
  <2>1. row \in InvoiceRow(Len(invoice) + 1)
    BY <1>0, <1>3, RowType, RowTypes
  <2>2. WithTax(Price) = Price
    BY <1>0, NoTax
  <2> QED
    BY <1>3, <2>1, <2>2 DEF Row
<1>5. PICK last : last = Len(invoice) + 1
  OBVIOUS
<1>6. /\ DOMAIN invoice' = DOMAIN invoice \cup {last} /\ last \notin DOMAIN invoice /\ last # 0
      /\ \A i \in DOMAIN invoice : invoice'[i] = invoice[i]
      /\ invoice'[last] = row /\ Active(Masters)' = {last}
  <2>1. invoice' = Append(invoice, row)
    BY <1>3 DEF GenerateMasterInvoice
  <2>2. last # 0
    BY <1>0, <1>5, RowTypes
  <2> QED
    BY <1>0, <1>2, <1>4, <1>5, <2>1, <2>2, AddedFits
<1>7. Active(Subs(last))' = {}
  <2>1. \A i \in DOMAIN invoice : invoice[i].parent # last
    BY <1>0, <1>5, RowTypes
  <2> QED
    BY <1>4, <1>6, <2>1 DEF Active, Subs
<1>8. Completed' = Completed /\ Pending' = Pending /\ Total(Completed)' = Total(Completed)
  BY <1>2 DEF Completed, Pending, Total
<1>9. ASSUME NEW i, NEW n \in Nat, Room(i, n)
      PROVE  Room(i, n)'
  <2>1. Open(last, i, n)' = 0
    BY <1>0, <1>7, NextSplitsNothing DEF SplitNothing
  <2>2. Total(Completed)' + n <= Price
    BY <1>8, <1>9 DEF Room
  <2>3. (Total(Completed) + n) + 0 = Total(Completed) + n
    <3>1. Total(Completed) \in Nat
      BY <1>0, TotalType, DerivedType
    <3> QED
      BY <3>1
  <2> QED
    BY <1>6, <1>8, <2>1, <2>2, <2>3 DEF Room
<1>10. \A i \in Masters' : invoice'[i].total = Price
  <2>1. \A i \in Masters' : i \in Masters \/ i = last
    BY <1>6 DEF Masters, IsMaster
  <2> QED
    BY <1>0, <1>4, <1>6, <2>1 DEF MoneyRows, Masters
<1>11. \A p \in Pending' : Room(payment[p].invoice, payment[p].amount)'
  <2>1. SUFFICES ASSUME NEW p \in Pending' PROVE Room(payment[p].invoice, payment[p].amount)'
    OBVIOUS
  <2>2. PICK i, n : i = payment[p].invoice /\ n = payment[p].amount
    OBVIOUS
  <2>3. Room(i, n) /\ n \in Nat
    BY <1>0, <1>8, <2>1, <2>2, RowTypes DEF MoneyRows, Pending
  <2>4. Room(i, n)'
    BY <1>9, <2>3
  <2>5. payment'[p].invoice = i /\ payment'[p].amount = n
    BY <1>2, <2>2
  <2> QED
    BY <2>4, <2>5 DEF Room, Open, OpenAt
<1>12. MoneyRows'
  <2>1. Room(0, 0)'
    BY <1>0, <1>9 DEF MoneyRows
  <2>2. \A p, q \in Pending' : p = q
    BY <1>0, <1>8 DEF MoneyRows
  <2> QED
    BY <1>10, <1>11, <2>1, <2>2 DEF MoneyRows
<1>13. ASSUME NEW d \in Clerks \ {c}, NEW u \in Task, desk[d] = u
       PROVE  MoneyFits(u)'
  <2>1. Working(d) /\ TaskFits(u)
    BY <1>13 DEF Working, Idle, Task, Op, ActiveIInv, ActiveInv
  <2>2. u.op \in {"view", "sub"}
    BY <1>0, <1>1, <1>13, <2>1, WhoIsBeside DEF Beside
  <2>3. u.op = "view"
    BY <1>2, <2>1, <2>2 DEF TaskFits
  <2> QED
    BY <2>3 DEF MoneyFits
<1>14. PICK t : DeskStep(c, t) /\ (t \in Task => t.op # "sub" /\ t.step \notin {"record", "online"})
  BY GoesOn
<1>15. t \in Task => MoneyFits(t)'
  BY <1>14 DEF MoneyFits
<1> QED
  BY <1>12, <1>13, <1>14, <1>15, MoneyTogether

\* A sub-invoice whose number is free fits what is left of its master.
LEMMA SubMoney ==
  ASSUME InvoicesApart, Careful, TaxRate = 0, ActiveIInv, ActiveIInv', MoneyInv, NEW c \in Clerks,
         CreateSubInvoice(c)
  PROVE  MoneyInv'
<1>0. InvoiceTypeOK /\ InvoiceTypeOK' /\ RowsFit /\ RequestsApart /\ MoneyRows /\ Price \in Nat
  BY InvoicingAssumption DEF ActiveIInv, ActiveInv, MoneyInv
<1>1. /\ Working(c) /\ TaskFits(desk[c]) /\ desk[c].step = "create" /\ desk[c].op = "sub" /\ desk[c] \in Task
      /\ desk[c].saw \in Nat
  BY <1>0, AtStep, DeskTypes DEF CreateSubInvoice
<1>2. PICK m, number, n : m = desk[c].on /\ number = desk[c].saw /\ n = desk[c].n
  OBVIOUS
<1>3. /\ m \in Active(Masters) /\ m # 0 /\ m \in 0 .. Len(invoice) /\ n \in Nat /\ number \in Nat /\ Pending = {}
      /\ \A i \in Active(Masters) : i = m
  <2>1. m \in Active(Masters) /\ n \in Amounts /\ Pending = {}
    BY <1>1, <1>2 DEF TaskFits
  <2>2. \A i \in Active(Masters) : i = m
    BY <1>0, <2>1 DEF RowsFit
  <2> QED
    BY <1>0, <1>1, <1>2, <2>1, <2>2, RowTypes, InvoicingAssumption DEF Active, Masters
<1>4. UNCHANGED payment
  BY DEF CreateSubInvoice
<1>5. CASE UNCHANGED invoice
  BY <1>4, <1>5, GoingOnMoney
<1>6. CASE /\ \A s \in Subs(m) : invoice[s].number # number
           /\ invoice' = Append(invoice, Row(m, number, n))
  <2>1. PICK row : row = Row(m, number, n)
    OBVIOUS
  <2>2. /\ row \in InvoiceRow(Len(invoice) + 1) /\ row.status = "SENT" /\ row.parent = m
        /\ row.total = n /\ row.number = number
    <3>1. row \in InvoiceRow(Len(invoice) + 1)
      BY <1>0, <1>3, <2>1, RowType
    <3>2. WithTax(n) = n
      BY <1>3, NoTax
    <3> QED
      BY <2>1, <3>1, <3>2 DEF Row
  <2>3. PICK last : last = Len(invoice) + 1
    OBVIOUS
  <2>4. /\ DOMAIN invoice' = DOMAIN invoice \cup {last} /\ last \notin DOMAIN invoice
        /\ \A i \in DOMAIN invoice : invoice'[i] = invoice[i]
        /\ invoice'[last] = row /\ Active(Masters)' = Active(Masters)
    BY <1>0, <1>3, <1>4, <1>6, <2>1, <2>2, <2>3, AddedFits
  <2>5. PICK u \in Task : u = desk[c]
    BY <1>1
  <2>6. number = Cardinality(Active(Subs(m))) + 1 /\ n + Total(Completed) + Claims(m) <= Price
    <3>1. MoneyFits(u)
      BY <2>5 DEF MoneyInv
    <3> QED
      BY <1>1, <1>2, <1>6, <2>5, <3>1 DEF MoneyFits
  <2>7. PICK R : R = Active(Subs(m))
    OBVIOUS
  <2>8. Active(Subs(m))' = R \cup {last} /\ last \notin R /\ R \subseteq DOMAIN invoice /\ IsFiniteSet(R)
        /\ Subs(m)' = Subs(m) \cup {last}
    <3>1. Subs(m)' = Subs(m) \cup {last}
      BY <2>2, <2>4 DEF Subs
    <3>2. Active(Subs(m))' = R \cup {last}
      BY <2>2, <2>4, <2>7, <3>1 DEF Active, Subs
    <3> QED
      BY <1>0, <2>4, <2>7, <3>1, <3>2, ClaimsType DEF Active, Subs
  <2>9. Claims(m)' = Claims(m) + n
    <3>1. PICK f, g : f = [s \in R |-> invoice[s].total] /\ g = [s \in R \cup {last} |-> invoice'[s].total]
      OBVIOUS
    <3>2. Claims(m) = SumFunctionOnSet(f, R)
      BY <2>7, <3>1 DEF Claims, SumFunction
    <3>3. Claims(m)' = SumFunctionOnSet(g, R \cup {last})
      BY <2>8, <3>1 DEF Claims, SumFunction
    <3>4. g[last] = n /\ \A s \in R : g[s] = f[s] /\ f[s] \in Nat
      BY <1>0, <2>2, <2>4, <2>8, <3>1, RowTypes
    <3>5. \A s \in R \cup {last} : g[s] \in Int
      BY <1>3, <3>4
    <3>6. SumFunctionOnSet(g, R \cup {last}) = g[last] + SumFunctionOnSet(g, R)
      BY <2>8, <3>5, SumAdd
    <3>7. SumFunctionOnSet(g, R) = SumFunctionOnSet(f, R)
      BY <2>8, <3>4, SumSame
    <3>8. SumFunctionOnSet(f, R) \in Nat
      BY <2>8, <3>4, SumNat
    <3> QED
      BY <1>3, <3>2, <3>3, <3>4, <3>6, <3>7, <3>8
  <2>10. Completed' = Completed /\ Pending' = {} /\ Total(Completed)' = Total(Completed)
    BY <1>3, <1>4 DEF Completed, Pending, Total
  <2>11. Room(0, 0)'
    <3>1. Open(m, 0, 0)' \in Nat /\ Claims(m)' \in Nat /\ Open(m, 0, 0)' <= Claims(m)'
      BY <1>0, NextOpensAreClaimed DEF OpenIsClaimed
    <3>2. Total(Completed) \in Nat /\ Claims(m) \in Nat
      BY <1>0, TotalType, DerivedType, ClaimsType
    <3>3. Total(Completed)' + 0 + Open(m, 0, 0)' <= Price
      BY <1>0, <1>3, <2>6, <2>9, <2>10, <3>1, <3>2
    <3>4. Total(Completed)' + 0 <= Price
      BY <1>0, <2>10, <3>1, <3>2, <3>3
    <3> QED
      BY <1>3, <2>4, <3>3, <3>4 DEF Room
  <2>12. \A i \in Masters' : invoice'[i].total = Price
    <3>1. \A i \in Masters' : i \in Masters
      BY <1>3, <2>2, <2>4 DEF Masters, IsMaster
    <3> QED
      BY <1>0, <2>4, <3>1 DEF MoneyRows, Masters
  <2>13. MoneyRows'
    BY <2>10, <2>11, <2>12 DEF MoneyRows
  <2>14. ASSUME NEW d \in Clerks \ {c}, NEW v \in Task, desk[d] = v
         PROVE  MoneyFits(v)'
    <3>1. Working(d) /\ TaskFits(v) /\ MoneyFits(v)
      BY <2>14 DEF Working, Idle, Task, Op, ActiveIInv, ActiveInv, MoneyInv
    <3>2. v.op \in {"view", "sub", "master", "receipt"}
      BY <1>0, <1>1, <2>14, <3>1, WhoIsBeside DEF Beside
    <3>3. CASE v.op = "sub"
      <4>1. v.on = m
        BY <1>3, <3>1, <3>3 DEF TaskFits
      <4>2. \/ v.saw = number
            \/ \E s \in Subs(m) : invoice[s].number = v.saw
        BY <2>6, <3>1, <3>3, <4>1 DEF MoneyFits
      <4>3. \E s \in Subs(m)' : invoice'[s].number = v.saw
        <5>1. \A s \in Subs(m) : invoice'[s].number = invoice[s].number
          BY <2>4 DEF Subs
        <5> QED
          BY <2>2, <2>4, <2>8, <4>2, <5>1
      <4> QED
        BY <3>3, <4>1, <4>3 DEF MoneyFits
    <3>4. CASE v.op # "sub"
      BY <3>2, <3>4 DEF MoneyFits
    <3> QED
      BY <3>3, <3>4
  <2>15. DeskStep(c, Idle) /\ Idle \notin Task
    BY EndsIsStep DEF CreateSubInvoice
  <2> QED
    BY <2>13, <2>14, <2>15, MoneyTogether
<1> QED
  BY <1>2, <1>5, <1>6 DEF CreateSubInvoice

-----------------------------------------------------------------------------
(* The invoices add up *)

LEMMA InitMoney ==
  ASSUME InvoiceInit
  PROVE  MoneyInv
<1>1. DOMAIN invoice = {} /\ DOMAIN payment = {}
  BY DEF InvoiceInit
<1>2. Completed = {} /\ Pending = {} /\ Masters = {} /\ Active(Masters) = {}
  BY <1>1 DEF Completed, Pending, Active, Masters
<1>4. Room(0, 0)
  BY <1>2, NothingTotal, InvoicingAssumption DEF Room
<1>5. \A c \in Clerks : desk[c] = Idle /\ Idle \notin Task
  BY DEF InvoiceInit, Idle, Task, Op
<1> QED
  BY <1>2, <1>4, <1>5 DEF MoneyInv, MoneyRows

LEMMA MoneyStep ==
  ASSUME InvoicesApart, Careful, TaxRate = 0, ActiveIInv, ActiveIInv', MoneyInv, [InvoiceNext]_invoiceVars
  PROVE  MoneyInv'
<1>1. CASE UNCHANGED invoiceVars
  <2>1. InvoiceTypeOK /\ InvoiceTypeOK' /\ SameRows /\ MoneyRows
    BY <1>1, UnchangedIsSame DEF invoiceVars, ActiveIInv, MoneyInv
  <2>2. KeptRows
    BY <2>1, SameIsKept
  <2>3. MoneyRows' /\ \A u \in Task : MoneyFits(u) => MoneyFits(u)'
    BY <2>1, <2>2, RowsKept, FitsKept DEF KeptRows
  <2> QED
    BY <1>1, <2>3 DEF MoneyInv, invoiceVars
<1>2. ASSUME NEW n \in Amounts, PaySaleOnline(n)
      PROVE  MoneyInv'
  BY <1>2, SaleOnlineMoney
<1>3. ASSUME NEW c \in Clerks,
             \/ BeginMaster(c) \/ View(c)
             \/ \E i \in DOMAIN invoice : \/ BeginVoid(c, i)
                                          \/ \E n \in Amounts : BeginSub(c, i, n) \/ BeginPay(c, i, n)
                                          \/ \E p \in DOMAIN payment : BeginReceipt(c, i, p)
      PROVE  MoneyInv'
  BY <1>3, BeginningsMoney
<1>4. ASSUME NEW c \in Clerks,
             \/ PayDerives(c) \/ PostDerives(c) \/ PostThrows(c) \/ SyncFinds(c) \/ SyncSums(c)
             \/ PayWrites(c) \/ PostWrites(c) \/ SyncWrites(c) \/ PayReceipt(c)
             \/ SyncLinks(c) \/ GenerateReceiptForInvoice(c)
      PROVE  MoneyInv'
  BY <1>4, GoingOnMoney
<1>5. ASSUME NEW c \in Clerks,
             \/ GeneratePaymentPayload(c) \/ PayInvoice(c) \/ \E n \in Amounts : PaySale(c, n)
             \/ \E p \in DOMAIN payment : Confirm(c, p)
      PROVE  MoneyInv'
  BY <1>5, PaymentsMoney
<1>6. ASSUME NEW c \in Clerks, GenerateMasterInvoice(c) \/ CreateSubInvoice(c) \/ VoidInvoice(c)
      PROVE  MoneyInv'
  BY <1>6, MasterMoney, SubMoney, VoidMoney
<1> QED
  BY <1>1, <1>2, <1>3, <1>4, <1>5, <1>6 DEF InvoiceNext

LEMMA MaxOfZero ==
  ASSUME NEW x \in Int
  PROVE  Max({0, x}) = IF x > 0 THEN x ELSE 0
<1> DEFINE y == IF x > 0 THEN x ELSE 0
<1>1. y \in {0, x} /\ \A z \in {0, x} : y >= z
  OBVIOUS
<1>2. \A w \in {0, x} : (\A z \in {0, x} : w >= z) => w = y
  OBVIOUS
<1> QED
  BY <1>1, <1>2 DEF Max

\* What is still asked for is what is open.
LEMMA AskedIsOpen ==
  ASSUME InvoiceTypeOK, NEW m
  PROVE  SumFunction([s \in Active(Subs(m)) |-> Max({0, invoice[s].total - DeriveInvoiceAmounts(s)})]) = Open(m, 0, 0)
<1> DEFINE S == DOMAIN invoice
           R == Active(Subs(m))
           f == [s \in S |-> OpenAt(m, 0, 0, s)]
           g == [s \in R |-> Max({0, invoice[s].total - DeriveInvoiceAmounts(s)})]
<1>1. Open(m, 0, 0) = SumFunctionOnSet(f, S) /\ SumFunction(g) = SumFunctionOnSet(g, R)
  BY DEF Open, SumFunction
<1>2. R \subseteq S /\ IsFiniteSet(R) /\ IsFiniteSet(S) /\ IsFiniteSet(S \ R)
  BY PaymentsAreFinite, FS_Subset DEF Active, Subs
<1>3. \A s \in S : f[s] \in Int
  BY OpensAreTyped DEF OpensTyped
<1>4. \A s \in R : g[s] = f[s]
  <2>1. SUFFICES ASSUME NEW s \in R
                 PROVE  Max({0, invoice[s].total - DeriveInvoiceAmounts(s)}) = OpenAt(m, 0, 0, s)
    BY <1>2
  <2>2. invoice[s].total \in Nat /\ DeriveInvoiceAmounts(s) \in Nat
    BY <1>2, RowTypes, DerivedType
  <2>3. PICK x : x = invoice[s].total - DeriveInvoiceAmounts(s)
    OBVIOUS
  <2>4. Max({0, x}) = IF x > 0 THEN x ELSE 0
    BY <2>2, <2>3, MaxOfZero
  <2>5. OpenAt(m, 0, 0, s) = IF x > 0 THEN x ELSE 0
    BY <2>2, <2>3 DEF OpenAt
  <2> QED
    BY <2>3, <2>4, <2>5
<1>5. \A s \in S \ R : f[s] = 0
  BY DEF OpenAt
<1> HIDE DEF f, g, S, R
<1>6. SumFunctionOnSet(f, S \ R) = 0
  BY <1>2, <1>5, SumZero
<1>7. SumFunctionOnSet(g, R) = SumFunctionOnSet(f, R)
  BY <1>2, <1>4, SumSame
<1>8. SumFunctionOnSet(f, R) \in Int
  BY <1>2, <1>3, SumType
<1>9. SumFunctionOnSet(f, S) = SumFunctionOnSet(f, S \ R) + SumFunctionOnSet(f, R)
  <2>1. (S \ R) \cup R = S /\ (S \ R) \cap R = {}
    BY <1>2
  <2>2. \A s \in (S \ R) \cup R : f[s] \in Int
    BY <1>3, <2>1
  <2>3. SumFunctionOnSet(f, (S \ R) \cup R) = SumFunctionOnSet(f, S \ R) + SumFunctionOnSet(f, R)
    BY <1>2, <2>1, <2>2, SumUnion
  <2> QED
    BY <2>1, <2>3
<1>10. SumFunction(g) = Open(m, 0, 0)
  BY <1>1, <1>6, <1>7, <1>8, <1>9
<1> QED
  BY <1>10 DEF g, R

LEMMA MoneyAddsUp ==
  ASSUME InvoiceTypeOK, RowsFit, MoneyRows
  PROVE  InvoicesAddUp
<1>1. \A i, j \in Active(Masters) : i = j
  BY DEF RowsFit
<1>2. ASSUME NEW m \in Active(Masters)
      PROVE  /\ DeriveInvoiceAmounts(m)
                  + SumFunction([s \in Active(Subs(m)) |-> Max({0, invoice[s].total - DeriveInvoiceAmounts(s)})])
                <= invoice[m].total
             /\ DeriveInvoiceAmounts(m) = Total(Completed)
  <2>1. DeriveInvoiceAmounts(m) = Total(Completed)
    BY AllCounted
  <2>2. invoice[m].total = Price
    BY DEF MoneyRows, Active
  <2>3. Total(Completed) + 0 + Open(m, 0, 0) <= Price
    BY DEF MoneyRows, Room
  <2>4. Total(Completed) \in Nat /\ Open(m, 0, 0) \in Nat
    BY TotalType, DerivedType, OpensAreTyped DEF OpensTyped
  <2>5. Total(Completed) + Open(m, 0, 0) <= Price
    BY <2>3, <2>4
  <2> QED
    BY <2>1, <2>2, <2>5, AskedIsOpen
<1> QED
  BY <1>1, <1>2 DEF InvoicesAddUp

\* Where what must not overlap does not, the staff are careful and nothing is
\* taxed, a sale has one active master at most, every completed payment counts
\* in it, and what is paid and what its sub-invoices still ask for fit in its
\* total (generateMasterInvoice, createSubInvoice, voidInvoice, payInvoice).
THEOREM InvoicesDoAddUp ==
  ASSUME InvoicesApart, Careful, TaxRate = 0
  PROVE  InvoiceSpec => []InvoicesAddUp
<1>1. InvoiceInit => ActiveIInv /\ MoneyInv
  BY InitActive, InitMoney
<1>2. ActiveIInv /\ MoneyInv /\ [InvoiceNext]_invoiceVars => ActiveIInv' /\ MoneyInv'
  BY ActiveStep, MoneyStep
<1>3. ActiveIInv /\ MoneyInv => InvoicesAddUp
  BY MoneyAddsUp DEF ActiveIInv, ActiveInv, MoneyInv
<1> QED
  BY <1>1, <1>2, <1>3, PTL DEF InvoiceSpec

-----------------------------------------------------------------------------
(* The cache *)

\* Task t has yet to link the sale's payments to the master, to write what the
\* master is paid, or to write what sub-invoice s is paid.
BeforeLink(t) ==
  /\ t.op \in {"pay", "job", "master"}
  /\ t.step \in {"derive", "write", "post", "postWrite", "find", "link"}
BeforeSync(t) == BeforeLink(t) \/ (t.op \in {"pay", "job", "master"} /\ t.step \in {"sum", "sync"})
BeforePosted(t, s) ==
  t.op \in {"pay", "job"} /\ t.step \in {"derive", "write", "post", "postWrite"} /\ t.on = s

LinkAhead == \E c \in Clerks, t \in Task : desk[c] = t /\ BeforeLink(t)
SyncAhead == \E c \in Clerks, t \in Task : desk[c] = t /\ BeforeSync(t)
PostAhead(s) == \E c \in Clerks, t \in Task : desk[c] = t /\ BeforePosted(t, s)

\* Invoice i caches that x is paid.
Caching(i, x) == invoice[i].paid = x /\ invoice[i].status = PaidStatus(x, invoice[i].total)

\* What an active invoice caches is right, or a request is about to write it.
Settles(i) ==
  IsActive(i) => IF IsMaster(i) THEN Caching(i, Total(Completed)) \/ SyncAhead
                 ELSE Caching(i, Total(LinkedTo({i}))) \/ PostAhead(i)

\* A payment without an invoice is about to get the master's, if there is one.
NoneUnlinked == LinkedTo({0}) = {} \/ Active(Masters) = {} \/ LinkAhead

Settled == NoneUnlinked /\ \A i \in DOMAIN invoice : Settles(i)

\* What a request is about to write is what is paid.
SawFits(t) ==
  /\ t.step = "sync" => t.saw = Total(Completed)
  /\ t.step = "postWrite" /\ invoice[t.on].parent # 0 => t.saw = Total(LinkedTo({t.on}))

ReceiptsFit == \A p \in DOMAIN payment : payment[p].receipt \in {0, payment[p].invoice}
TotalsPositive == \A i \in DOMAIN invoice : invoice[i].total > 0

CacheInv ==
  /\ ReceiptsFit /\ TotalsPositive
  /\ \A c \in Clerks, t \in Task : desk[c] = t => SawFits(t)
  /\ threw \/ Settled

\* What the step to t leaves ahead.
LinkKept(c, t) == \A u \in Task : desk[c] = u /\ BeforeLink(u) => t \in Task /\ BeforeLink(t)
SyncKept(c, t) == \A u \in Task : desk[c] = u /\ BeforeSync(u) => t \in Task /\ BeforeSync(t)
PostKept(c, t) ==
  \A u \in Task : \A s : desk[c] = u /\ s # 0 /\ BeforePosted(u, s) => t \in Task /\ BeforePosted(t, s)

LEMMA AheadKept ==
  ASSUME InvoiceTypeOK, RequestsApart, NEW c \in Clerks, NEW t, DeskStep(c, t)
  PROVE  /\ LinkKept(c, t) /\ LinkAhead => LinkAhead'
         /\ SyncKept(c, t) /\ SyncAhead => SyncAhead'
         /\ PostKept(c, t) => \A s : s # 0 /\ PostAhead(s) => PostAhead(s)'
         /\ t \in Task /\ BeforeLink(t) => LinkAhead' /\ SyncAhead'
         /\ t \in Task /\ BeforeSync(t) => SyncAhead'
         /\ \A s : t \in Task /\ BeforePosted(t, s) => PostAhead(s)'
<1>1. desk'[c] = t /\ \A d \in Clerks \ {c} : desk'[d] = desk[d]
  BY DeskSteps
<1>2. LinkKept(c, t) /\ LinkAhead => LinkAhead'
  BY <1>1 DEF LinkKept, LinkAhead
<1>3. SyncKept(c, t) /\ SyncAhead => SyncAhead'
  BY <1>1 DEF SyncKept, SyncAhead
<1>4. PostKept(c, t) => \A s : s # 0 /\ PostAhead(s) => PostAhead(s)'
  BY <1>1 DEF PostKept, PostAhead
<1>5. t \in Task /\ BeforeLink(t) => LinkAhead' /\ SyncAhead'
  BY <1>1 DEF LinkAhead, SyncAhead, BeforeSync
<1>6. t \in Task /\ BeforeSync(t) => SyncAhead'
  BY <1>1 DEF SyncAhead
<1>7. \A s : t \in Task /\ BeforePosted(t, s) => PostAhead(s)'
  BY <1>1 DEF PostAhead
<1> QED
  BY <1>2, <1>3, <1>4, <1>5, <1>6, <1>7

\* A request that begins, or is at none of those steps, leaves nothing behind.
LEMMA NothingAhead ==
  ASSUME ActiveIInv, NEW c \in Clerks, NEW t,
         Working(c) => \/ desk[c].op \in {"sub", "void", "view", "receipt"}
                       \/ desk[c].step \in {"create", "record", "online", "receipt"}
  PROVE  LinkKept(c, t) /\ SyncKept(c, t) /\ PostKept(c, t)
<1>1. \A u \in Task : desk[c] = u => Working(c)
  BY DEF Working, Idle, Task, Op
<1> QED
  BY <1>1 DEF LinkKept, SyncKept, PostKept, BeforeLink, BeforeSync, BeforePosted

\* No payment is completed, and none joins a sub-invoice.
CountsKept ==
  /\ Completed' = Completed
  /\ \A p \in Completed : payment'[p].amount = payment[p].amount
  /\ LinkedTo({0})' \subseteq LinkedTo({0})
  /\ \A s \in DOMAIN invoice : invoice[s].parent # 0 => LinkedTo({s})' = LinkedTo({s})

LEMMA CountsAreKept ==
  ASSUME CountsKept
  PROVE  /\ Total(Completed)' = Total(Completed)
         /\ \A s \in DOMAIN invoice : invoice[s].parent # 0 => Total(LinkedTo({s}))' = Total(LinkedTo({s}))
<1>1. \A P : P \subseteq Completed => Total(P)' = Total(P)
  BY TotalKept DEF CountsKept
<1>2. Total(Completed)' = Total(Completed)
  <2>1. PICK P : P = Completed
    OBVIOUS
  <2>2. Total(P)' = Total(P) /\ P = Completed'
    BY <1>1, <2>1 DEF CountsKept
  <2> QED
    BY <2>1, <2>2 DEF Total
<1>3. ASSUME NEW s \in DOMAIN invoice, invoice[s].parent # 0
      PROVE  Total(LinkedTo({s}))' = Total(LinkedTo({s}))
  <2>1. PICK P : P = LinkedTo({s})
    OBVIOUS
  <2>2. P \subseteq Completed
    BY <2>1 DEF LinkedTo
  <2>3. Total(P)' = Total(P) /\ P = LinkedTo({s})'
    BY <1>1, <1>3, <2>1, <2>2 DEF CountsKept
  <2> QED
    BY <2>1, <2>3 DEF Total
<1> QED
  BY <1>2, <1>3

LEMMA SameCounts ==
  ASSUME InvoiceTypeOK, RowsTyped', SameRows
  PROVE  CountsKept
<1>1. Completed' = Completed
  BY SameSets
<1>2. \A p \in Completed : payment'[p].amount = payment[p].amount /\ payment'[p].invoice = payment[p].invoice
  BY DEF SameRows, Completed
<1>3. \A s : LinkedTo({s})' = LinkedTo({s})
  BY <1>1, <1>2 DEF LinkedTo
<1> QED
  BY <1>1, <1>2, <1>3 DEF CountsKept

\* Invoice i is as it was, or is voided.
Carried(i) ==
  /\ i \in DOMAIN invoice /\ invoice'[i].parent = invoice[i].parent /\ invoice'[i].total = invoice[i].total
  /\ IsActive(i)' => /\ IsActive(i)
                     /\ invoice'[i].paid = invoice[i].paid /\ invoice'[i].status = invoice[i].status

LEMMA SettlesOn ==
  ASSUME NEW i \in DOMAIN invoice, Carried(i), Settles(i), i # 0,
         IF IsMaster(i) THEN \/ SyncAhead'
                             \/ Total(Completed)' = Total(Completed) /\ (SyncAhead => SyncAhead')
         ELSE \/ PostAhead(i)'
              \/ Total(LinkedTo({i}))' = Total(LinkedTo({i})) /\ (PostAhead(i) => PostAhead(i)')
  PROVE  Settles(i)'
<1>1. IsMaster(i)' <=> IsMaster(i)
  BY DEF Carried, IsMaster
<1>2. \A x : IsActive(i)' /\ Caching(i, x) => Caching(i, x)'
  BY DEF Carried, Caching
<1>3. IsActive(i)' => IsActive(i)
  BY DEF Carried
<1>4. CASE IsMaster(i)
  BY <1>1, <1>2, <1>3, <1>4 DEF Settles, Caching
<1>5. CASE ~IsMaster(i)
  BY <1>1, <1>2, <1>3, <1>5 DEF Settles, Caching
<1> QED
  BY <1>4, <1>5

LEMMA SawStays ==
  ASSUME InvoiceTypeOK, CountsKept, \A i \in DOMAIN invoice : invoice'[i].parent = invoice[i].parent,
         NEW u \in Task, TaskFits(u), SawFits(u)
  PROVE  SawFits(u)'
<1>1. u.step = "postWrite" => u.on \in DOMAIN invoice
  <2>1. u.step = "postWrite" => u.op \in {"pay", "job"}
    BY WhichOp DEF TaskFits, Task
  <2> QED
    BY <2>1 DEF TaskFits, IsActive
<1> QED
  BY <1>1, CountsAreKept DEF SawFits

LEMMA SettledStays ==
  ASSUME InvoiceTypeOK, CountsKept, Settled, NoneUnlinked',
         \A i \in DOMAIN invoice' :
           \/ Settles(i)'
           \/ /\ Carried(i)
              /\ IF IsMaster(i) THEN SyncAhead => SyncAhead' ELSE PostAhead(i) => PostAhead(i)'
  PROVE  Settled'
<1>1. SUFFICES ASSUME NEW i \in DOMAIN invoice', ~Settles(i)'
               PROVE  FALSE
  BY DEF Settled
<1>2. /\ Carried(i) /\ i \in DOMAIN invoice
      /\ IF IsMaster(i) THEN SyncAhead => SyncAhead' ELSE PostAhead(i) => PostAhead(i)'
  BY <1>1 DEF Carried
<1>3. Settles(i) /\ i # 0
  BY <1>2, RowTypes DEF Settled
<1>4. ~IsMaster(i) => Total(LinkedTo({i}))' = Total(LinkedTo({i}))
  BY <1>2, CountsAreKept DEF IsMaster
<1>5. Total(Completed)' = Total(Completed)
  BY CountsAreKept
<1> QED
  BY <1>1, <1>2, <1>3, <1>4, <1>5, SettlesOn

LEMMA UnlinkedStays ==
  ASSUME CountsKept, NoneUnlinked, Active(Masters)' \subseteq Active(Masters),
         \/ LinkAhead => LinkAhead'
         \/ Active(Masters)' = {}
  PROVE  NoneUnlinked'
BY DEF NoneUnlinked, CountsKept

\* What the step of one request needs to show.
LEMMA CacheTogether ==
  ASSUME InvoiceTypeOK, RequestsApart, NEW c \in Clerks, NEW t, DeskStep(c, t),
         ReceiptsFit', TotalsPositive', t \in Task => SawFits(t)',
         \A d \in Clerks \ {c}, u \in Task : desk[d] = u => SawFits(u)',
         threw' \/ Settled'
  PROVE  CacheInv'
<1>1. desk'[c] = t /\ \A d \in Clerks \ {c} : desk'[d] = desk[d]
  BY DeskSteps
<1>2. \A d \in Clerks, u \in Task : desk'[d] = u => SawFits(u)'
  BY <1>1
<1> QED
  BY <1>2 DEF CacheInv

LEMMA OthersSaw ==
  ASSUME ActiveIInv, CacheInv, CountsKept, \A i \in DOMAIN invoice : invoice'[i].parent = invoice[i].parent
  PROVE  \A d \in Clerks, u \in Task : desk[d] = u => SawFits(u)'
BY SawStays DEF ActiveIInv, ActiveInv, CacheInv

\* A step that changes no row.
LEMMA ReadsCache ==
  ASSUME ActiveIInv, CacheInv, UNCHANGED <<invoice, payment>>, NEW c \in Clerks, NEW t, DeskStep(c, t),
         t \in Task => SawFits(t),
         \/ threw'
         \/ threw' = threw /\ PostKept(c, t) /\ (NoMaster \/ (LinkKept(c, t) /\ SyncKept(c, t)))
  PROVE  CacheInv'
<1>0. InvoiceTypeOK /\ RequestsApart /\ RowsFit
  BY DEF ActiveIInv, ActiveInv
<1>1. RowsTyped' /\ SameRows
  BY <1>0, UnchangedIsSame
<1>2. CountsKept
  BY <1>0, <1>1, SameCounts
<1>3. ReceiptsFit' /\ TotalsPositive'
  BY DEF ReceiptsFit, TotalsPositive, CacheInv
<1>4. \A d \in Clerks \ {c}, u \in Task : desk[d] = u => SawFits(u)'
  BY <1>2, OthersSaw
<1>5. t \in Task => SawFits(t)'
  <2>1. \A s : Total(LinkedTo({s}))' = Total(LinkedTo({s}))
    BY DEF Total, LinkedTo, Completed
  <2>2. Total(Completed)' = Total(Completed)
    BY DEF Total, Completed
  <2>3. SawFits(t) => SawFits(t)'
    BY <2>1, <2>2 DEF SawFits
  <2> QED
    BY <2>3
<1>6. ASSUME Settled, PostKept(c, t), NoMaster \/ (LinkKept(c, t) /\ SyncKept(c, t))
      PROVE  Settled'
  <2>1. Active(Masters)' = Active(Masters) /\ \A i : IsActive(i)' <=> IsActive(i)
    BY <1>0, <1>1, SameSets
  <2>2. NoneUnlinked'
    BY <1>0, <1>2, <1>6, <2>1, AheadKept, UnlinkedStays DEF Settled, NoMaster
  <2>3. \A i \in DOMAIN invoice : Carried(i) /\ i # 0
    BY <1>0, <2>1, RowTypes DEF Carried
  <2>4. ASSUME NEW i \in DOMAIN invoice, IsMaster(i), NoMaster
        PROVE  Settles(i)'
    BY <2>1, <2>4, MasterIsActive DEF Settles, NoMaster
  <2>5. ASSUME NEW i \in DOMAIN invoice
        PROVE  \/ Settles(i)'
               \/ /\ Carried(i)
                  /\ IF IsMaster(i) THEN SyncAhead => SyncAhead' ELSE PostAhead(i) => PostAhead(i)'
    BY <1>0, <1>6, <2>3, <2>4, AheadKept
  <2> QED
    BY <1>0, <1>2, <1>6, <2>2, <2>5, SettledStays
<1>7. threw' \/ Settled'
  BY <1>6 DEF CacheInv
<1> QED
  BY <1>0, <1>3, <1>4, <1>5, <1>7, CacheTogether

LEMMA BeginningsCache ==
  ASSUME ActiveIInv, CacheInv, NEW c \in Clerks,
         \/ BeginMaster(c) \/ View(c)
         \/ \E i \in DOMAIN invoice : \/ BeginVoid(c, i)
                                      \/ \E n \in Amounts : BeginSub(c, i, n) \/ BeginPay(c, i, n)
                                      \/ \E p \in DOMAIN payment : BeginReceipt(c, i, p)
  PROVE  CacheInv'
<1>0. InvoiceTypeOK /\ RequestsApart /\ RowsFit
  BY DEF ActiveIInv, ActiveInv
<1>1. UNCHANGED <<invoice, payment, threw>>
  BY DEF BeginMaster, View, BeginVoid, BeginSub, BeginPay, BeginReceipt
<1>2. ASSUME NEW op \in Op, NEW step \in InvoiceStep \ {"sync", "postWrite"},
             NEW i \in Nat, i # 0 => i \in DOMAIN invoice, NEW p \in Nat, NEW n \in Nat, NEW saw \in Nat,
             Takes(c, op, step, i, p, n, saw)
      PROVE  CacheInv'
  <2>1. PICK st \in Status :
          /\ DeskStep(c, [op |-> op, step |-> step, on |-> i, pay |-> p, n |-> n, saw |-> saw, status |-> st])
          /\ i # 0 => st = invoice[i].status
          /\ ~Working(c) /\ MayRun(op)
    BY <1>0, <1>2, TakesIsStep
  <2>2. PICK t : t = [op |-> op, step |-> step, on |-> i, pay |-> p, n |-> n, saw |-> saw, status |-> st]
    OBVIOUS
  <2>3. SawFits(t)
    BY <2>2 DEF SawFits
  <2>4. LinkKept(c, t) /\ SyncKept(c, t) /\ PostKept(c, t)
    BY <2>1, NothingAhead
  <2> QED
    BY <1>1, <2>1, <2>2, <2>3, <2>4, ReadsCache
<1>3. /\ {"create", "write", "record", "online", "receipt", "find"} \subseteq InvoiceStep \ {"sync", "postWrite"}
      /\ {"master", "sub", "void", "pay", "view", "receipt"} \subseteq Op
  BY DEF InvoiceStep, Op
<1>4. CASE BeginMaster(c)
  BY <1>2, <1>3, <1>4 DEF BeginMaster
<1>5. CASE View(c)
  BY <1>2, <1>3, <1>5 DEF View
<1>6. \A i \in DOMAIN invoice : i \in Nat
  BY <1>0, RowTypes
<1>7. ASSUME NEW i \in DOMAIN invoice, BeginVoid(c, i)
      PROVE  CacheInv'
  <2>1. Len(invoice) \in Nat
    BY <1>0, RowTypes
  <2> QED
    BY <1>2, <1>3, <1>6, <1>7, <2>1 DEF BeginVoid
<1>8. ASSUME NEW i \in DOMAIN invoice, NEW n \in Amounts, BeginSub(c, i, n)
      PROVE  CacheInv'
  <2>1. PICK saw : saw = Cardinality(Active(Subs(i))) + 1
    OBVIOUS
  <2>2. saw \in Nat
    BY <1>0, <2>1, SubNumber
  <2>3. n \in Nat
    BY InvoicingAssumption
  <2>4. Takes(c, "sub", "create", i, 0, n, saw)
    BY <1>8, <2>1 DEF BeginSub
  <2> QED
    BY <1>2, <1>3, <1>6, <2>2, <2>3, <2>4
<1>9. ASSUME NEW i \in DOMAIN invoice, NEW n \in Amounts, BeginPay(c, i, n)
      PROVE  CacheInv'
  <2>1. n \in Nat
    BY InvoicingAssumption
  <2>2. PICK step \in {"record", "online"} : Takes(c, "pay", step, i, 0, n, 0)
    BY <1>9 DEF BeginPay
  <2> QED
    BY <1>2, <1>3, <1>6, <2>1, <2>2
<1>10. ASSUME NEW i \in DOMAIN invoice, NEW p \in DOMAIN payment, BeginReceipt(c, i, p)
       PROVE  CacheInv'
  <2>1. p \in Nat /\ payment[p].invoice \in Nat
    BY <1>0, RowTypes
  <2>2. Takes(c, "receipt", "receipt", i, p, 0, payment[p].invoice)
    BY <1>10 DEF BeginReceipt
  <2> QED
    BY <1>2, <1>3, <1>6, <2>1, <2>2
<1> QED
  BY <1>4, <1>5, <1>7, <1>8, <1>9, <1>10

\* A request that goes on with what it had ahead.
LEMMA FollowsAhead ==
  ASSUME ActiveIInv, NEW c \in Clerks, Working(c), NEW t, NEW step, NEW pay, NEW n, NEW saw, NEW st,
         Follows(c, t, step, pay, n, saw, st)
  PROVE  /\ step \in {"derive", "write", "post", "postWrite", "find", "link"} => LinkKept(c, t)
         /\ step \in {"derive", "write", "post", "postWrite", "find", "link", "sum", "sync"} => SyncKept(c, t)
         /\ step \in {"derive", "write", "post", "postWrite"} => PostKept(c, t)
         /\ desk[c].step \in {"sum", "sync"} => LinkKept(c, t)
         /\ desk[c].step \notin {"derive", "write", "post", "postWrite"} \/ desk[c].on = 0 => PostKept(c, t)
         /\ t \in Task /\ DeskStep(c, t)
BY DEF Follows, LinkKept, SyncKept, PostKept, BeforeLink, BeforeSync, BeforePosted

LEMMA ReadingsCache ==
  ASSUME ActiveIInv, CacheInv, NEW c \in Clerks,
         \/ PayDerives(c) \/ PostDerives(c) \/ PostThrows(c) \/ SyncFinds(c) \/ SyncSums(c)
         \/ At(c, "create") /\ Ends(c) /\ UNCHANGED <<invoice, payment, threw>>
         \/ At(c, "record") /\ Ends(c) /\ UNCHANGED <<invoice, payment, threw>>
  PROVE  CacheInv'
<1>0. InvoiceTypeOK /\ RowsFit
  BY DEF ActiveIInv, ActiveInv
<1>1. UNCHANGED <<invoice, payment>>
  BY DEF PayDerives, PostDerives, PostThrows, SyncFinds, SyncSums
<1>2. CASE PayDerives(c)
  <2>1. Working(c) /\ threw' = threw
    BY <1>2, AtStep DEF PayDerives
  <2>2. PICK t : Follows(c, t, "write", desk[c].pay, desk[c].n, DeriveInvoiceAmounts(desk[c].on), desk[c].status)
    BY <1>2, Moves
  <2>3. LinkKept(c, t) /\ SyncKept(c, t) /\ PostKept(c, t) /\ t \in Task /\ DeskStep(c, t)
    BY <2>1, <2>2, FollowsAhead
  <2>4. SawFits(t)
    BY <2>2 DEF SawFits, Follows
  <2> QED
    BY <1>1, <2>1, <2>3, <2>4, ReadsCache
<1>3. CASE PostDerives(c)
  <2>1. /\ Working(c) /\ threw' = threw /\ desk[c].step = "post" /\ TaskFits(desk[c]) /\ desk[c] \in Task
        /\ desk[c].op \in {"pay", "job"}
    BY <1>3, AtStep, WhichOp DEF PostDerives, Task
  <2>2. CASE desk[c].on = 0
    <3>1. PICK t : Follows(c, t, "find", desk[c].pay, desk[c].n, desk[c].saw, desk[c].status)
      BY <1>3, <2>2, Moves
    <3>2. LinkKept(c, t) /\ SyncKept(c, t) /\ PostKept(c, t) /\ t \in Task /\ DeskStep(c, t)
      BY <2>1, <2>2, <3>1, FollowsAhead
    <3>3. SawFits(t)
      BY <3>1 DEF SawFits, Follows
    <3> QED
      BY <1>1, <2>1, <3>2, <3>3, ReadsCache
  <2>3. CASE desk[c].on # 0
    <3>1. PICK i, saw : i = desk[c].on /\ saw = Total(LinkedTo({i} \cup Subs(i)))
      OBVIOUS
    <3>2. PICK t : Follows(c, t, "postWrite", desk[c].pay, desk[c].n, saw, desk[c].status)
      BY <1>3, <2>3, <3>1, Moves
    <3>3. LinkKept(c, t) /\ SyncKept(c, t) /\ PostKept(c, t) /\ t \in Task /\ DeskStep(c, t)
      BY <2>1, <3>2, FollowsAhead
    <3>4. i \in DOMAIN invoice
      BY <2>1, <2>3, <3>1 DEF TaskFits, IsActive
    <3>5. invoice[i].parent # 0 => Subs(i) = {}
      BY <1>0, <2>3, <3>1, <3>4 DEF RowsFit, Subs
    <3>6. invoice[i].parent # 0 => saw = Total(LinkedTo({i}))
      <4>1. Subs(i) = {} => {i} \cup Subs(i) = {i}
        OBVIOUS
      <4> QED
        BY <3>1, <3>5, <4>1
    <3>7. SawFits(t)
      BY <3>1, <3>2, <3>6 DEF SawFits, Follows
    <3> QED
      BY <1>1, <2>1, <3>3, <3>7, ReadsCache
  <2> QED
    BY <2>2, <2>3
<1>4. CASE PostThrows(c)
  <2>1. threw' = TRUE /\ Working(c)
    BY <1>4, AtStep DEF PostThrows
  <2>a. ASSUME NEW t, DeskStep(c, t), t \in Task => SawFits(t)
        PROVE  CacheInv'
    <3>1. threw'
      BY <2>1
    <3> QED
      BY <1>1, <2>a, <3>1, ReadsCache
  <2>2. CASE Ends(c)
    BY <2>2, <2>a, EndsIsStep
  <2>3. ASSUME NEW t, Follows(c, t, "post", desk[c].pay, desk[c].n, desk[c].saw, desk[c].status)
        PROVE  CacheInv'
    <3>1. SawFits(t) /\ DeskStep(c, t)
      BY <2>3 DEF SawFits, Follows
    <3> QED
      BY <2>a, <3>1
  <2> QED
    BY <1>4, <2>2, <2>3, Moves
<1>5. CASE SyncFinds(c)
  <2>1. Working(c) /\ threw' = threw /\ desk[c].step = "find"
    BY <1>5, AtStep DEF SyncFinds
  <2>a. ASSUME NEW t, DeskStep(c, t), t \in Task => SawFits(t), PostKept(c, t), NoMaster
        PROVE  CacheInv'
    BY <1>1, <2>1, <2>a, ReadsCache
  <2>2. CASE NoMaster /\ Ends(c)
    <3>1. PostKept(c, Idle)
      BY <2>1 DEF PostKept, BeforePosted
    <3> QED
      BY <2>2, <2>a, <3>1, EndsIsStep
  <2>3. ASSUME NEW t, NoMaster, Follows(c, t, "receipt", desk[c].pay, desk[c].n, desk[c].saw, desk[c].status)
        PROVE  CacheInv'
    <3>1. PostKept(c, t) /\ DeskStep(c, t)
      BY <2>1, <2>3, FollowsAhead
    <3>2. SawFits(t)
      BY <2>3 DEF SawFits, Follows
    <3> QED
      BY <2>3, <2>a, <3>1, <3>2
  <2>4. ASSUME NEW m \in Active(Masters), NEW t, Follows(c, t, "link", desk[c].pay, m, desk[c].saw, invoice[m].status)
        PROVE  CacheInv'
    <3>1. PostKept(c, t) /\ LinkKept(c, t) /\ SyncKept(c, t) /\ DeskStep(c, t)
      BY <2>1, <2>4, FollowsAhead
    <3>2. SawFits(t)
      BY <2>4 DEF SawFits, Follows
    <3> QED
      BY <1>1, <2>1, <3>1, <3>2, ReadsCache
  <2>5. NoMaster /\ Synced(c) => CacheInv'
    BY <2>1, <2>2, <2>3, Moves
  <2>6. \/ NoMaster /\ Synced(c)
        \/ \E m \in Active(Masters) : \E t :
             Follows(c, t, "link", desk[c].pay, m, desk[c].saw, invoice[m].status)
    BY <1>5, Moves
  <2> QED
    BY <2>4, <2>5, <2>6
<1>6. CASE SyncSums(c)
  <2>1. Working(c) /\ threw' = threw /\ desk[c].step = "sum" /\ TaskFits(desk[c])
    BY <1>6, AtStep DEF SyncSums
  <2>2. DeriveInvoiceAmounts(desk[c].n) = Total(Completed)
    BY <1>0, <2>1, AllCounted DEF TaskFits
  <2>3. PICK t : Follows(c, t, "sync", desk[c].pay, desk[c].n, DeriveInvoiceAmounts(desk[c].n), desk[c].status)
    BY <1>6, Moves
  <2>4. LinkKept(c, t) /\ SyncKept(c, t) /\ PostKept(c, t) /\ t \in Task /\ DeskStep(c, t)
    BY <2>1, <2>3, FollowsAhead
  <2>5. SawFits(t)
    BY <2>2, <2>3 DEF SawFits, Follows
  <2> QED
    BY <1>1, <2>1, <2>4, <2>5, ReadsCache
<1>7. ASSUME NEW step \in {"create", "record"}, At(c, step), Ends(c), UNCHANGED <<invoice, payment, threw>>
      PROVE  CacheInv'
  <2>1. LinkKept(c, Idle) /\ SyncKept(c, Idle) /\ PostKept(c, Idle)
    BY <1>7, AtStep, NothingAhead
  <2> QED
    BY <1>7, <2>1, EndsIsStep, ReadsCache
<1> QED
  BY <1>2, <1>3, <1>4, <1>5, <1>6, <1>7

LEMMA NextTypedRows == InvoiceTypeOK' => RowsTyped'
<1>1. InvoiceTypeOK => RowsTyped
  BY TypedRows
<1> QED
  BY <1>1, PTL

LEMMA OtherPosts ==
  ASSUME InvoiceTypeOK, RequestsApart, NEW c \in Clerks, NEW t, DeskStep(c, t),
         NEW s, s # 0, PostAhead(s), PostKept(c, t) \/ desk[c].on # s
  PROVE  PostAhead(s)'
<1>1. desk'[c] = t /\ \A d \in Clerks \ {c} : desk'[d] = desk[d]
  BY DeskSteps
<1> QED
  BY <1>1 DEF PostAhead, PostKept, BeforePosted

\* A step that writes what invoice i caches, or a receipt.
LEMMA WritesCache ==
  ASSUME ActiveIInv, CacheInv, RowsTyped', SameRows, threw' = threw, NEW c \in Clerks, NEW t, DeskStep(c, t),
         t \in Task => t.step \notin {"sync", "postWrite"}, ReceiptsFit', LinkKept(c, t),
         NEW i, PostKept(c, t) \/ desk[c].on = i, \A j \in DOMAIN invoice : j # i => invoice'[j] = invoice[j],
         i \in DOMAIN invoice /\ ~threw => Settles(i)',
         SyncKept(c, t) \/ i \in Active(Masters)
  PROVE  CacheInv'
<1>0. InvoiceTypeOK /\ RequestsApart /\ RowsFit
  BY DEF ActiveIInv, ActiveInv
<1>1. CountsKept
  BY <1>0, SameCounts
<1>2. DOMAIN invoice' = DOMAIN invoice /\ Active(Masters)' = Active(Masters)
      /\ \A j : IsActive(j)' <=> IsActive(j)
  BY <1>0, SameDomains, SameSets
<1>3. TotalsPositive'
  BY <1>2 DEF TotalsPositive, CacheInv, SameRows
<1>4. \A d \in Clerks \ {c}, u \in Task : desk[d] = u => SawFits(u)'
  BY <1>1, OthersSaw DEF SameRows
<1>5. t \in Task => SawFits(t)'
  BY DEF SawFits
<1>6. ASSUME Settled, ~threw
      PROVE  Settled'
  <2>1. NoneUnlinked'
    BY <1>0, <1>1, <1>2, <1>6, AheadKept, UnlinkedStays DEF Settled
  <2>2. \A j \in DOMAIN invoice : j # 0 /\ (j # i => Carried(j))
    BY <1>0, <1>2, RowTypes DEF Carried
  <2>3. ASSUME NEW j \in DOMAIN invoice, IsMaster(j), j # i, i \in Active(Masters)
        PROVE  Settles(j)'
    <3>1. ~IsActive(j)
      BY <1>0, <2>3, MasterIsActive DEF RowsFit
    <3> QED
      BY <1>2, <3>1 DEF Settles
  <2>4. ASSUME NEW j \in DOMAIN invoice, j # i
        PROVE  \/ Settles(j)'
               \/ /\ Carried(j)
                  /\ IF IsMaster(j) THEN SyncAhead => SyncAhead' ELSE PostAhead(j) => PostAhead(j)'
    BY <1>0, <2>2, <2>3, <2>4, AheadKept, OtherPosts
  <2> QED
    BY <1>0, <1>1, <1>2, <1>6, <2>1, <2>4, SettledStays
<1>7. threw' \/ Settled'
  BY <1>6 DEF CacheInv
<1> QED
  BY <1>0, <1>3, <1>4, <1>5, <1>7, CacheTogether

LEMMA WritingsCache ==
  ASSUME ActiveIInv, ActiveIInv', CacheInv, NEW c \in Clerks,
         PayWrites(c) \/ PostWrites(c) \/ SyncWrites(c) \/ PayReceipt(c)
  PROVE  CacheInv'
<1>0. InvoiceTypeOK /\ InvoiceTypeOK' /\ RequestsApart /\ RowsFit
  BY DEF ActiveIInv, ActiveInv
<1>1. RowsTyped' /\ SameRows
  BY <1>0, WritesActive, NextTypedRows
<1>2. threw' = threw
  BY DEF PayWrites, PostWrites, SyncWrites, PayReceipt
<1>3. CountsKept /\ DOMAIN invoice' = DOMAIN invoice /\ DOMAIN payment' = DOMAIN payment
  BY <1>0, <1>1, SameCounts, SameDomains
<1>4. UNCHANGED payment => ReceiptsFit'
  BY DEF ReceiptsFit, CacheInv
<1>5. ASSUME NEW P, NEW i \in DOMAIN invoice, Receipted(P, i), \A p \in P : payment[p].invoice = i
      PROVE  ReceiptsFit'
  BY <1>0, <1>3, <1>5, ReceiptedIsSame DEF ReceiptsFit, CacheInv
<1>6. CASE PayWrites(c)
  <2>1. /\ Working(c) /\ TaskFits(desk[c]) /\ desk[c].op = "pay" /\ desk[c].step = "write"
    BY <1>6, AtStep DEF PayWrites
  <2>2. PICK i, saw, st : /\ i = desk[c].on /\ saw = desk[c].saw
                          /\ st = DeriveStatus(desk[c].status, desk[c].saw, invoice[desk[c].on].total)
    OBVIOUS
  <2>3. Caches(i, saw, st) /\ UNCHANGED payment
    BY <1>6, <2>2 DEF PayWrites
  <2>4. i \in DOMAIN invoice /\ i # 0
    BY <1>0, <2>1, <2>2, RowTypes DEF TaskFits, IsActive
  <2>5. \A j \in DOMAIN invoice : j # i => invoice'[j] = invoice[j]
    BY <2>3 DEF Caches
  <2>6. PICK t : Follows(c, t, "post", desk[c].pay, desk[c].n, desk[c].saw, desk[c].status)
    BY <1>6, Moves
  <2>7. LinkKept(c, t) /\ SyncKept(c, t) /\ PostKept(c, t) /\ t \in Task /\ DeskStep(c, t)
    BY <2>1, <2>6, FollowsAhead
  <2>8. BeforeSync(t) /\ BeforePosted(t, i) /\ t.step = "post"
    BY <2>1, <2>2, <2>6 DEF BeforeSync, BeforeLink, BeforePosted, Follows
  <2>9. Settles(i)'
    BY <1>0, <2>7, <2>8, AheadKept DEF Settles
  <2> QED
    BY <1>1, <1>2, <1>4, <2>3, <2>5, <2>7, <2>8, <2>9, WritesCache
<1>7. CASE PostWrites(c)
  <2>1. /\ Working(c) /\ TaskFits(desk[c]) /\ desk[c].op \in {"pay", "job"} /\ desk[c].step = "postWrite"
        /\ desk[c] \in Task /\ desk[c].saw \in Nat
    BY <1>0, <1>7, AtStep, DeskTypes, WhichOp DEF PostWrites, Task
  <2>2. PICK i, saw, st : i = desk[c].on /\ saw = desk[c].saw /\ st = PaidStatus(saw, invoice[i].total)
    OBVIOUS
  <2>3. Caches(i, saw, st) /\ UNCHANGED payment
    BY <1>7, <2>2 DEF PostWrites
  <2>4. IsActive(i) /\ i \in DOMAIN invoice /\ i # 0
    BY <1>0, <2>1, <2>2, RowTypes DEF TaskFits, IsActive
  <2>5. /\ \A j \in DOMAIN invoice : j # i => invoice'[j] = invoice[j]
        /\ invoice'[i].paid = saw /\ invoice'[i].status = st /\ invoice'[i].total = invoice[i].total
        /\ invoice'[i].parent = invoice[i].parent
    BY <1>0, <2>1, <2>2, <2>3, <2>4, CachesIsSame, StatusOfPaid DEF IsActive
  <2>6. PICK t : Follows(c, t, "find", desk[c].pay, desk[c].n, desk[c].saw, desk[c].status)
    BY <1>7, Moves
  <2>7. LinkKept(c, t) /\ SyncKept(c, t) /\ t \in Task /\ DeskStep(c, t)
    BY <2>1, <2>6, FollowsAhead
  <2>8. BeforeSync(t) /\ t.step = "find"
    BY <2>1, <2>6 DEF BeforeSync, BeforeLink, Follows
  <2>9. ~IsMaster(i) => Caching(i, Total(LinkedTo({i})))'
    <3>1. PICK u \in Task : u = desk[c]
      BY <2>1
    <3>2. SawFits(u)
      BY <3>1 DEF CacheInv
    <3>3. ~IsMaster(i) => saw = Total(LinkedTo({i}))
      BY <2>1, <2>2, <3>1, <3>2 DEF SawFits, IsMaster
    <3>4. ~IsMaster(i) => Total(LinkedTo({i}))' = Total(LinkedTo({i}))
      BY <1>3, <2>4, CountsAreKept DEF IsMaster
    <3> QED
      BY <2>2, <2>5, <3>3, <3>4 DEF Caching
  <2>10. Settles(i)'
    <3>1. IsMaster(i)' <=> IsMaster(i)
      BY <2>5 DEF IsMaster
    <3>2. SyncAhead'
      BY <1>0, <2>7, <2>8, AheadKept
    <3> QED
      BY <2>9, <3>1, <3>2 DEF Settles, Caching
  <2> QED
    BY <1>1, <1>2, <1>4, <2>2, <2>3, <2>5, <2>7, <2>8, <2>10, WritesCache
<1>8. CASE SyncWrites(c)
  <2>1. /\ Working(c) /\ TaskFits(desk[c]) /\ desk[c].step = "sync"
        /\ desk[c] \in Task /\ desk[c].saw \in Nat
    BY <1>0, <1>8, AtStep, DeskTypes DEF SyncWrites
  <2>2. PICK m, saw, st : m = desk[c].n /\ saw = desk[c].saw /\ st = DeriveStatus(desk[c].status, saw, invoice[m].total)
    OBVIOUS
  <2>3. Caches(m, saw, st) /\ (Receipted(LinkedTo({m}), m) \/ UNCHANGED payment) /\ Synced(c)
    BY <1>8, <2>2 DEF SyncWrites
  <2>4. m \in Active(Masters) /\ m \in DOMAIN invoice /\ invoice[m].status # "VOID" /\ st = PaidStatus(saw, invoice[m].total)
    BY <2>1, <2>2, StatusOfPaid DEF TaskFits, Active, Masters
  <2>5. /\ \A j \in DOMAIN invoice : j # m => invoice'[j] = invoice[j]
        /\ invoice'[m].paid = saw /\ invoice'[m].status = st /\ invoice'[m].total = invoice[m].total
        /\ invoice'[m].parent = invoice[m].parent
    BY <1>0, <2>1, <2>2, <2>3, <2>4, CachesIsSame, StatusOfPaid
  <2>6. saw = Total(Completed)
    <3>1. PICK u \in Task : u = desk[c]
      BY <2>1
    <3>2. SawFits(u)
      BY <3>1 DEF CacheInv
    <3> QED
      BY <2>1, <2>2, <3>1, <3>2 DEF SawFits
  <2>7. Settles(m)'
    <3>1. Total(Completed)' = saw
      BY <1>3, <2>6, CountsAreKept
    <3>2. Caching(m, Total(Completed))'
      BY <2>4, <2>5, <3>1 DEF Caching
    <3>3. IsMaster(m)'
      BY <2>4, <2>5 DEF Active, Masters, IsMaster
    <3> QED
      BY <3>2, <3>3 DEF Settles
  <2>8. ReceiptsFit'
    <3>1. \A p \in LinkedTo({m}) : payment[p].invoice = m
      BY DEF LinkedTo
    <3> QED
      BY <1>4, <1>5, <2>3, <2>4, <3>1
  <2>9. ASSUME NEW t, DeskStep(c, t), t \in Task => t.step = "receipt"
        PROVE  CacheInv'
    <3>1. LinkKept(c, t) /\ PostKept(c, t)
      BY <2>1 DEF LinkKept, PostKept, BeforeLink, BeforePosted
    <3> QED
      BY <1>1, <1>2, <2>4, <2>5, <2>7, <2>8, <2>9, <3>1, WritesCache
  <2>10. \/ Ends(c)
         \/ \E t : Follows(c, t, "receipt", desk[c].pay, desk[c].n, desk[c].saw, desk[c].status)
    BY <2>1, <2>3, Moves
  <2> QED
    BY <2>9, <2>10, EndsIsStep DEF Follows
<1>9. CASE PayReceipt(c)
  <2>1. Working(c) /\ TaskFits(desk[c]) /\ desk[c].op = "pay" /\ desk[c].step = "receipt"
    BY <1>9, AtStep DEF PayReceipt
  <2>2. desk[c].on \in DOMAIN invoice /\ payment[desk[c].pay].invoice = desk[c].on
    BY <2>1 DEF TaskFits, IsActive
  <2>3. ReceiptsFit'
    BY <1>4, <1>5, <1>9, <2>2 DEF PayReceipt
  <2>4. LinkKept(c, Idle) /\ SyncKept(c, Idle) /\ PostKept(c, Idle)
    BY <2>1, NothingAhead
  <2>5. UNCHANGED invoice /\ Ends(c)
    BY <1>9 DEF PayReceipt
  <2>6. 0 \notin DOMAIN invoice
    BY <1>0, RowTypes
  <2> QED
    BY <1>1, <1>2, <2>3, <2>4, <2>5, <2>6, EndsIsStep, WritesCache
<1> QED
  BY <1>6, <1>7, <1>8, <1>9

\* A step that leaves the invoices alone, completes nothing and leaves all that is ahead.
LEMMA KeepsSettled ==
  ASSUME InvoiceTypeOK, CountsKept, UNCHANGED invoice, Settled,
         (LinkAhead => LinkAhead') \/ LinkedTo({0})' = {},
         SyncAhead => SyncAhead',
         \A s : s # 0 /\ PostAhead(s) => PostAhead(s)'
  PROVE  Settled'
<1>1. Active(Masters)' = Active(Masters) /\ \A i : IsActive(i)' <=> IsActive(i)
  BY DEF Active, Masters, IsMaster, IsActive
<1>2. NoneUnlinked'
  <2>1. CASE LinkAhead => LinkAhead'
    BY <1>1, <2>1, UnlinkedStays DEF Settled
  <2>2. CASE LinkedTo({0})' = {}
    BY <2>2 DEF NoneUnlinked
  <2> QED
    BY <2>1, <2>2
<1>3. \A i \in DOMAIN invoice : Carried(i) /\ i # 0
  BY <1>1, RowTypes DEF Carried
<1> QED
  BY <1>2, <1>3, SettledStays

LEMMA NewPaymentRows ==
  ASSUME InvoiceTypeOK, RowsFit, CacheInv, UNCHANGED invoice, NEW i, i = 0 \/ IsActive(i), NEW n \in Amounts,
         NEW st \in {"PENDING", "COMPLETED"}, NewPayment(i, n, st)
  PROVE  /\ ReceiptsFit' /\ TotalsPositive' /\ RowsTyped'
         /\ st = "PENDING" => CountsKept
<1>1. /\ Len(payment') = Len(payment) + 1 /\ Len(payment) \in Nat /\ RowsTyped'
      /\ payment'[Len(payment) + 1] = [invoice |-> i, amount |-> n, receipt |-> 0, status |-> st]
      /\ \A p \in DOMAIN payment : payment'[p] = payment[p]
      /\ DOMAIN payment = 1 .. Len(payment)
  BY NewPaymentFits, RowTypes
<1>2. PICK last : last = Len(payment) + 1
  OBVIOUS
<1>3. /\ DOMAIN payment' = DOMAIN payment \cup {last} /\ last \notin DOMAIN payment
      /\ payment'[last].receipt = 0 /\ payment'[last].status = st
  <2>1. DOMAIN payment' = 1 .. Len(payment')
    BY <1>1 DEF RowsTyped
  <2> QED
    BY <1>1, <1>2, <2>1
<1>4. ReceiptsFit' /\ TotalsPositive'
  BY <1>1, <1>3 DEF ReceiptsFit, TotalsPositive, CacheInv
<1>5. ASSUME st = "PENDING"
      PROVE  CountsKept
  <2>1. Completed' = Completed
    BY <1>1, <1>3, <1>5 DEF Completed
  <2>2. \A p \in Completed : payment'[p] = payment[p]
    BY <1>1 DEF Completed
  <2>3. \A s : LinkedTo({s})' = LinkedTo({s})
    BY <2>1, <2>2 DEF LinkedTo
  <2> QED
    BY <2>1, <2>2, <2>3 DEF CountsKept
<1> QED
  BY <1>1, <1>4, <1>5

\* A payment is completed, and the request that completes it has everything ahead.
LEMMA PayerCache ==
  ASSUME ActiveIInv, ActiveIInv', CacheInv, UNCHANGED <<invoice, threw>>, NEW c \in Clerks, NEW t \in Task, DeskStep(c, t),
         BeforeLink(t), t.step # "postWrite", t.on # 0 => BeforePosted(t, t.on), PostKept(c, t),
         ReceiptsFit', PaymentsKept, NEW p, NEW n, Completes(p, t.on, n),
         \A d \in Clerks \ {c}, u \in Task : desk[d] # u
  PROVE  CacheInv'
<1>0. InvoiceTypeOK /\ InvoiceTypeOK' /\ RequestsApart
  BY DEF ActiveIInv, ActiveInv
<1>1. LinkAhead' /\ SyncAhead' /\ (t.on # 0 => PostAhead(t.on)') /\ \A s : s # 0 /\ PostAhead(s) => PostAhead(s)'
  BY <1>0, AheadKept
<1>2. TotalsPositive'
  BY DEF TotalsPositive, CacheInv
<1>3. SawFits(t)'
  BY DEF SawFits, BeforeLink
<1>4. \A s : s # t.on => Total(LinkedTo({s}))' = Total(LinkedTo({s}))
  <2>1. \A s : Total(LinkedTo({s})) \in Nat
    BY <1>0, DerivedType
  <2> QED
    BY <1>0, <2>1, CompletedGrows
<1>5. ASSUME Settled, NEW i \in DOMAIN invoice
      PROVE  Settles(i)'
  <2>1. i # 0 /\ Carried(i) /\ Settles(i)
    BY <1>0, <1>5, RowTypes DEF Carried, Settled, IsActive
  <2>2. CASE i = t.on
    <3>1. PostAhead(i)'
      BY <1>1, <2>1, <2>2
    <3> QED
      BY <1>1, <3>1 DEF Settles
  <2>3. CASE i # t.on
    BY <1>1, <1>4, <2>1, <2>3, SettlesOn
  <2> QED
    BY <2>2, <2>3
<1>6. threw' \/ Settled'
  BY <1>1, <1>5 DEF CacheInv, Settled, NoneUnlinked
<1> QED
  BY <1>0, <1>2, <1>3, <1>6, CacheTogether

LEMMA OnlineCache ==
  ASSUME ActiveIInv, CacheInv, NEW c \in Clerks, GeneratePaymentPayload(c)
  PROVE  CacheInv'
<1>0. InvoiceTypeOK /\ RowsFit /\ RequestsApart
  BY DEF ActiveIInv, ActiveInv
<1>1. /\ Working(c) /\ TaskFits(desk[c]) /\ desk[c].step = "online" /\ desk[c].op = "pay" /\ desk[c] \in Task
  BY AtStep, WhichOp DEF GeneratePaymentPayload, Task
<1>2. IsActive(desk[c].on) /\ desk[c].n \in Amounts /\ UNCHANGED <<invoice, threw>>
  BY <1>1 DEF TaskFits, GeneratePaymentPayload
<1>3. ReceiptsFit' /\ TotalsPositive' /\ CountsKept
  BY <1>0, <1>2, NewPaymentRows DEF GeneratePaymentPayload
<1>4. LinkKept(c, Idle) /\ SyncKept(c, Idle) /\ PostKept(c, Idle) /\ DeskStep(c, Idle) /\ Idle \notin Task
  BY <1>1, NothingAhead, EndsIsStep DEF GeneratePaymentPayload
<1>5. \A d \in Clerks, u \in Task : desk[d] = u => SawFits(u)'
  BY <1>2, <1>3, OthersSaw
<1>6. Settled => Settled'
  BY <1>0, <1>2, <1>3, <1>4, AheadKept, KeepsSettled
<1> QED
  BY <1>0, <1>2, <1>3, <1>4, <1>5, <1>6, CacheTogether DEF CacheInv

LEMMA SaleOnlineCache ==
  ASSUME ActiveIInv, CacheInv, NEW n \in Amounts, PaySaleOnline(n)
  PROVE  CacheInv'
<1>0. InvoiceTypeOK /\ RowsFit /\ UNCHANGED <<invoice, desk, threw>>
  BY DEF ActiveIInv, ActiveInv, PaySaleOnline
<1>1. ReceiptsFit' /\ TotalsPositive' /\ CountsKept
  BY <1>0, NewPaymentRows DEF PaySaleOnline
<1>2. \A d \in Clerks, u \in Task : desk[d] = u => SawFits(u)'
  BY <1>0, <1>1, OthersSaw
<1>3. (LinkAhead => LinkAhead') /\ (SyncAhead => SyncAhead') /\ \A s : PostAhead(s) => PostAhead(s)'
  BY <1>0 DEF LinkAhead, SyncAhead, PostAhead
<1>4. Settled => Settled'
  BY <1>0, <1>1, <1>3, KeepsSettled
<1> QED
  BY <1>0, <1>1, <1>2, <1>4 DEF CacheInv

LEMMA PaymentsCache ==
  ASSUME InvoicesApart, ActiveIInv, ActiveIInv', CacheInv, NEW c \in Clerks,
         \/ PayInvoice(c) \/ \E n \in Amounts : PaySale(c, n)
         \/ \E p \in DOMAIN payment : Confirm(c, p)
  PROVE  CacheInv'
<1> USE InvoicingAssumption
<1>0. InvoiceTypeOK /\ InvoiceTypeOK' /\ RowsFit /\ RequestsApart
  BY DEF ActiveIInv, ActiveInv
<1>1. UNCHANGED <<invoice, threw>>
  BY DEF PayInvoice, PaySale, Confirm
<1>2. CASE PayInvoice(c)
  <2>1. /\ Working(c) /\ TaskFits(desk[c]) /\ desk[c].step = "record" /\ desk[c].op = "pay" /\ At(c, "record")
        /\ desk[c] \in Task
    BY <1>2, AtStep, WhichOp DEF PayInvoice, Task
  <2>2. PICK i, n : i = desk[c].on /\ n = desk[c].n
    OBVIOUS
  <2>3. IsActive(i) /\ n \in Amounts
    BY <2>1, <2>2 DEF TaskFits
  <2>4. CASE UNCHANGED payment /\ Ends(c)
    BY <1>1, <2>1, <2>4, ReadingsCache
  <2>5. ASSUME NewPayment(i, n, "COMPLETED"), NEW t,
               Follows(c, t, "derive", Len(payment) + 1, desk[c].n, desk[c].saw, desk[c].status)
        PROVE  CacheInv'
    <3>1. PICK p : Completes(p, i, n) /\ PaymentsKept
      BY <1>0, <1>1, <2>3, <2>5, NewCompletes
    <3>2. ReceiptsFit'
      BY <1>0, <1>1, <2>3, <2>5, NewPaymentRows
    <3>3. PostKept(c, t) /\ t \in Task /\ DeskStep(c, t)
      BY <2>1, <2>5, FollowsAhead
    <3>4. BeforeLink(t) /\ t.step # "postWrite" /\ BeforePosted(t, t.on) /\ t.on = i
      BY <2>1, <2>2, <2>5 DEF BeforeLink, BeforePosted, Follows
    <3>5. \A d \in Clerks \ {c}, u \in Task : desk[d] # u
      BY <1>0, <2>1, PaysAlone
    <3> QED
      BY <1>1, <3>1, <3>2, <3>3, <3>4, <3>5, PayerCache
  <2>6. \/ UNCHANGED payment /\ Ends(c)
        \/ /\ NewPayment(i, n, "COMPLETED")
           /\ desk' = [desk EXCEPT ![c].step = "derive", ![c].pay = Len(payment) + 1]
    BY <1>2, <2>2 DEF PayInvoice
  <2>7. ASSUME desk' = [desk EXCEPT ![c].step = "derive", ![c].pay = Len(payment) + 1]
        PROVE  \E t : Follows(c, t, "derive", Len(payment) + 1, desk[c].n, desk[c].saw, desk[c].status)
    <3>1. Len(payment) + 1 \in Nat
      BY <1>0, RowTypes
    <3> QED
      BY <1>0, <2>1, <2>7, <3>1, GoesTo, StepKinds
  <2> QED
    BY <2>4, <2>5, <2>6, <2>7
<1>3. ASSUME NEW i, i = 0 \/ IsActive(i), NEW p \in Nat, NEW n,
             Takes(c, "job", "post", i, p, 0, 0), PaymentsKept, ReceiptsFit', NEW q, Completes(q, i, n)
      PROVE  CacheInv'
  <2>1. i \in Nat /\ (i # 0 => i \in DOMAIN invoice) /\ "job" \in Op /\ "post" \in InvoiceStep
    BY <1>0, <1>3, RowTypes DEF Op, InvoiceStep, IsActive
  <2>2. PICK st \in Status :
          /\ DeskStep(c, [op |-> "job", step |-> "post", on |-> i, pay |-> p, n |-> 0, saw |-> 0, status |-> st])
          /\ i # 0 => st = invoice[i].status
          /\ ~Working(c) /\ MayRun("job")
    BY <1>0, <1>3, <2>1, TakesIsStep
  <2>3. PICK t : t = [op |-> "job", step |-> "post", on |-> i, pay |-> p, n |-> 0, saw |-> 0, status |-> st]
    OBVIOUS
  <2>4. DeskStep(c, t) /\ t \in Task
    BY <1>3, <2>1, <2>2, <2>3 DEF Task
  <2>5. BeforeLink(t) /\ t.step # "postWrite" /\ BeforePosted(t, t.on) /\ t.on = i
    BY <2>3 DEF BeforeLink, BeforePosted
  <2>6. \A d \in Clerks \ {c}, u \in Task : desk[d] # u
    BY <1>0, <2>2, PaysAlone
  <2>7. PostKept(c, t)
    BY <2>2, NothingAhead
  <2> QED
    BY <1>1, <1>3, <2>4, <2>5, <2>6, <2>7, PayerCache
<1>4. ASSUME NEW n \in Amounts, PaySale(c, n)
      PROVE  CacheInv'
  <2>1. PICK q : Completes(q, 0, n) /\ PaymentsKept
    BY <1>0, <1>1, <1>4, NewCompletes DEF PaySale
  <2>2. ReceiptsFit'
    BY <1>0, <1>1, <1>4, NewPaymentRows DEF PaySale
  <2>3. PICK last : last = Len(payment) + 1 /\ last \in Nat
    BY <1>0, RowTypes
  <2>4. Takes(c, "job", "post", 0, last, 0, 0)
    BY <1>4, <2>3 DEF PaySale
  <2> QED
    BY <1>3, <2>1, <2>2, <2>3, <2>4
<1>5. ASSUME NEW p \in DOMAIN payment, Confirm(c, p)
      PROVE  CacheInv'
  <2>1. PICK i, n : i = payment[p].invoice /\ n = payment[p].amount
    OBVIOUS
  <2>2. /\ p \in Pending /\ Takes(c, "job", "post", i, p, 0, 0)
        /\ payment' = [payment EXCEPT ![p].status = "COMPLETED"]
    BY <1>5, <2>1 DEF Confirm
  <2>3. p \in Nat /\ (i = 0 \/ IsActive(i))
    BY <1>0, <2>1, <2>2, RowTypes DEF RowsFit
  <2>4. /\ DOMAIN payment' = DOMAIN payment
        /\ \A q \in DOMAIN payment : /\ payment'[q].invoice = payment[q].invoice
                                      /\ payment'[q].amount = payment[q].amount
                                      /\ payment'[q].receipt = payment[q].receipt
        /\ payment'[p].status = "COMPLETED"
        /\ \A q \in DOMAIN payment \ {p} : payment'[q].status = payment[q].status
    <3> DEFINE row == [payment[p] EXCEPT !.status = "COMPLETED"]
    <3>1. payment[p] \in PaymentRow(Len(invoice))
      BY <1>0, RowTypes
    <3>2. /\ row.status = "COMPLETED" /\ row.invoice = payment[p].invoice /\ row.amount = payment[p].amount
          /\ row.receipt = payment[p].receipt
      BY <3>1 DEF PaymentRow
    <3>3. payment' = [payment EXCEPT ![p] = row]
      BY <2>2
    <3> HIDE DEF row
    <3>4. DOMAIN payment' = DOMAIN payment /\ payment'[p] = row /\ \A q \in DOMAIN payment \ {p} : payment'[q] = payment[q]
      BY <3>3
    <3> QED
      BY <3>2, <3>4
  <2>5. p \notin Completed /\ Completed' = Completed \cup {p}
    BY <2>2, <2>4 DEF Pending, Completed
  <2>6. PaymentsKept /\ Completes(p, i, n)
    BY <2>1, <2>4, <2>5 DEF PaymentsKept, Completes, Completed
  <2>7. ReceiptsFit'
    BY <2>4 DEF ReceiptsFit, CacheInv
  <2> QED
    BY <1>3, <2>2, <2>3, <2>6, <2>7
<1> QED
  BY <1>2, <1>4, <1>5

LEMMA LinksCache ==
  ASSUME InvoicesApart, ActiveIInv, CacheInv, NEW c \in Clerks, SyncLinks(c)
  PROVE  CacheInv'
<1>0. InvoiceTypeOK /\ RowsFit /\ RequestsApart /\ UNCHANGED <<invoice, threw>>
  BY DEF ActiveIInv, ActiveInv, SyncLinks
<1>1. Working(c) /\ TaskFits(desk[c]) /\ desk[c].step = "link"
  BY AtStep DEF SyncLinks
<1>2. PICK m : m = desk[c].n
  OBVIOUS
<1>3. m \in DOMAIN invoice /\ m # 0 /\ invoice[m].parent = 0
  BY <1>0, <1>1, <1>2, RowTypes DEF TaskFits, Active, Masters, IsMaster
<1>4. /\ DOMAIN payment' = DOMAIN payment
      /\ \A p \in DOMAIN payment :
           /\ payment'[p].status = payment[p].status /\ payment'[p].amount = payment[p].amount
           /\ payment'[p].receipt = payment[p].receipt
           /\ payment'[p].invoice = IF p \in LinkedTo({0}) THEN m ELSE payment[p].invoice
  <2>1. DOMAIN payment' = DOMAIN payment
    BY DEF SyncLinks
  <2>2. SUFFICES ASSUME NEW p \in DOMAIN payment
                 PROVE  /\ payment'[p].status = payment[p].status /\ payment'[p].amount = payment[p].amount
                        /\ payment'[p].receipt = payment[p].receipt
                        /\ payment'[p].invoice = IF p \in LinkedTo({0}) THEN m ELSE payment[p].invoice
    BY <2>1
  <2>3. payment[p] \in PaymentRow(Len(invoice))
    BY <1>0, RowTypes
  <2>4. payment'[p] = IF p \in LinkedTo({0}) THEN [payment[p] EXCEPT !.invoice = m] ELSE payment[p]
    BY <1>2 DEF SyncLinks
  <2> QED
    BY <2>3, <2>4 DEF PaymentRow
<1>5. Completed' = Completed
  BY <1>4 DEF Completed
<1>6. LinkedTo({0})' = {} /\ \A s \in DOMAIN invoice : invoice[s].parent # 0 => LinkedTo({s})' = LinkedTo({s})
  <2>1. \A p \in Completed : p \in DOMAIN payment /\ (p \in LinkedTo({0}) <=> payment[p].invoice = 0)
    BY DEF Completed, LinkedTo
  <2>2. \A p \in Completed : payment'[p].invoice # 0
    BY <1>3, <1>4, <2>1
  <2>3. LinkedTo({0})' = {}
    BY <1>5, <2>2 DEF LinkedTo
  <2>4. ASSUME NEW s \in DOMAIN invoice, invoice[s].parent # 0
        PROVE  LinkedTo({s})' = LinkedTo({s})
    <3>1. s # m /\ s # 0
      BY <1>0, <1>3, <2>4, RowTypes
    <3>2. \A p \in Completed : payment'[p].invoice = s <=> payment[p].invoice = s
      BY <1>4, <2>1, <3>1
    <3> QED
      BY <1>5, <3>2 DEF LinkedTo
  <2> QED
    BY <2>3, <2>4
<1>7. CountsKept
  BY <1>4, <1>5, <1>6 DEF CountsKept, Completed
<1>8. ReceiptsFit' /\ TotalsPositive'
  BY <1>0, <1>4 DEF ReceiptsFit, TotalsPositive, CacheInv, LinkedTo
<1>9. PICK t : Follows(c, t, "sum", desk[c].pay, desk[c].n, desk[c].saw, desk[c].status)
  BY <1>0, <1>1, GoesTo, StepKinds DEF SyncLinks
<1>10. SyncKept(c, t) /\ PostKept(c, t) /\ DeskStep(c, t) /\ SawFits(t)'
  <2>1. SawFits(t)'
    BY <1>9 DEF SawFits, Follows
  <2> QED
    BY <1>1, <1>9, <2>1, FollowsAhead
<1>11. \A d \in Clerks, u \in Task : desk[d] = u => SawFits(u)'
  BY <1>0, <1>7, OthersSaw
<1>12. Settled => Settled'
  BY <1>0, <1>6, <1>7, <1>10, AheadKept, KeepsSettled
<1> QED
  BY <1>0, <1>8, <1>10, <1>11, <1>12, CacheTogether DEF CacheInv

\* A receipt of a payment that no invoice has is asked for only where a sync
\* never linked it.
LEMMA ReceiptCache ==
  ASSUME InvoicesApart, ActiveIInv, CacheInv, NEW c \in Clerks, GenerateReceiptForInvoice(c)
  PROVE  CacheInv'
<1>0. InvoiceTypeOK /\ RowsFit /\ RequestsApart /\ UNCHANGED <<invoice, threw>>
  BY DEF ActiveIInv, ActiveInv, GenerateReceiptForInvoice
<1>1. Working(c) /\ TaskFits(desk[c]) /\ desk[c].op = "receipt"
  BY AtStep DEF GenerateReceiptForInvoice
<1>2. PICK p, i, saw : p = desk[c].pay /\ i = desk[c].on /\ saw = desk[c].saw
  OBVIOUS
<1>3. p \in Completed /\ Alive(i) /\ saw \in {0, i} /\ payment[p].invoice = saw /\ p \in DOMAIN payment
  BY <1>1, <1>2 DEF TaskFits, Completed
<1>4. payment' = [payment EXCEPT ![p] = LinkAndReceipt(p, i, saw)]
  BY <1>2 DEF GenerateReceiptForInvoice
<1>5. /\ LinkAndReceipt(p, i, saw).status = payment[p].status
      /\ LinkAndReceipt(p, i, saw).amount = payment[p].amount
      /\ LinkAndReceipt(p, i, saw).invoice = i
      /\ LinkAndReceipt(p, i, saw).receipt = IF payment[p].receipt = 0 THEN i ELSE payment[p].receipt
  <2>1. payment[p] \in PaymentRow(Len(invoice))
    BY <1>0, <1>3, RowTypes
  <2> QED
    BY <1>3, <2>1 DEF LinkAndReceipt, PaymentRow
<1>6. /\ DOMAIN payment' = DOMAIN payment /\ payment'[p] = LinkAndReceipt(p, i, saw)
      /\ \A q \in DOMAIN payment : q # p => payment'[q] = payment[q]
  BY <1>0, <1>3, <1>4, RowTypes
<1>7. ReceiptsFit' /\ TotalsPositive'
  BY <1>0, <1>3, <1>5, <1>6 DEF ReceiptsFit, TotalsPositive, CacheInv
<1>8. Completed' = Completed
  BY <1>5, <1>6 DEF Completed
<1>9. ASSUME NEW d \in Clerks, d # c, NEW u \in Task, desk[d] = u
      PROVE  SawFits(u)' /\ u.op \in {"void", "sub"}
  <2>1. Working(d) /\ TaskFits(u)
    BY <1>9 DEF Working, Idle, Task, Op, ActiveIInv, ActiveInv
  <2>2. u.op \in {"void", "sub"}
    BY <1>0, <1>1, <1>9, <2>1, WhoIsBeside DEF Beside
  <2> QED
    BY <2>1, <2>2 DEF TaskFits, StepsOf, SawFits
<1>10. LinkKept(c, Idle) /\ SyncKept(c, Idle) /\ PostKept(c, Idle) /\ DeskStep(c, Idle) /\ Idle \notin Task
  BY <1>1, NothingAhead, EndsIsStep DEF GenerateReceiptForInvoice
<1>11. ASSUME Settled
       PROVE  saw = i
  <2>1. ~LinkAhead
    BY <1>1, <1>9 DEF LinkAhead, BeforeLink
  <2>2. Active(Masters) # {}
    BY <1>0, <1>3, RowTypes DEF Alive, IsActive, RowsFit, Active, Masters, IsMaster
  <2>3. LinkedTo({0}) = {}
    BY <1>11, <2>1, <2>2 DEF Settled, NoneUnlinked
  <2> QED
    BY <1>3, <2>3 DEF LinkedTo
<1>12. ASSUME Settled
       PROVE  Settled'
  <2>1. \A q \in Completed : payment'[q].amount = payment[q].amount /\ payment'[q].invoice = payment[q].invoice
    BY <1>3, <1>5, <1>6, <1>11, <1>12 DEF Completed
  <2>2. \A s : LinkedTo({s})' = LinkedTo({s})
    BY <1>8, <2>1 DEF LinkedTo
  <2>3. CountsKept
    BY <1>8, <2>1, <2>2 DEF CountsKept
  <2> QED
    BY <1>0, <1>10, <1>12, <2>3, AheadKept, KeepsSettled
<1> QED
  BY <1>0, <1>7, <1>9, <1>10, <1>12, CacheTogether DEF CacheInv

\* An invoice is added: a master, which its request goes on to sync, or a
\* sub-invoice, which nothing is paid on.
LEMMA AddsCache ==
  ASSUME ActiveIInv, CacheInv, UNCHANGED <<payment, threw>>, NEW c \in Clerks, NEW t, DeskStep(c, t),
         t \in Task => SawFits(t)', LinkKept(c, t), SyncKept(c, t), PostKept(c, t),
         NEW parent \in 0 .. Len(invoice), NEW number \in Nat, NEW n \in Nat \ {0},
         invoice' = Append(invoice, Row(parent, number, n)),
         IF parent = 0 THEN Active(Masters) = {} /\ LinkAhead' /\ SyncAhead' ELSE parent \in Active(Masters)
  PROVE  CacheInv'
<1>0. InvoiceTypeOK /\ RowsFit /\ RequestsApart
  BY DEF ActiveIInv, ActiveInv
<1>1. PICK row, last : row = Row(parent, number, n) /\ last = Len(invoice) + 1
  OBVIOUS
<1>2. /\ row \in InvoiceRow(Len(invoice) + 1) /\ row.status = "SENT" /\ row.parent = parent
      /\ row.paid = 0 /\ row.total > 0 /\ row.total \in Nat
  <2>1. row \in InvoiceRow(Len(invoice) + 1) /\ WithTax(n) \in Nat /\ WithTax(n) >= n
    BY <1>0, <1>1, RowType
  <2>2. row.status = "SENT" /\ row.parent = parent /\ row.paid = 0 /\ row.total = WithTax(n)
    BY <1>1 DEF Row
  <2> QED
    BY <2>1, <2>2
<1>3. /\ DOMAIN invoice' = DOMAIN invoice \cup {last} /\ last \notin DOMAIN invoice
      /\ \A i \in DOMAIN invoice : invoice'[i] = invoice[i]
      /\ invoice'[last] = row
      /\ Active(Masters)' = Active(Masters) \cup (IF parent = 0 THEN {last} ELSE {})
  BY <1>0, <1>1, <1>2, AddedFits
<1>4. CountsKept
  BY DEF CountsKept, Completed, LinkedTo
<1>5. ReceiptsFit' /\ TotalsPositive'
  BY <1>2, <1>3 DEF ReceiptsFit, TotalsPositive, CacheInv
<1>6. \A d \in Clerks, u \in Task : desk[d] = u => SawFits(u)'
  BY <1>3, <1>4, OthersSaw
<1>7. parent # 0 => Settles(last)'
  <2>1. LinkedTo({last}) = {}
    <3>1. \A p \in DOMAIN payment : payment[p].invoice # last
      BY <1>0, <1>1, RowTypes
    <3> QED
      BY <3>1 DEF LinkedTo, Completed
  <2>2. Total(LinkedTo({last}))' = Total(LinkedTo({last}))
    BY DEF Total, LinkedTo, Completed
  <2>3. Total(LinkedTo({last})) = 0
    BY <2>1, NothingTotal
  <2>4. Caching(last, 0)'
    BY <1>2, <1>3 DEF Caching, PaidStatus
  <2>5. parent # 0 => ~IsMaster(last)'
    BY <1>2, <1>3 DEF IsMaster
  <2> QED
    BY <2>2, <2>3, <2>4, <2>5 DEF Settles, Caching
<1>8. parent = 0 => Settles(last)'
  BY <1>2, <1>3 DEF Settles, IsMaster
<1>9. ASSUME Settled
      PROVE  Settled'
  <2>1. NoneUnlinked'
    <3>1. CASE parent = 0
      BY <3>1 DEF NoneUnlinked
    <3>2. CASE parent # 0
      BY <1>0, <1>3, <1>4, <1>9, <3>2, AheadKept, UnlinkedStays DEF Settled
    <3> QED
      BY <3>1, <3>2
  <2>2. \A i \in DOMAIN invoice : Carried(i) /\ i # 0
    BY <1>0, <1>3, RowTypes DEF Carried, IsActive
  <2>3. ASSUME NEW i \in DOMAIN invoice'
        PROVE  \/ Settles(i)'
               \/ /\ Carried(i)
                  /\ IF IsMaster(i) THEN SyncAhead => SyncAhead' ELSE PostAhead(i) => PostAhead(i)'
    BY <1>0, <1>3, <1>7, <1>8, <2>2, <2>3, AheadKept
  <2> QED
    BY <1>0, <1>4, <1>9, <2>1, <2>3, SettledStays
<1>10. threw' \/ Settled'
  BY <1>9 DEF CacheInv
<1> QED
  BY <1>0, <1>5, <1>6, <1>10, CacheTogether

LEMMA CreatesCache ==
  ASSUME ActiveIInv, CacheInv, NEW c \in Clerks, GenerateMasterInvoice(c) \/ CreateSubInvoice(c)
  PROVE  CacheInv'
<1>0. InvoiceTypeOK /\ RowsFit /\ RequestsApart /\ UNCHANGED <<payment, threw>>
  BY DEF ActiveIInv, ActiveInv, GenerateMasterInvoice, CreateSubInvoice
<1>1. CASE GenerateMasterInvoice(c)
  <2>1. Working(c) /\ TaskFits(desk[c]) /\ desk[c].step = "create" /\ desk[c].op = "master"
    BY <1>1, AtStep DEF GenerateMasterInvoice
  <2>2. Active(Masters) = {}
    BY <2>1 DEF TaskFits
  <2>3. PICK t : Follows(c, t, "find", desk[c].pay, desk[c].n, desk[c].saw, desk[c].status)
    BY <1>0, <1>1, <2>1, GoesTo, StepKinds DEF GenerateMasterInvoice
  <2>4. DeskStep(c, t) /\ t \in Task /\ BeforeLink(t) /\ SawFits(t)'
    BY <2>1, <2>3 DEF Follows, BeforeLink, SawFits
  <2>5. LinkAhead' /\ SyncAhead' /\ LinkKept(c, t) /\ SyncKept(c, t) /\ PostKept(c, t)
    BY <1>0, <2>1, <2>4, AheadKept, NothingAhead
  <2>6. invoice' = Append(invoice, Row(0, 0, Price)) /\ 0 \in 0 .. Len(invoice) /\ Price \in Nat \ {0}
    BY <1>0, <1>1, RowTypes, InvoicingAssumption DEF GenerateMasterInvoice
  <2> QED
    BY <1>0, <2>2, <2>4, <2>5, <2>6, AddsCache
<1>2. CASE CreateSubInvoice(c)
  <2>1. /\ Working(c) /\ TaskFits(desk[c]) /\ desk[c].step = "create" /\ desk[c].op = "sub" /\ At(c, "create")
        /\ desk[c].saw \in Nat /\ Ends(c)
    BY <1>0, <1>2, AtStep, DeskTypes DEF CreateSubInvoice
  <2>2. PICK m, number, n : m = desk[c].on /\ number = desk[c].saw /\ n = desk[c].n
    OBVIOUS
  <2>3. m \in Active(Masters) /\ m # 0 /\ m \in 0 .. Len(invoice) /\ n \in Nat \ {0} /\ number \in Nat
    <3>1. m \in Active(Masters) /\ n \in Amounts
      BY <2>1, <2>2 DEF TaskFits
    <3> QED
      BY <1>0, <2>1, <2>2, <3>1, RowTypes, InvoicingAssumption DEF Active, Masters
  <2>4. CASE UNCHANGED invoice
    BY <1>0, <2>1, <2>4, ReadingsCache
  <2>5. CASE invoice' = Append(invoice, Row(m, number, n))
    <3>1. DeskStep(c, Idle) /\ Idle \notin Task /\ LinkKept(c, Idle) /\ SyncKept(c, Idle) /\ PostKept(c, Idle)
      BY <2>1, EndsIsStep, NothingAhead
    <3> QED
      BY <1>0, <2>3, <2>5, <3>1, AddsCache
  <2> QED
    BY <1>2, <2>2, <2>4, <2>5 DEF CreateSubInvoice
<1> QED
  BY <1>1, <1>2

LEMMA VoidCache ==
  ASSUME ActiveIInv, CacheInv, NEW c \in Clerks, VoidInvoice(c)
  PROVE  CacheInv'
<1>0. InvoiceTypeOK /\ RowsFit /\ RequestsApart /\ UNCHANGED <<payment, threw>>
  BY DEF ActiveIInv, ActiveInv, VoidInvoice
<1>1. Working(c) /\ desk[c].op = "void"
  BY AtStep DEF VoidInvoice
<1>2. PICK voided : invoice' = [i \in DOMAIN invoice |->
                                  IF i \in voided THEN [invoice[i] EXCEPT !.status = "VOID"] ELSE invoice[i]]
  BY DEF VoidInvoice
<1>3. DOMAIN invoice' = DOMAIN invoice
  BY <1>2
<1>4. ASSUME NEW i \in DOMAIN invoice
      PROVE  /\ Carried(i) /\ i # 0 /\ invoice'[i].total = invoice[i].total
             /\ invoice'[i].parent = invoice[i].parent
  <2>1. invoice'[i] = IF i \in voided THEN [invoice[i] EXCEPT !.status = "VOID"] ELSE invoice[i]
    BY <1>2
  <2>2. invoice[i] \in InvoiceRow(Len(invoice)) /\ i # 0
    BY <1>0, RowTypes
  <2>3. CASE i \in voided
    <3>1. invoice'[i].parent = invoice[i].parent /\ invoice'[i].total = invoice[i].total /\ invoice'[i].status = "VOID"
      BY <2>1, <2>2, <2>3 DEF InvoiceRow
    <3> QED
      BY <2>2, <3>1 DEF Carried, IsActive
  <2>4. CASE i \notin voided
    BY <1>3, <2>1, <2>2, <2>4 DEF Carried, IsActive
  <2> QED
    BY <2>3, <2>4
<1>5. CountsKept
  BY <1>0 DEF CountsKept, Completed, LinkedTo
<1>6. ReceiptsFit' /\ TotalsPositive'
  BY <1>0, <1>3, <1>4 DEF ReceiptsFit, TotalsPositive, CacheInv
<1>7. \A d \in Clerks, u \in Task : desk[d] = u => SawFits(u)'
  BY <1>4, <1>5, OthersSaw
<1>8. LinkKept(c, Idle) /\ SyncKept(c, Idle) /\ PostKept(c, Idle) /\ DeskStep(c, Idle) /\ Idle \notin Task
  BY <1>1, NothingAhead, EndsIsStep DEF VoidInvoice
<1>9. ASSUME Settled
      PROVE  Settled'
  <2>1. Active(Masters)' \subseteq Active(Masters)
    BY <1>3, <1>4 DEF Active, Masters, IsMaster, Carried, IsActive
  <2>2. NoneUnlinked'
    BY <1>0, <1>5, <1>8, <1>9, <2>1, AheadKept, UnlinkedStays DEF Settled
  <2>3. \A i \in DOMAIN invoice' :
          /\ Carried(i)
          /\ IF IsMaster(i) THEN SyncAhead => SyncAhead' ELSE PostAhead(i) => PostAhead(i)'
    BY <1>0, <1>3, <1>4, <1>8, AheadKept
  <2> QED
    BY <1>0, <1>5, <1>9, <2>2, <2>3, SettledStays
<1>10. threw' \/ Settled'
  BY <1>0, <1>9 DEF CacheInv
<1> QED
  BY <1>0, <1>6, <1>7, <1>8, <1>10, CacheTogether

LEMMA InitCache ==
  ASSUME InvoiceInit
  PROVE  CacheInv
<1>1. DOMAIN invoice = {} /\ DOMAIN payment = {}
  BY DEF InvoiceInit
<1>2. \A c \in Clerks : desk[c] = Idle /\ Idle \notin Task
  BY DEF InvoiceInit, Idle, Task, Op
<1>3. Settled
  BY <1>1 DEF Settled, NoneUnlinked, LinkedTo, Completed
<1> QED
  BY <1>1, <1>2, <1>3 DEF CacheInv, ReceiptsFit, TotalsPositive

LEMMA CacheStep ==
  ASSUME InvoicesApart, ActiveIInv, ActiveIInv', CacheInv, [InvoiceNext]_invoiceVars
  PROVE  CacheInv'
<1>1. CASE UNCHANGED invoiceVars
  BY <1>1 DEF invoiceVars, CacheInv, ReceiptsFit, TotalsPositive, SawFits, Settled, NoneUnlinked, Settles,
              Caching, IsActive, IsMaster, Active, Masters, Total, LinkedTo, Completed,
              LinkAhead, SyncAhead, PostAhead
<1>2. ASSUME NEW n \in Amounts, PaySaleOnline(n)
      PROVE  CacheInv'
  BY <1>2, SaleOnlineCache
<1>3. ASSUME NEW c \in Clerks,
             \/ BeginMaster(c) \/ View(c)
             \/ \E i \in DOMAIN invoice : \/ BeginVoid(c, i)
                                          \/ \E n \in Amounts : BeginSub(c, i, n) \/ BeginPay(c, i, n)
                                          \/ \E p \in DOMAIN payment : BeginReceipt(c, i, p)
      PROVE  CacheInv'
  BY <1>3, BeginningsCache
<1>4. ASSUME NEW c \in Clerks,
             PayDerives(c) \/ PostDerives(c) \/ PostThrows(c) \/ SyncFinds(c) \/ SyncSums(c)
      PROVE  CacheInv'
  BY <1>4, ReadingsCache
<1>5. ASSUME NEW c \in Clerks, PayWrites(c) \/ PostWrites(c) \/ SyncWrites(c) \/ PayReceipt(c)
      PROVE  CacheInv'
  BY <1>5, WritingsCache
<1>6. ASSUME NEW c \in Clerks,
             \/ GeneratePaymentPayload(c) \/ PayInvoice(c) \/ \E n \in Amounts : PaySale(c, n)
             \/ \E p \in DOMAIN payment : Confirm(c, p)
      PROVE  CacheInv'
  BY <1>6, OnlineCache, PaymentsCache
<1>7. ASSUME NEW c \in Clerks, SyncLinks(c) \/ GenerateReceiptForInvoice(c)
      PROVE  CacheInv'
  BY <1>7, LinksCache, ReceiptCache
<1>8. ASSUME NEW c \in Clerks, GenerateMasterInvoice(c) \/ CreateSubInvoice(c) \/ VoidInvoice(c)
      PROVE  CacheInv'
  BY <1>8, CreatesCache, VoidCache
<1> QED
  BY <1>1, <1>2, <1>3, <1>4, <1>5, <1>6, <1>7, <1>8 DEF InvoiceNext

LEMMA QuietAgrees ==
  ASSUME ActiveIInv, CacheInv
  PROVE  CacheAgrees
<1>0. InvoiceTypeOK /\ RowsFit
  BY DEF ActiveIInv, ActiveInv
<1>1. ASSUME Quiet, ~threw, NEW i \in Active(DOMAIN invoice)
      PROVE  Caching(i, DeriveInvoiceAmounts(i))
  <2>1. \A c \in Clerks, t \in Task : desk[c] # t
    BY <1>1 DEF Quiet, Idle, Task, Op
  <2>2. ~SyncAhead /\ ~PostAhead(i)
    BY <2>1 DEF SyncAhead, PostAhead
  <2>3. i \in DOMAIN invoice /\ IsActive(i) /\ Settles(i)
    BY <1>1 DEF Active, IsActive, CacheInv, Settled
  <2>4. CASE IsMaster(i)
    <3>1. i \in Active(Masters)
      BY <2>3, <2>4, MasterIsActive
    <3>2. DeriveInvoiceAmounts(i) = Total(Completed)
      BY <1>0, <3>1, AllCounted
    <3> QED
      BY <2>2, <2>3, <2>4, <3>2 DEF Settles
  <2>5. CASE ~IsMaster(i)
    BY <2>2, <2>3, <2>5 DEF Settles, DeriveInvoiceAmounts
  <2> QED
    BY <2>4, <2>5
<1> QED
  BY <1>1 DEF CacheAgrees, Caching, CacheInv, ReceiptsFit

\* Where what must not overlap does not, and the staff are careful, every
\* active invoice caches what its payments say once no request runs, unless
\* the side effects of a payment failed; and a receipt is always of the invoice
\* its payment was made on (payInvoice, handlePostPayment,
\* syncSalePaymentsToMasterInvoice, generateReceiptForInvoice).
THEOREM CachesDoAgree ==
  ASSUME InvoicesApart, Careful
  PROVE  InvoiceSpec => []CacheAgrees
<1>1. InvoiceInit => ActiveIInv /\ CacheInv
  BY InitActive, InitCache
<1>2. ActiveIInv /\ CacheInv /\ [InvoiceNext]_invoiceVars => ActiveIInv' /\ CacheInv'
  BY ActiveStep, CacheStep
<1>3. ActiveIInv /\ CacheInv => CacheAgrees
  BY QuietAgrees
<1> QED
  BY <1>1, <1>2, <1>3, PTL DEF InvoiceSpec

-----------------------------------------------------------------------------
(* InstallmentPlan *)

USE TermsAssumption, AttemptsAssumption, AmountsAssumption

-----------------------------------------------------------------------------
(* The arithmetic of calculateInstallmentProgress *)

\* A month is counted as covered only when its whole amount was paid.
LEMMA MonthsArePaid ==
  ASSUME NEW m \in Nat, m > 0, NEW paid \in Int, NEW d \in Nat, paid \div m >= d
  PROVE  paid >= d * m
<1>1. paid = m * (paid \div m) + (paid % m) /\ paid % m \in 0 .. m - 1
  OBVIOUS
<1>2. paid \div m \in Int
  OBVIOUS
<1>3. \A k \in Int : k >= d => k * m >= d * m
  OBVIOUS
<1> QED
  BY <1>1, <1>2, <1>3

\* calculateInstallmentProgress returns a status and an integer.
LEMMA ProgressType ==
  ASSUME NEW t \in TermsType, NEW paid \in Int, NEW left \in Int, NEW amount \in Int
  PROVE  calculateInstallmentProgress(t, paid, left, amount)
           \in [status : SalesStatus, remainingInstallments : Int]
<1>1. ASSUME t.totalMonthlyPayment > 0
      PROVE  RemainingByBalance(t, paid) \in Nat
  BY <1>1 DEF RemainingByBalance, MonthsCovered, TermsType
<1> QED
  BY <1>1 DEF calculateInstallmentProgress, TermsType, SalesStatus

\* With a plan whose monthly payments reach the price, only a total that
\* reaches the price makes calculateInstallmentProgress answer COMPLETED.
LEMMA CompletedProgressIsPaid ==
  ASSUME NEW t \in TermsType, CoversPrice(t), NEW paid \in Nat, NEW left \in Int,
         NEW amount \in Nat, amount <= paid,
         calculateInstallmentProgress(t, paid, left, amount).status = "COMPLETED"
  PROVE  paid >= t.totalPrice
<1>1. CASE t.totalMonthlyPayment = 0
  BY <1>1 DEF calculateInstallmentProgress, TermsType, PaysPrice, AtStartingPrice
<1>2. CASE t.totalMonthlyPayment > 0 /\ ~PaysPrice(t, paid)
  <2>1. RemainingByBalance(t, paid) = 0
    BY <1>2 DEF calculateInstallmentProgress, TermsType, AtStartingPrice
  <2>2. paid \div t.totalMonthlyPayment >= t.totalInstallmentDuration
    BY <1>2, <2>1 DEF RemainingByBalance, MonthsCovered, TermsType
  <2>3. paid >= t.totalInstallmentDuration * t.totalMonthlyPayment
    BY <1>2, <2>2, MonthsArePaid DEF TermsType
  <2>4. t.totalInstallmentDuration * t.totalMonthlyPayment >= t.totalPrice
    BY <1>2 DEF CoversPrice, TermsType
  <2> QED
    BY <2>3, <2>4 DEF TermsType
<1>3. CASE PaysPrice(t, paid)
  BY <1>3 DEF PaysPrice
<1> QED
  BY <1>1, <1>2, <1>3 DEF TermsType

-----------------------------------------------------------------------------
(* Type correctness *)

\* What every action that changes the queue leaves of its type.
LEMMA QueueType ==
  ASSUME TypeOK, NEW job \in jobs
  PROVE  /\ JobFails(job) => jobs' \subseteq JobType /\ failed' \subseteq JobType /\ reruns' \in Nat
         /\ JobCompletes(job) => jobs' \subseteq JobType /\ failed' \subseteq JobType /\ reruns' \in Nat
<1>1. job \in JobType
  BY DEF TypeOK
<1>2. job.attempts > 1 => [job EXCEPT !.attempts = @ - 1] \in JobType
  BY <1>1 DEF JobType
<1> QED
  BY <1>1, <1>2 DEF TypeOK, JobFails, JobCompletes

LEMMA NextTypeOK == TypeOK /\ [Next]_vars => TypeOK'
<1> SUFFICES ASSUME TypeOK, [Next]_vars PROVE TypeOK'
  OBVIOUS
<1>0. faults' \subseteq PostPaymentFailure
  BY DEF TypeOK, Next, vars
<1>1. CASE InitialPayment
  BY <1>0, <1>1 DEF TypeOK, InitialPayment, RecordPayment, JobType, TermsType, saleColumns
<1>2. ASSUME NEW amount \in NextAmounts, CreateNextPayment(amount)
      PROVE  TypeOK'
  BY <1>0, <1>2 DEF TypeOK, NextAmounts, CreateNextPayment, RecordPayment, JobType, saleColumns
<1>3. ASSUME NEW job \in jobs, ProcessJob(job)
      PROVE  TypeOK'
  <2>1. CASE PostPaymentFailsAtRead(job)
    BY <1>0, <2>1, QueueType DEF TypeOK, PostPaymentFailsAtRead, saleColumns, payments
  <2>2. CASE PostPaymentFailsAtProgress(job)
    BY <1>0, <2>2, QueueType DEF TypeOK, PostPaymentFailsAtProgress, payments
  <2>3. CASE PostPayment(job)
    <3>1. totalPaid' \in Int /\ job.amount \in Int
      BY <2>3 DEF TypeOK, PostPayment, JobType
    <3>2. status' \in SalesStatus /\ remainingInstallments' \in Int
      BY <2>3, <3>1, ProgressType DEF TypeOK, PostPayment, ApplyProgress, Progress
    <3>3. jobs' \subseteq JobType /\ failed' \subseteq JobType /\ reruns' \in Nat
      BY <2>3, QueueType DEF PostPayment
    <3>4. congratulated' \in BOOLEAN
      BY <2>3 DEF TypeOK, PostPayment
    <3>5. UNCHANGED <<terms, payments>>
      BY <2>3 DEF PostPayment
    <3> QED
      BY <1>0, <3>1, <3>2, <3>3, <3>4, <3>5 DEF TypeOK, payments
  <2> QED
    BY <1>3, <2>1, <2>2, <2>3 DEF ProcessJob
<1>4. ASSUME NEW job \in failed, RetryFailedJob(job)
      PROVE  TypeOK'
  BY <1>0, <1>4 DEF TypeOK, RetryFailedJob, saleColumns, payments
<1>5. CASE CompleteSalePayment
  BY <1>0, <1>5 DEF TypeOK, CompleteSalePayment, queue, SalesStatus
<1>6. ASSUME NEW amount \in RestoreAmounts, RestoreSaleOverpayment(amount)
      PROVE  TypeOK'
  BY <1>0, <1>6 DEF TypeOK, RestoreSaleOverpayment, queue, TermsType
<1>7. ASSUME NEW amount \in NextAmounts, PurchasePower(amount)
      PROVE  TypeOK'
  <2>1. /\ paymentCount' \in Nat /\ collected' \in Int /\ totalPaid' \in Int
        /\ UNCHANGED <<terms, initialPaid, queue>>
    BY <1>7 DEF TypeOK, NextAmounts, PurchasePower
  <2>2. status' \in SalesStatus /\ remainingInstallments' \in Int
    BY <1>7, <2>1, ProgressType DEF TypeOK, NextAmounts, PurchasePower, ApplyProgress, Progress
  <2>3. congratulated' \in BOOLEAN
    BY <1>7 DEF TypeOK, PurchasePower
  <2> QED
    BY <1>0, <2>1, <2>2, <2>3 DEF TypeOK, queue
<1>8. CASE UNCHANGED vars
  BY <1>0, <1>8 DEF TypeOK, vars, saleColumns, payments, queue
<1> QED
  BY <1>1, <1>2, <1>3, <1>4, <1>5, <1>6, <1>7, <1>8 DEF Next, Step

\* The variables keep their types, whatever fails and is retried.
THEOREM TypeCorrect == Spec => []TypeOK
<1>1. Init => TypeOK
  <2> SUFFICES ASSUME Init PROVE TypeOK
    OBVIOUS
  <2>1. terms \in TermsType
    BY DEF Init
  <2>2. terms.totalInstallmentDuration \in Int
    BY <2>1 DEF TermsType
  <2>3. initialPaid \in BOOLEAN /\ congratulated \in BOOLEAN /\ faults \subseteq PostPaymentFailure
    BY FailuresAssumption DEF Init
  <2> QED
    BY <2>1, <2>2, <2>3 DEF Init, TypeOK, SalesStatus
<1> QED
  BY <1>1, NextTypeOK, PTL DEF Spec

-----------------------------------------------------------------------------
(* The total of a sale without unprocessed payments *)

\* A failing job stays in the queue or is kept for an operator.
LEMMA FailingJobIsKept ==
  ASSUME NEW job \in jobs, JobFails(job)
  PROVE  jobs' # {} \/ failed' # {}
BY DEF JobFails

LEMMA NextSettledTotal == TypeOK /\ SettledTotal /\ [Next]_vars => SettledTotal'
<1> SUFFICES ASSUME TypeOK, SettledTotal, [Next]_vars PROVE SettledTotal'
  OBVIOUS
<1>1. CASE InitialPayment
  BY <1>1 DEF SettledTotal, InitialPayment, RecordPayment
<1>2. ASSUME NEW amount \in NextAmounts, CreateNextPayment(amount)
      PROVE  SettledTotal'
  BY <1>2 DEF SettledTotal, CreateNextPayment, RecordPayment
<1>3. ASSUME NEW job \in jobs, ProcessJob(job)
      PROVE  SettledTotal'
  <2>1. CASE PostPaymentFailsAtRead(job)
    BY <2>1, FailingJobIsKept DEF SettledTotal, PostPaymentFailsAtRead
  <2>2. CASE PostPaymentFailsAtProgress(job)
    BY <2>2, FailingJobIsKept DEF SettledTotal, PostPaymentFailsAtProgress
  <2>3. CASE PostPayment(job)
    BY <2>3 DEF SettledTotal, PostPayment, payments
  <2> QED
    BY <1>3, <2>1, <2>2, <2>3 DEF ProcessJob
<1>4. ASSUME NEW job \in failed, RetryFailedJob(job)
      PROVE  SettledTotal'
  BY <1>4 DEF SettledTotal, RetryFailedJob
<1>5. CASE CompleteSalePayment
  BY <1>5 DEF TypeOK, SettledTotal, CompleteSalePayment, queue
<1>6. ASSUME NEW amount \in RestoreAmounts, RestoreSaleOverpayment(amount)
      PROVE  SettledTotal'
  BY <1>6 DEF TypeOK, SettledTotal, RestoreSaleOverpayment, queue
<1>7. ASSUME NEW amount \in NextAmounts, PurchasePower(amount)
      PROVE  SettledTotal'
  BY <1>7 DEF TypeOK, SettledTotal, PurchasePower, queue
<1>8. CASE UNCHANGED vars
  BY <1>8 DEF SettledTotal, vars, saleColumns, payments, queue
<1> QED
  BY <1>1, <1>2, <1>3, <1>4, <1>5, <1>6, <1>7, <1>8 DEF Next, Step

\* Whatever fails and is retried, paid by hand or restored: a sale none of
\* whose payments waits for post-processing has the total of its payments.
THEOREM TotalIsSettled == Spec => []SettledTotal
<1>1. Init => SettledTotal
  BY DEF Init, SettledTotal
<1> QED
  BY <1>1, NextSettledTotal, TypeCorrect, PTL DEF Spec

-----------------------------------------------------------------------------
(* A COMPLETED sale is paid *)

\* Until restoreSaleOverpayment is called the total never runs ahead of the payments
\* nor goes back, and no job carries more than was collected.
Paid ==
  /\ CoversPrice(terms)
  /\ totalPaid \in Nat /\ collected \in Nat
  /\ totalPaid <= collected
  /\ \A job \in jobs \cup failed : job.amount <= collected
  /\ status = "COMPLETED" => totalPaid >= terms.totalPrice

\* Jobs that fail or complete carry the amounts they had.
LEMMA AmountsKept ==
  ASSUME TypeOK, NEW job \in jobs, JobFails(job) \/ JobCompletes(job), NEW bound \in Nat,
         \A other \in jobs \cup failed : other.amount <= bound
  PROVE  \A other \in jobs' \cup failed' : other.amount <= bound
<1>1. job \in JobType
  BY DEF TypeOK
<1>2. [job EXCEPT !.attempts = @ - 1].amount = job.amount
  BY <1>1 DEF JobType
<1> QED
  BY <1>2 DEF JobFails, JobCompletes

LEMMA NextPaid ==
  ASSUME TypeOK, Paid, [Next]_vars,
         \A amount \in RestoreAmounts : ~RestoreSaleOverpayment(amount)
  PROVE  Paid'
<1>0. terms \in TermsType
  BY DEF TypeOK
<1>1. ASSUME NEW amount \in Nat, NEW attempts, RecordPayment(amount, attempts), UNCHANGED saleColumns,
             UNCHANGED failed
      PROVE  Paid'
  <2>1. collected' \in Nat /\ collected <= collected' /\ amount <= collected'
    BY <1>1 DEF RecordPayment, Paid
  <2>2. \A job \in jobs' \cup failed' : job.amount <= collected'
    <3> SUFFICES ASSUME NEW job \in jobs' \cup failed' PROVE job.amount <= collected'
      OBVIOUS
    <3>1. CASE job \in jobs \cup failed
      <4>1. job.amount \in Nat
        BY <3>1 DEF TypeOK, JobType
      <4> QED
        BY <2>1, <3>1, <4>1 DEF Paid
    <3>2. CASE job = [payment |-> paymentCount + 1, amount |-> amount, attempts |-> attempts]
      BY <2>1, <3>2
    <3> QED
      BY <1>1, <3>1, <3>2 DEF RecordPayment
  <2> QED
    BY <1>1, <2>1, <2>2 DEF Paid, saleColumns
<1>2. CASE InitialPayment
  BY <1>0, <1>1, <1>2 DEF InitialPayment, TermsType
<1>3. ASSUME NEW amount \in NextAmounts, CreateNextPayment(amount)
      PROVE  Paid'
  BY <1>1, <1>3 DEF CreateNextPayment, NextAmounts
<1>4. ASSUME NEW job \in jobs, ProcessJob(job)
      PROVE  Paid'
  <2>1. JobFails(job) \/ JobCompletes(job)
    BY <1>4 DEF ProcessJob, PostPaymentFailsAtRead, PostPaymentFailsAtProgress, PostPayment
  <2>2. \A other \in jobs' \cup failed' : other.amount <= collected
    BY <2>1, AmountsKept DEF Paid
  <2>3. CASE PostPaymentFailsAtRead(job)
    BY <2>2, <2>3 DEF Paid, PostPaymentFailsAtRead, saleColumns, payments
  <2>4. CASE PostPaymentFailsAtProgress(job)
    BY <1>0, <2>2, <2>4 DEF Paid, PostPaymentFailsAtProgress, payments, TermsType
  <2>5. CASE PostPayment(job)
    <3>1. totalPaid' = collected /\ collected' = collected /\ terms' = terms
      BY <2>5 DEF PostPayment, payments
    <3>2. job.amount \in Nat /\ job.amount <= collected
      BY DEF TypeOK, Paid, JobType
    <3>3. status' = "COMPLETED" => collected >= terms.totalPrice
      BY <1>0, <2>5, <3>1, <3>2, CompletedProgressIsPaid
         DEF TypeOK, Paid, PostPayment, ApplyProgress, Progress
    <3> QED
      BY <2>2, <3>1, <3>3 DEF Paid
  <2> QED
    BY <1>4, <2>3, <2>4, <2>5 DEF ProcessJob
<1>5. ASSUME NEW job \in failed, RetryFailedJob(job)
      PROVE  Paid'
  BY <1>5 DEF Paid, RetryFailedJob, saleColumns, payments
<1>6. CASE CompleteSalePayment
  <2>1. /\ totalPaid' = totalPaid + CompletionAmount /\ collected' = collected + CompletionAmount
        /\ terms' = terms /\ jobs' = jobs /\ failed' = failed
    BY <1>6 DEF CompleteSalePayment, queue
  <2>2. totalPaid' \in Nat /\ collected' \in Nat /\ totalPaid' <= collected'
    BY <2>1 DEF Paid
  <2>3. status' = "COMPLETED" => totalPaid' >= terms.totalPrice
    BY <1>0, <1>6, <2>1 DEF Paid, CompleteSalePayment, TermsType
  <2>4. \A job \in jobs \cup failed : job.amount <= collected'
    BY <2>1 DEF Paid, TypeOK, JobType
  <2> QED
    BY <2>1, <2>2, <2>3, <2>4 DEF Paid
<1>7. ASSUME NEW amount \in NextAmounts, PurchasePower(amount)
      PROVE  Paid'
  <2>1. /\ totalPaid' = totalPaid + amount /\ collected' = collected + amount
        /\ terms' = terms /\ jobs' = jobs /\ failed' = failed /\ amount \in Nat
    BY <1>7 DEF PurchasePower, queue, NextAmounts
  <2>2. /\ totalPaid' \in Nat /\ collected' \in Nat /\ totalPaid' <= collected'
        /\ amount <= totalPaid' /\ totalPaid <= totalPaid'
    BY <2>1 DEF Paid
  <2>3. status' = "COMPLETED" => totalPaid' >= terms.totalPrice
    <3>1. CASE ApplyProgress(amount)
      BY <1>0, <2>1, <2>2, <3>1, CompletedProgressIsPaid DEF TypeOK, Paid, ApplyProgress, Progress
    <3>2. CASE status' = status
      BY <1>0, <2>2, <3>2 DEF Paid, TermsType
    <3> QED
      BY <1>7, <3>1, <3>2 DEF PurchasePower
  <2>4. \A job \in jobs \cup failed : job.amount <= collected'
    BY <2>1 DEF Paid, TypeOK, JobType
  <2> QED
    BY <2>1, <2>2, <2>3, <2>4 DEF Paid
<1>8. CASE UNCHANGED vars
  BY <1>8 DEF Paid, vars, saleColumns, payments, queue
<1> QED
  BY <1>2, <1>3, <1>4, <1>5, <1>6, <1>7, <1>8 DEF Next, Step

\* A plan is recognised as restored: lowering the starting price of a plan
\* never gives another plan.
PlansApart ==
  \A t \in Terms, given \in Nat \ {0} :
    [t EXCEPT !.installmentStartingPrice = @ - given] \notin Terms

\* Money was given back: the starting price is below the plan's.
Lowered ==
  \E t \in Terms, given \in Nat \ {0} :
    terms = [t EXCEPT !.installmentStartingPrice = @ - given]

PaidUnlessLowered == Lowered \/ (terms \in Terms /\ Paid)

\* Only restoreSaleOverpayment touches the terms, and it lowers them.
LEMMA NextTerms ==
  ASSUME TypeOK, [Next]_vars, Lowered \/ terms \in Terms
  PROVE  \/ terms' = terms /\ \A amount \in RestoreAmounts : ~RestoreSaleOverpayment(amount)
         \/ Lowered'
<1>1. ASSUME NEW amount \in RestoreAmounts, RestoreSaleOverpayment(amount)
      PROVE  Lowered'
  <2>1. terms' = [terms EXCEPT !.installmentStartingPrice = @ - amount] /\ amount \in Nat \ {0}
    BY <1>1 DEF RestoreSaleOverpayment
  <2>2. CASE terms \in Terms
    BY <2>1, <2>2 DEF Lowered
  <2>3. CASE Lowered
    <3>1. PICK t \in Terms, given \in Nat \ {0} :
            terms = [t EXCEPT !.installmentStartingPrice = @ - given]
      BY <2>3 DEF Lowered
    <3>2. given + amount \in Nat \ {0} /\ t \in TermsType
      BY <2>1
    <3>3. terms' = [t EXCEPT !.installmentStartingPrice = @ - (given + amount)]
      <4>1. /\ t.installmentStartingPrice \in Int
            /\ \A x \in Int : (x - given) - amount = x - (given + amount)
        BY <3>2 DEF TermsType
      <4>2. terms.installmentStartingPrice = t.installmentStartingPrice - given
        BY <3>1, <3>2 DEF TermsType
      <4>3. terms.installmentStartingPrice - amount = t.installmentStartingPrice - (given + amount)
        BY <4>1, <4>2
      <4> QED
        BY <2>1, <3>1, <4>3
    <3> QED
      BY <3>2, <3>3 DEF Lowered
  <2> QED
    BY <2>2, <2>3
<1>2. CASE /\ \A amount \in RestoreAmounts : ~RestoreSaleOverpayment(amount)
           /\ Step
  <2>1. terms' = terms
    BY <1>2 DEF Step, InitialPayment, CreateNextPayment, ProcessJob, PostPaymentFailsAtRead,
                PostPaymentFailsAtProgress, PostPayment, RetryFailedJob, PurchasePower,
                CompleteSalePayment, saleColumns
  <2> QED
    BY <1>2, <2>1
<1>3. CASE UNCHANGED vars
  <2>1. terms' = terms
    BY <1>3 DEF vars, saleColumns
  <2>2. Lowered => Lowered'
    BY <2>1 DEF Lowered
  <2>3. \/ \A amount \in RestoreAmounts : ~RestoreSaleOverpayment(amount)
        \/ Lowered'
    BY <1>1
  <2> QED
    BY <2>1, <2>3
<1> QED
  BY <1>1, <1>2, <1>3 DEF Next

LEMMA NextPaidUnlessLowered ==
  ASSUME TypeOK, PaidUnlessLowered, [Next]_vars
  PROVE  PaidUnlessLowered'
<1>1. CASE Lowered'
  BY <1>1 DEF PaidUnlessLowered
<1>2. CASE terms' = terms /\ \A amount \in RestoreAmounts : ~RestoreSaleOverpayment(amount)
  <2>1. Lowered => Lowered'
    BY <1>2 DEF Lowered
  <2>2. terms \in Terms /\ Paid => terms' \in Terms /\ Paid'
    BY <1>2, NextPaid
  <2> QED
    BY <2>1, <2>2 DEF PaidUnlessLowered
<1> QED
  BY <1>1, <1>2, NextTerms DEF PaidUnlessLowered

LEMMA InitPaid ==
  ASSUME \A t \in Terms : CoversPrice(t), Init
  PROVE  PaidUnlessLowered
BY DEF Init, Paid, PaidUnlessLowered

LEMMA RestoredOrPaid ==
  ASSUME PlansApart, PaidUnlessLowered, ~Restored
  PROVE  terms \in Terms /\ Paid
BY DEF PaidUnlessLowered, Lowered, PlansApart, Restored

\* A sale to which nothing was given back is COMPLETED only when its total
\* reaches its price, provided every plan's monthly payments reach the price.
THEOREM CompletedIsPaid ==
  ASSUME \A t \in Terms : CoversPrice(t), PlansApart
  PROVE  Spec => []CompletedMeansPaid
<1>1. Init => PaidUnlessLowered
  BY InitPaid
<1>2. TypeOK /\ PaidUnlessLowered /\ [Next]_vars => PaidUnlessLowered'
  BY NextPaidUnlessLowered
<1>3. PaidUnlessLowered => CompletedMeansPaid
  BY RestoredOrPaid DEF Paid, CompletedMeansPaid
<1> QED
  BY <1>1, <1>2, <1>3, TypeCorrect, PTL DEF Spec

-----------------------------------------------------------------------------
(* A COMPLETED sale stays COMPLETED *)

\* The starting price of a plan with instalments is less than its price.
StartsBelowPrice(t) == t.installmentStartingPrice > 0 => t.installmentStartingPrice < t.totalPrice

\* Then a total that reaches the price is always answered with COMPLETED.
LEMMA PaidProgressIsCompleted ==
  ASSUME NEW t \in TermsType, StartsBelowPrice(t), NEW paid \in Nat, paid >= t.totalPrice,
         NEW left, NEW amount
  PROVE  calculateInstallmentProgress(t, paid, left, amount).status = "COMPLETED"
<1>1. ~AtStartingPrice(t, paid) /\ PaysPrice(t, paid)
  BY DEF AtStartingPrice, PaysPrice, StartsBelowPrice, TermsType
<1> QED
  BY <1>1 DEF calculateInstallmentProgress

LEMMA NextFinal ==
  ASSUME TypeOK, Paid, terms \in Terms, StartsBelowPrice(terms), status = "COMPLETED", Next
  PROVE  status' = "COMPLETED"
<1>1. /\ terms \in TermsType /\ totalPaid \in Nat /\ totalPaid >= terms.totalPrice
      /\ collected \in Nat /\ collected >= totalPaid
  BY DEF TypeOK, Paid
<1>2. ASSUME NEW paid \in Nat, paid >= totalPaid, terms' = terms, totalPaid' = paid,
             NEW amount, ApplyProgress(amount)
      PROVE  status' = "COMPLETED"
  <2>1. paid >= terms.totalPrice
    BY <1>1, <1>2 DEF TermsType
  <2> QED
    BY <1>1, <1>2, <2>1, PaidProgressIsCompleted DEF ApplyProgress, Progress
<1>3. ASSUME NEW job \in jobs, ProcessJob(job)
      PROVE  status' = "COMPLETED"
  <2>1. CASE PostPayment(job)
    BY <1>1, <1>2, <2>1 DEF PostPayment
  <2>2. CASE PostPaymentFailsAtRead(job) \/ PostPaymentFailsAtProgress(job)
    BY <2>2 DEF PostPaymentFailsAtRead, PostPaymentFailsAtProgress, saleColumns
  <2> QED
    BY <1>3, <2>1, <2>2 DEF ProcessJob
<1>4. ASSUME NEW amount \in NextAmounts, PurchasePower(amount)
      PROVE  status' = "COMPLETED"
  <2>1. totalPaid + amount \in Nat /\ totalPaid + amount >= totalPaid
    BY <1>1 DEF NextAmounts
  <2>2. terms' = terms /\ totalPaid' = totalPaid + amount
    BY <1>4 DEF PurchasePower
  <2> QED
    BY <1>2, <1>4, <2>1, <2>2 DEF PurchasePower
<1>5. CASE CompleteSalePayment
  BY <1>5 DEF CompleteSalePayment
<1>6. CASE \/ InitialPayment
           \/ \E amount \in NextAmounts : CreateNextPayment(amount)
           \/ \E job \in failed : RetryFailedJob(job)
           \/ \E amount \in RestoreAmounts : RestoreSaleOverpayment(amount)
  BY <1>6 DEF InitialPayment, CreateNextPayment, RetryFailedJob, RestoreSaleOverpayment, saleColumns
<1> QED
  BY <1>3, <1>4, <1>5, <1>6 DEF Next, Step

\* No job, however often it failed and whenever it is retried, and no later
\* payment reopens a sale that was COMPLETED, provided every plan's monthly
\* payments reach the price, its starting price does not, and nothing was
\* given back.
THEOREM CompletedStays ==
  ASSUME \A t \in Terms : CoversPrice(t) /\ StartsBelowPrice(t), PlansApart
  PROVE  Spec => CompletedIsFinal
<1>1. Init => PaidUnlessLowered
  BY InitPaid
<1>2. TypeOK /\ PaidUnlessLowered /\ [Next]_vars => PaidUnlessLowered'
  BY NextPaidUnlessLowered
<1>3. TypeOK /\ PaidUnlessLowered /\ [Next]_vars
        => [status = "COMPLETED" /\ ~Restored => status' = "COMPLETED"]_vars
  <2> SUFFICES ASSUME TypeOK, PaidUnlessLowered, Next, status = "COMPLETED", ~Restored
               PROVE  status' = "COMPLETED"
    OBVIOUS
  <2>1. terms \in Terms /\ Paid
    BY RestoredOrPaid
  <2> QED
    BY <2>1, NextFinal
<1> QED
  BY <1>1, <1>2, <1>3, TypeCorrect, PTL DEF Spec, CompletedIsFinal

-----------------------------------------------------------------------------
(* The congratulation *)

\* A plan without monthly payments is paid by its first payment.
PaidAtOnce(t) ==
  t.totalMonthlyPayment = 0 =>
    /\ t.totalAmountToPay >= t.totalPrice
    /\ hasInstallmentItems(t) => t.installmentStartingPrice >= t.totalPrice

\* A total made of completeSalePayment's amounts, at least one, and of monthly
\* payments.
Completions(t, paid) ==
  \E a \in Nat \ {0}, b \in Nat : paid = a * CompletionAmount + b * t.totalMonthlyPayment

\* Only the first payment makes the total equal to the starting price, and
\* then the plan has more months than that payment's job has runs.
StartsOnce(t) ==
  t.installmentStartingPrice > 0 =>
    /\ t.totalAmountToPay >= t.installmentStartingPrice
    /\ \A a \in Nat \ {0}, b \in Nat :
         a + b > 1 => a * CompletionAmount + b * t.totalMonthlyPayment # t.installmentStartingPrice
    /\ t.installmentStartingPrice < t.totalPrice => t.totalInstallmentDuration > MaxAttempts + MaxReruns

\* A total below the starting price began with completeSalePayment.
Begun(t, paid) == paid = 0 \/ paid >= t.installmentStartingPrice \/ Completions(t, paid)

\* While the first payment is the only one, each run of its job has taken a
\* month from the plan: the attempts made, and the operator's repetitions.
MonthsLeft ==
  /\ \A job \in jobs :
       /\ jobs = {job} /\ failed = {}
       /\ remainingInstallments >= terms.totalInstallmentDuration - (MaxAttempts - job.attempts) - reruns
  /\ \A job \in failed :
       /\ failed = {job} /\ jobs = {} /\ job.attempts = 1
       /\ remainingInstallments >= terms.totalInstallmentDuration - MaxAttempts - reruns

Started ==
  /\ totalPaid = 0 => remainingInstallments = terms.totalInstallmentDuration
  /\ collected = 0 => jobs = {} /\ failed = {}
  /\ Begun(terms, totalPaid) /\ Begun(terms, collected)
  /\ collected = terms.installmentStartingPrice /\ collected < terms.totalPrice => MonthsLeft

Steady ==
  /\ reruns <= MaxReruns
  /\ terms.totalMonthlyPayment = 0 => \A job \in jobs \cup failed : job.amount >= terms.totalPrice
  /\ terms.installmentStartingPrice > 0 => Started

LEMMA CompletionsGrow ==
  ASSUME NEW t \in TermsType, NEW paid \in Nat, paid = 0 \/ Completions(t, paid)
  PROVE  /\ Completions(t, paid + CompletionAmount)
         /\ paid # 0 => Completions(t, paid + t.totalMonthlyPayment)
         /\ paid # 0 /\ StartsOnce(t) /\ t.installmentStartingPrice > 0
              => /\ paid + CompletionAmount # t.installmentStartingPrice
                 /\ paid + t.totalMonthlyPayment # t.installmentStartingPrice
<1> DEFINE c == CompletionAmount
           m == t.totalMonthlyPayment
           s == t.installmentStartingPrice
<1>1. c \in Nat \ {0} /\ m \in Nat
  BY DEF TermsType
<1> HIDE DEF c, m
<1>2. CASE paid = 0
  <2>1. paid + c = 1 * c + 0 * m
    BY <1>1, <1>2
  <2>2. 1 \in Nat \ {0} /\ 0 \in Nat
    OBVIOUS
  <2> QED
    BY <1>2, <2>1, <2>2 DEF Completions, c, m
<1>3. CASE Completions(t, paid)
  <2>1. PICK a \in Nat \ {0}, b \in Nat : paid = a * c + b * m
    BY <1>3 DEF Completions, c, m
  <2>2. /\ a + 1 \in Nat \ {0} /\ b + 1 \in Nat
        /\ (a + 1) + b > 1 /\ a + (b + 1) > 1
    OBVIOUS
  <2>3. a * c \in Nat /\ b * m \in Nat /\ (a + 1) * c = a * c + c /\ (b + 1) * m = b * m + m
    BY <1>1
  <2>4. paid + c = (a + 1) * c + b * m /\ paid + m = a * c + (b + 1) * m
    BY <1>1, <2>1, <2>3
  <2>5. Completions(t, paid + c) /\ Completions(t, paid + m)
    BY <2>2, <2>4 DEF Completions, c, m
  <2>6. StartsOnce(t) /\ s > 0 => (a + 1) * c + b * m # s /\ a * c + (b + 1) * m # s
    BY <2>2 DEF StartsOnce, c, m
  <2> QED
    BY <2>4, <2>5, <2>6 DEF c, m
<1> QED
  BY <1>2, <1>3

\* A payment: it is never nothing, and only the first reaches the starting
\* price exactly.
LEMMA BegunPays ==
  ASSUME NEW t \in TermsType, StartsOnce(t), t.installmentStartingPrice > 0,
         NEW paid \in Nat, Begun(t, paid), NEW amount \in Nat,
         \/ amount >= t.installmentStartingPrice
         \/ amount = CompletionAmount
         \/ amount = t.totalMonthlyPayment /\ amount # 0 /\ paid # 0
  PROVE  /\ Begun(t, paid + amount) /\ paid + amount > 0
         /\ paid # 0 => paid + amount # t.installmentStartingPrice
<1> DEFINE s == t.installmentStartingPrice
<1>1. s \in Int /\ s > 0 /\ amount > 0
  BY DEF TermsType
<1> HIDE DEF s
<1>2. CASE paid >= s \/ amount >= s
  <2>1. paid + amount >= s /\ (paid # 0 => paid + amount # s)
    BY <1>1, <1>2
  <2> QED
    BY <1>1, <2>1 DEF Begun, s
<1>3. CASE ~(paid >= s) /\ ~(amount >= s)
  <2>1. paid = 0 \/ Completions(t, paid)
    BY <1>3 DEF Begun, s
  <2>2. CASE amount = CompletionAmount
    BY <1>1, <2>1, <2>2, CompletionsGrow DEF Begun, s
  <2>3. CASE amount = t.totalMonthlyPayment /\ paid # 0
    BY <1>1, <2>1, <2>3, CompletionsGrow DEF Begun, s
  <2> QED
    BY <1>3, <2>2, <2>3 DEF s
<1> QED
  BY <1>2, <1>3

\* With a plan whose monthly payments reach the price, the arithmetic leaves no
\* month only when the total reaches it, unless the first payment takes the
\* plan's last month.
LEMMA NoMonthIsPaid ==
  ASSUME NEW t \in TermsType, CoversPrice(t), NEW paid \in Nat, NEW left \in Int,
         NEW amount \in Nat, amount <= paid,
         t.totalMonthlyPayment = 0 => paid >= t.totalPrice,
         paid = t.installmentStartingPrice /\ paid > 0 /\ paid < t.totalPrice => left # 1,
         calculateInstallmentProgress(t, paid, left, amount).remainingInstallments = 0
  PROVE  paid >= t.totalPrice
<1> SUFFICES ASSUME paid < t.totalPrice
             PROVE  FALSE
  BY DEF TermsType
<1>1. t.totalMonthlyPayment # 0 /\ ~(t.totalMonthlyPayment <= 0) /\ ~PaysPrice(t, paid)
  BY DEF TermsType, PaysPrice
<1>2. CASE AtStartingPrice(t, paid)
  <2>1. calculateInstallmentProgress(t, paid, left, amount).remainingInstallments = left - 1
    BY <1>1, <1>2 DEF calculateInstallmentProgress
  <2>2. left # 1
    BY <1>2 DEF AtStartingPrice
  <2> QED
    BY <2>1, <2>2
<1>3. CASE ~AtStartingPrice(t, paid)
  <2>1. calculateInstallmentProgress(t, paid, left, amount).remainingInstallments = RemainingByBalance(t, paid)
    BY <1>1, <1>3 DEF calculateInstallmentProgress
  <2>2. calculateInstallmentProgress(t, paid, left, amount).status = "COMPLETED"
    BY <1>1, <1>3, <2>1 DEF calculateInstallmentProgress
  <2> QED
    BY <2>2, CompletedProgressIsPaid DEF TermsType
<1> QED
  BY <1>2, <1>3

\* The first payment takes one month.
LEMMA StartTakesAMonth ==
  ASSUME NEW t \in TermsType, NEW paid \in Nat, NEW left \in Int, NEW amount \in Nat, amount <= paid,
         paid = t.installmentStartingPrice, paid > 0, paid < t.totalPrice
  PROVE  calculateInstallmentProgress(t, paid, left, amount).remainingInstallments = left - 1
BY DEF calculateInstallmentProgress, AtStartingPrice, TermsType

\* A run of the only job takes one month at most, and keeps it the only one.
LEMMA RunKeepsMonths ==
  ASSUME TypeOK, MonthsLeft, NEW job \in jobs, JobFails(job) \/ JobCompletes(job), terms' = terms,
         remainingInstallments' \in Int, remainingInstallments' >= remainingInstallments - 1
  PROVE  MonthsLeft'
<1> DEFINE D == terms.totalInstallmentDuration
<1>1. /\ jobs = {job} /\ failed = {} /\ job \in JobType /\ job.attempts \in Nat \ {0}
      /\ D \in Nat /\ remainingInstallments \in Int /\ reruns \in Nat /\ MaxAttempts \in Nat
      /\ remainingInstallments >= D - (MaxAttempts - job.attempts) - reruns
  BY DEF TypeOK, MonthsLeft, JobType, TermsType
<1>2. reruns' = reruns /\ terms'.totalInstallmentDuration = D
  BY DEF JobFails, JobCompletes
<1> HIDE DEF D
<1>3. CASE JobFails(job) /\ job.attempts > 1
  <2> DEFINE again == [job EXCEPT !.attempts = @ - 1]
  <2>1. jobs' = {again} /\ failed' = {} /\ again.attempts = job.attempts - 1
    BY <1>1, <1>3 DEF JobFails, JobType
  <2> HIDE DEF again
  <2>2. remainingInstallments' >= D - (MaxAttempts - again.attempts) - reruns
    BY <1>1, <2>1
  <2> QED
    BY <1>2, <2>1, <2>2 DEF MonthsLeft
<1>4. CASE JobFails(job) /\ ~(job.attempts > 1)
  <2>1. jobs' = {} /\ failed' = {job} /\ job.attempts = 1
    BY <1>1, <1>4 DEF JobFails
  <2>2. remainingInstallments' >= D - MaxAttempts - reruns
    BY <1>1, <2>1
  <2> QED
    BY <1>2, <2>1, <2>2 DEF MonthsLeft
<1>5. CASE JobCompletes(job)
  BY <1>1, <1>5 DEF JobCompletes, MonthsLeft
<1> QED
  BY <1>3, <1>4, <1>5

\* Jobs that fail or complete carry the amounts they had.
LEMMA AmountsSuffice ==
  ASSUME TypeOK, NEW job \in jobs, JobFails(job) \/ JobCompletes(job), NEW bound,
         \A other \in jobs \cup failed : other.amount >= bound
  PROVE  \A other \in jobs' \cup failed' : other.amount >= bound
<1>1. job \in JobType
  BY DEF TypeOK
<1>2. [job EXCEPT !.attempts = @ - 1].amount = job.amount
  BY <1>1 DEF JobType
<1> QED
  BY <1>2 DEF JobFails, JobCompletes

\* A payment that is recorded with its job.
LEMMA RecordSteady ==
  ASSUME TypeOK, Paid, Steady, StartsOnce(terms), NEW amount \in Nat, NEW attempts \in {1, MaxAttempts},
         RecordPayment(amount, attempts), UNCHANGED <<saleColumns, failed, reruns>>,
         terms.totalMonthlyPayment = 0 => amount >= terms.totalPrice,
         \/ amount >= terms.installmentStartingPrice
         \/ amount = terms.totalMonthlyPayment /\ amount # 0 /\ totalPaid # 0
  PROVE  Steady'
<1> DEFINE new == [payment |-> paymentCount + 1, amount |-> amount, attempts |-> attempts]
<1>1. /\ collected' = collected + amount /\ jobs' = jobs \cup {new} /\ failed' = failed /\ reruns' = reruns
      /\ terms' = terms /\ totalPaid' = totalPaid /\ remainingInstallments' = remainingInstallments
      /\ new.amount = amount /\ new.attempts = attempts
  BY DEF RecordPayment, saleColumns
<1> HIDE DEF new
<1>2. terms \in TermsType /\ collected \in Nat /\ totalPaid \in Nat /\ totalPaid <= collected
  BY DEF TypeOK, Paid
<1>3. terms.totalMonthlyPayment = 0 => \A job \in jobs' \cup failed' : job.amount >= terms.totalPrice
  BY <1>1 DEF Steady
<1>4. ASSUME terms.installmentStartingPrice > 0
      PROVE  Started'
  <2>1. Started
    BY <1>4 DEF Steady
  <2>2. collected # 0 \/ totalPaid = 0
    BY <1>2
  <2>3. /\ Begun(terms, collected + amount) /\ collected + amount > 0
        /\ collected # 0 => collected + amount # terms.installmentStartingPrice
    BY <1>2, <1>4, <2>1, <2>2, BegunPays DEF Started
  <2>4. ASSUME collected + amount = terms.installmentStartingPrice
        PROVE  MonthsLeft'
    <3>1. collected = 0 /\ totalPaid = 0
      BY <1>2, <2>3, <2>4
    <3>2. jobs' = {new} /\ failed' = {} /\ remainingInstallments' = terms.totalInstallmentDuration
      BY <1>1, <2>1, <3>1 DEF Started
    <3>3. terms.totalInstallmentDuration \in Nat /\ reruns \in Nat /\ attempts \in Nat /\ attempts <= MaxAttempts
      BY <1>2 DEF TypeOK, TermsType
    <3>4. terms.totalInstallmentDuration >= terms.totalInstallmentDuration - (MaxAttempts - attempts) - reruns
      BY <3>3
    <3> QED
      BY <1>1, <3>2, <3>4 DEF MonthsLeft
  <2>5. collected' # 0
    BY <1>1, <2>3
  <2> QED
    BY <1>1, <2>1, <2>3, <2>4, <2>5 DEF Started
<1> QED
  BY <1>1, <1>3, <1>4 DEF Steady

\* A job of the queue that runs.
LEMMA RunSteady ==
  ASSUME TypeOK, Paid, Steady, StartsOnce(terms), NEW job \in jobs, ProcessJob(job)
  PROVE  Steady'
<1>1. /\ JobFails(job) \/ JobCompletes(job)
      /\ terms' = terms /\ collected' = collected /\ (totalPaid' = totalPaid \/ totalPaid' = collected)
  BY DEF ProcessJob, PostPaymentFailsAtRead, PostPaymentFailsAtProgress, PostPayment, saleColumns, payments
<1>2. reruns' = reruns
  BY <1>1 DEF JobFails, JobCompletes
<1>3. terms.totalMonthlyPayment = 0 => \A other \in jobs' \cup failed' : other.amount >= terms.totalPrice
  BY <1>1, AmountsSuffice DEF Steady
<1>4. /\ terms \in TermsType /\ collected \in Nat /\ totalPaid \in Nat /\ totalPaid <= collected
      /\ job.amount \in Nat /\ job.amount <= collected /\ remainingInstallments \in Int
  BY DEF TypeOK, Paid, JobType
<1>5. ASSUME terms.installmentStartingPrice > 0
      PROVE  Started'
  <2>1. Started /\ collected # 0
    BY <1>5 DEF Steady, Started
  <2>2. Begun(terms, totalPaid') /\ Begun(terms, collected')
    BY <1>1, <2>1 DEF Started
  <2>3. totalPaid' = 0 => remainingInstallments' = terms.totalInstallmentDuration
    <3>1. CASE totalPaid' = collected
      BY <2>1, <3>1
    <3>2. CASE totalPaid' = totalPaid /\ totalPaid # collected
      <4>1. PostPaymentFailsAtRead(job)
        BY <3>2 DEF ProcessJob, PostPaymentFailsAtProgress, PostPayment
      <4> QED
        BY <2>1, <4>1 DEF PostPaymentFailsAtRead, saleColumns, Started
    <3> QED
      BY <1>1, <3>1, <3>2
  <2>4. ASSUME collected = terms.installmentStartingPrice, collected < terms.totalPrice
        PROVE  MonthsLeft'
    <3>1. MonthsLeft
      BY <2>1, <2>4 DEF Started
    <3>2. remainingInstallments' = remainingInstallments \/ remainingInstallments' = remainingInstallments - 1
      <4>1. CASE PostPayment(job)
        <5>1. totalPaid' = collected
              /\ remainingInstallments' = calculateInstallmentProgress(terms, totalPaid', remainingInstallments, job.amount).remainingInstallments
          BY <4>1 DEF PostPayment, ApplyProgress, Progress
        <5>2. collected > 0
          BY <1>4, <2>1
        <5> QED
          BY <1>4, <2>4, <5>1, <5>2, StartTakesAMonth
      <4>2. CASE PostPaymentFailsAtRead(job) \/ PostPaymentFailsAtProgress(job)
        BY <4>2 DEF PostPaymentFailsAtRead, PostPaymentFailsAtProgress, saleColumns
      <4> QED
        BY <4>1, <4>2 DEF ProcessJob
    <3>3. remainingInstallments' \in Int /\ remainingInstallments' >= remainingInstallments - 1
      BY <1>4, <3>2
    <3> QED
      BY <1>1, <3>1, <3>3, RunKeepsMonths
  <2> QED
    BY <1>1, <2>1, <2>2, <2>3, <2>4 DEF Started
<1> QED
  BY <1>1, <1>2, <1>3, <1>5 DEF Steady

\* A payment whose total is written with it, without a job.
LEMMA PaidByHandSteady ==
  ASSUME TypeOK, Paid, Steady, StartsOnce(terms), NEW amount \in Nat,
         collected' = collected + amount, totalPaid' = totalPaid + amount, UNCHANGED <<terms, queue>>,
         \/ amount >= terms.installmentStartingPrice
         \/ amount = CompletionAmount
         \/ amount = terms.totalMonthlyPayment /\ amount # 0 /\ totalPaid # 0
  PROVE  Steady'
<1>1. /\ terms \in TermsType /\ collected \in Nat /\ totalPaid \in Nat /\ totalPaid <= collected
      /\ jobs' = jobs /\ failed' = failed /\ reruns' = reruns /\ terms' = terms
  BY DEF TypeOK, Paid, queue
<1>2. ASSUME terms.installmentStartingPrice > 0
      PROVE  Started'
  <2>1. Started
    BY <1>2 DEF Steady
  <2>2. totalPaid # 0 => collected # 0
    BY <1>1
  <2>3. /\ Begun(terms, collected + amount) /\ collected + amount > 0
        /\ collected # 0 => collected + amount # terms.installmentStartingPrice
    BY <1>1, <1>2, <2>1, <2>2, BegunPays DEF Started
  <2>4. Begun(terms, totalPaid + amount) /\ totalPaid + amount > 0
    BY <1>1, <1>2, <2>1, BegunPays DEF Started
  <2>5. totalPaid' # 0 /\ collected' # 0
    BY <2>3, <2>4
  <2>6. collected' = terms.installmentStartingPrice => MonthsLeft'
    <3>1. collected = 0 => jobs' = {} /\ failed' = {}
      BY <1>1, <2>1 DEF Started
    <3> QED
      BY <2>3, <3>1 DEF MonthsLeft
  <2> QED
    BY <1>1, <2>3, <2>4, <2>5, <2>6 DEF Started
<1> QED
  BY <1>1, <1>2 DEF Steady

LEMMA RetrySteady ==
  ASSUME TypeOK, Paid, Steady, NEW job \in failed, RetryFailedJob(job)
  PROVE  Steady'
<1>1. /\ reruns' = reruns + 1 /\ reruns' <= MaxReruns /\ failed' = failed \ {job} /\ jobs' = jobs \cup {job}
      /\ terms' = terms /\ totalPaid' = totalPaid /\ collected' = collected
      /\ remainingInstallments' = remainingInstallments
  BY BoundsAssumption DEF RetryFailedJob, saleColumns, payments, TypeOK
<1>2. ASSUME MonthsLeft
      PROVE  MonthsLeft'
  <2>1. /\ failed = {job} /\ jobs = {} /\ job.attempts = 1
        /\ remainingInstallments >= terms.totalInstallmentDuration - MaxAttempts - reruns
    BY <1>2 DEF MonthsLeft
  <2>2. /\ terms.totalInstallmentDuration \in Nat /\ remainingInstallments \in Int /\ reruns \in Nat
        /\ MaxAttempts \in Nat
    BY DEF TypeOK, TermsType
  <2>3. remainingInstallments >= terms.totalInstallmentDuration - (MaxAttempts - job.attempts) - (reruns + 1)
    BY <2>1, <2>2
  <2>4. jobs' = {job} /\ failed' = {}
    BY <1>1, <2>1
  <2> QED
    BY <1>1, <2>3, <2>4 DEF MonthsLeft
<1>3. collected # 0 \/ ~(terms.installmentStartingPrice > 0)
  BY DEF Steady, Started
<1> QED
  BY <1>1, <1>2, <1>3 DEF Steady, Started

\* Which amounts createNextPayment and purchasePower take.
LEMMA NextAmountIs ==
  ASSUME TypeOK, Paid, StartsOnce(terms), PaidAtOnce(terms), NEW amount \in NextAmounts,
         ValidInstallmentAmount(terms, totalPaid = 0, amount)
  PROVE  /\ amount \in Nat
         /\ terms.totalMonthlyPayment = 0 => amount >= terms.totalPrice
         /\ \/ amount >= terms.installmentStartingPrice
            \/ amount = terms.totalMonthlyPayment /\ amount # 0 /\ totalPaid # 0
<1>1. terms \in TermsType /\ amount \in Nat /\ hasInstallmentItems(terms)
  BY DEF TypeOK, NextAmounts, ValidInstallmentAmount
<1>2. CASE totalPaid = 0
  <2>1. amount = terms.installmentStartingPrice
    BY <1>2 DEF ValidInstallmentAmount
  <2> QED
    BY <1>1, <2>1 DEF PaidAtOnce
<1>3. CASE totalPaid # 0
  BY <1>1, <1>3 DEF ValidInstallmentAmount
<1> QED
  BY <1>2, <1>3

LEMMA NextSteady ==
  ASSUME TypeOK, Paid, Steady, StartsOnce(terms), PaidAtOnce(terms), [Next]_vars,
         \A amount \in RestoreAmounts : ~RestoreSaleOverpayment(amount)
  PROVE  Steady'
<1>0. terms \in TermsType
  BY DEF TypeOK
<1>1. CASE InitialPayment
  <2>1. PICK attempts \in {1, MaxAttempts} : RecordPayment(terms.totalAmountToPay, attempts)
    BY <1>1 DEF InitialPayment
  <2>2. terms.totalAmountToPay \in Nat /\ UNCHANGED <<saleColumns, failed, reruns>>
    BY <1>0, <1>1 DEF InitialPayment, TermsType
  <2>3. terms.totalMonthlyPayment = 0 => terms.totalAmountToPay >= terms.totalPrice
    BY DEF PaidAtOnce
  <2>4. terms.totalAmountToPay >= terms.installmentStartingPrice
    <3>1. terms.installmentStartingPrice \in Int
      BY <1>0 DEF TermsType
    <3> QED
      BY <2>2, <3>1 DEF StartsOnce
  <2> QED
    BY <2>1, <2>2, <2>3, <2>4, RecordSteady
<1>2. ASSUME NEW amount \in NextAmounts, CreateNextPayment(amount)
      PROVE  Steady'
  BY <1>2, NextAmountIs, RecordSteady DEF CreateNextPayment
<1>3. ASSUME NEW job \in jobs, ProcessJob(job)
      PROVE  Steady'
  BY <1>3, RunSteady
<1>4. ASSUME NEW job \in failed, RetryFailedJob(job)
      PROVE  Steady'
  BY <1>4, RetrySteady
<1>5. CASE CompleteSalePayment
  BY <1>5, PaidByHandSteady DEF CompleteSalePayment
<1>6. ASSUME NEW amount \in NextAmounts, PurchasePower(amount)
      PROVE  Steady'
  BY <1>6, NextAmountIs, PaidByHandSteady DEF PurchasePower
<1>7. CASE UNCHANGED vars
  BY <1>7 DEF Steady, Started, MonthsLeft, vars, saleColumns, payments, queue
<1> QED
  BY <1>1, <1>2, <1>3, <1>4, <1>5, <1>6, <1>7 DEF Next, Step

\* A sale is found fully paid only when it is.
LEMMA RunCongratulates ==
  ASSUME TypeOK, Paid, Steady, StartsOnce(terms), NEW job \in jobs, PostPayment(job), FullyPaid(job.amount)
  PROVE  collected >= terms.totalPrice
<1>1. /\ terms \in TermsType /\ CoversPrice(terms) /\ collected \in Nat /\ totalPaid \in Nat
      /\ job.amount \in Nat /\ job.amount <= collected /\ job.attempts \in Nat \ {0}
      /\ remainingInstallments \in Int /\ totalPaid' = collected
  BY DEF TypeOK, Paid, JobType, PostPayment
<1>2. terms.totalMonthlyPayment = 0 => collected >= terms.totalPrice
  <2>1. terms.totalPrice \in Nat
    BY <1>1 DEF TermsType
  <2> QED
    BY <1>1, <2>1 DEF Steady
<1>3. ASSUME collected = terms.installmentStartingPrice, collected > 0, collected < terms.totalPrice
      PROVE  remainingInstallments # 1
  <2>1. MonthsLeft /\ reruns <= MaxReruns
    BY <1>3 DEF Steady, Started
  <2>2. remainingInstallments >= terms.totalInstallmentDuration - (MaxAttempts - job.attempts) - reruns
    BY <2>1 DEF MonthsLeft
  <2>3. /\ terms.totalInstallmentDuration \in Nat /\ reruns \in Nat /\ MaxReruns \in Nat /\ MaxAttempts \in Nat
        /\ terms.totalInstallmentDuration > MaxAttempts + MaxReruns
    BY <1>1, <1>3, BoundsAssumption DEF StartsOnce, TypeOK, TermsType
  <2> QED
    BY <1>1, <2>1, <2>2, <2>3
<1>4. \/ collected >= terms.totalPrice
      \/ calculateInstallmentProgress(terms, collected, remainingInstallments, job.amount).remainingInstallments = 0
  BY <1>1 DEF FullyPaid, Progress
<1> QED
  BY <1>1, <1>2, <1>3, <1>4, NoMonthIsPaid

LEMMA PurchaseCongratulates ==
  ASSUME TypeOK, Paid, Steady, StartsOnce(terms), PaidAtOnce(terms), NEW amount \in NextAmounts,
         PurchasePower(amount), FullyPaid(amount)
  PROVE  collected' >= terms.totalPrice
<1> DEFINE paid == totalPaid + amount
<1>1. /\ terms \in TermsType /\ CoversPrice(terms) /\ collected \in Nat /\ totalPaid \in Nat /\ amount \in Nat
      /\ remainingInstallments \in Int /\ totalPaid' = paid /\ collected' = collected + amount
      /\ totalPaid <= collected /\ terms.totalPrice \in Nat
  BY DEF TypeOK, Paid, NextAmounts, PurchasePower, TermsType
<1>2. /\ terms.totalMonthlyPayment = 0 => amount >= terms.totalPrice
      /\ \/ amount >= terms.installmentStartingPrice
         \/ amount = terms.totalMonthlyPayment /\ amount # 0 /\ totalPaid # 0
  BY NextAmountIs DEF PurchasePower
<1>3. paid \in Nat /\ amount <= paid /\ paid <= collected'
  BY <1>1
<1>4. terms.totalMonthlyPayment = 0 => paid >= terms.totalPrice
  BY <1>1, <1>2
<1>5. ASSUME paid = terms.installmentStartingPrice, paid > 0, paid < terms.totalPrice
      PROVE  remainingInstallments # 1
  <2>1. Started
    BY <1>5 DEF Steady
  <2>2. totalPaid = 0
    BY <1>1, <1>2, <1>5, <2>1, BegunPays DEF Started
  <2>3. /\ remainingInstallments = terms.totalInstallmentDuration
        /\ terms.totalInstallmentDuration > MaxAttempts + MaxReruns
    BY <1>5, <2>1, <2>2 DEF Started, StartsOnce
  <2> QED
    BY <1>1, <2>3, BoundsAssumption
<1>6. \/ paid >= terms.totalPrice
      \/ calculateInstallmentProgress(terms, paid, remainingInstallments, amount).remainingInstallments = 0
  BY <1>1 DEF FullyPaid, Progress
<1> HIDE DEF paid
<1>7. paid >= terms.totalPrice
  BY <1>1, <1>3, <1>4, <1>5, <1>6, NoMonthIsPaid
<1> QED
  BY <1>1, <1>3, <1>7

SteadyUnlessLowered == Lowered \/ (terms \in Terms /\ Paid /\ Steady)

\* A customer to whom nothing was given back is told that everything is paid
\* only when it is, whatever fails and is retried, provided every plan's
\* monthly payments reach the price, or its first payment does, and the plan
\* has more months than the first payment's job has runs.
THEOREM CongratulatedIsPaid ==
  ASSUME \A t \in Terms : CoversPrice(t) /\ PaidAtOnce(t) /\ StartsOnce(t), PlansApart
  PROVE  Spec => CongratulatedOnlyWhenPaid
<1>1. Init => SteadyUnlessLowered
  <2> SUFFICES ASSUME Init
               PROVE  terms \in Terms /\ Paid /\ Steady
    BY DEF SteadyUnlessLowered
  <2>1. terms \in Terms /\ CoversPrice(terms) /\ Paid
    BY DEF Init, Paid
  <2>2. Steady
    BY BoundsAssumption DEF Init, Steady, Started, Begun, MonthsLeft
  <2> QED
    BY <2>1, <2>2
<1>2. TypeOK /\ SteadyUnlessLowered /\ [Next]_vars => SteadyUnlessLowered'
  <2> SUFFICES ASSUME TypeOK, SteadyUnlessLowered, [Next]_vars
               PROVE  SteadyUnlessLowered'
    OBVIOUS
  <2>1. CASE Lowered'
    BY <2>1 DEF SteadyUnlessLowered
  <2>2. CASE terms' = terms /\ \A amount \in RestoreAmounts : ~RestoreSaleOverpayment(amount)
    <3>1. Lowered => Lowered'
      BY <2>2 DEF Lowered
    <3>2. terms \in Terms /\ Paid /\ Steady => terms' \in Terms /\ Paid' /\ Steady'
      BY <2>2, NextPaid, NextSteady
    <3> QED
      BY <3>1, <3>2 DEF SteadyUnlessLowered
  <2> QED
    BY <2>1, <2>2, NextTerms DEF SteadyUnlessLowered
<1>3. TypeOK /\ SteadyUnlessLowered /\ [Next]_vars
        => [congratulated' /\ ~congratulated /\ ~Restored => collected' >= terms'.totalPrice]_vars
  <2> SUFFICES ASSUME TypeOK, SteadyUnlessLowered, Next, congratulated', ~congratulated, ~Restored
               PROVE  collected' >= terms'.totalPrice
    OBVIOUS
  <2>1. terms \in Terms /\ Paid /\ Steady /\ StartsOnce(terms) /\ PaidAtOnce(terms)
    BY DEF SteadyUnlessLowered, Lowered, PlansApart, Restored
  <2>2. ASSUME NEW job \in jobs, ProcessJob(job)
        PROVE  collected' >= terms'.totalPrice
    <3>1. PostPayment(job) /\ FullyPaid(job.amount)
      BY <2>2 DEF ProcessJob, PostPaymentFailsAtRead, PostPaymentFailsAtProgress, PostPayment
    <3>2. terms' = terms /\ collected' = collected
      BY <3>1 DEF PostPayment, payments
    <3> QED
      BY <2>1, <3>1, <3>2, RunCongratulates
  <2>3. ASSUME NEW amount \in NextAmounts, PurchasePower(amount)
        PROVE  collected' >= terms'.totalPrice
    <3>1. FullyPaid(amount) /\ terms' = terms
      BY <2>3 DEF PurchasePower
    <3> QED
      BY <2>1, <2>3, <3>1, PurchaseCongratulates
  <2>4. CASE \/ InitialPayment \/ CompleteSalePayment
             \/ \E amount \in NextAmounts : CreateNextPayment(amount)
             \/ \E job \in failed : RetryFailedJob(job)
             \/ \E amount \in RestoreAmounts : RestoreSaleOverpayment(amount)
    BY <2>4 DEF InitialPayment, CompleteSalePayment, CreateNextPayment, RetryFailedJob, RestoreSaleOverpayment
  <2> QED
    BY <2>2, <2>3, <2>4 DEF Next, Step
<1> QED
  BY <1>1, <1>2, <1>3, TypeCorrect, PTL DEF Spec, CongratulatedOnlyWhenPaid

=============================================================================
