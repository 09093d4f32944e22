-------------------------- MODULE BackOfficeProofs --------------------------
(***************************************************************************)
(* The five parts of the back office, each proved about by itself.         *)
(*                                                                         *)
(* CustomerApproval, for any customers, addresses and numbers of requests. *)
(* DeviceSales, for any devices, sales and requests, however they overlap. *)
(* TokenBatch, for any file and any numbers of attempts and failures;      *)
(* PaymentCorrection, for any sales, devices and numbers of attempts, when *)
(* nobody pays while the job runs; and CsvImport, for any file, attempts   *)
(* and failures.                                                           *)
(***************************************************************************)
EXTENDS CustomerApproval, CsvImport, PaymentCorrection, TokenBatch, DeviceSales, SumTheorems,
        SequenceTheorems

-----------------------------------------------------------------------------
(* CustomerApproval *)

Busy(k) == counter[k] # Waiting
Doing(k, op, steps) == counter[k].op = op /\ counter[k].step \in steps

LEMMA BusyTask ==
  ASSUME CustomerTypeOK, NEW k \in CustomerClerks
  PROVE  /\ Busy(k) <=> counter[k].op # "none"
         /\ Busy(k) => counter[k] \in CustomerTask
         /\ ~Busy(k) => counter[k] = Waiting /\ counter[k].op = "none"
BY DEF CustomerTypeOK, Busy, CustomerTask, Waiting, CustomerOp

-----------------------------------------------------------------------------
(* Types *)

LEMMA ServeTyped ==
  ASSUME CustomerTypeOK, NEW k \in CustomerClerks, NEW op \in CustomerOp, NEW C \in SUBSET Customers,
         NEW e \in Emails \cup {NoEmail}, NEW n \in Nat, Serve(k, op, C, e, n)
  PROVE  counter' \in [CustomerClerks -> CustomerTask \cup {Waiting}]
BY DEF CustomerTypeOK, Serve, CustomerTask

LEMMA ServedTyped ==
  ASSUME CustomerTypeOK, NEW k \in CustomerClerks, Served(k)
  PROVE  counter' \in [CustomerClerks -> CustomerTask \cup {Waiting}]
BY DEF CustomerTypeOK, Served

LEMMA NextStepTyped ==
  ASSUME CustomerTypeOK, NEW k \in CustomerClerks, Busy(k), NextStep(k)
  PROVE  counter' \in [CustomerClerks -> CustomerTask \cup {Waiting}]
<1>1. counter[k] \in CustomerTask
  BY BusyTask
<1>2. [counter[k] EXCEPT !.step = @ + 1] \in CustomerTask
  BY <1>1 DEF CustomerTask
<1>3. counter' = [counter EXCEPT ![k] = [counter[k] EXCEPT !.step = @ + 1]]
  BY DEF NextStep
<1> QED
  BY <1>2, <1>3 DEF CustomerTypeOK

LEMMA RegisteredType ==
  ASSUME NEW b \in BOOLEAN, NEW e \in Emails \cup {NoEmail}
  PROVE  Registered(b, e) \in Customer
BY DEF Registered, Customer, Approval

LEMMA ImportedType == Imported \in Customer
BY DEF Imported, Customer, Approval

LEMMA ReviewType ==
  ASSUME NEW r \in Customer
  PROVE  Approved(r) \in Customer /\ Rejected(r) \in Customer
BY DEF Approved, Rejected, Customer, Approval

LEMMA ResubmittedType ==
  ASSUME NEW r \in Customer, NEW t \in CustomerTask
  PROVE  Resubmitted(r, t) \in Customer
<1> DEFINE e == IF t.email = NoEmail THEN r.email ELSE t.email
<1>1. e \in Emails \cup {NoEmail} /\ t.count + 1 \in Nat
  BY DEF Customer, CustomerTask
<1>2. Resubmitted(r, t) = [r EXCEPT !.email = e, !.approvalStatus = "RESUBMITTED", !.requiresReview = FALSE,
                                    !.resubmissionCount = t.count + 1]
  BY DEF Resubmitted
<1> HIDE DEF e
<1> QED
  BY <1>1, <1>2 DEF Customer, Approval

LEMMA MarkedType ==
  ASSUME NEW h \in Seq(BOOLEAN), NEW n \in Nat
  PROVE  /\ Marked(h, n) \in Seq(BOOLEAN) /\ DOMAIN Marked(h, n) = DOMAIN h
         /\ \A i \in DOMAIN h : Marked(h, n)[i] <=> i = n \/ h[i]
<1>1. h \in [1 .. Len(h) -> BOOLEAN] /\ Len(h) \in Nat /\ DOMAIN h = 1 .. Len(h)
  BY LenProperties
<1>2. Marked(h, n) \in [1 .. Len(h) -> BOOLEAN]
  BY <1>1 DEF Marked
<1>3. Marked(h, n) \in Seq(BOOLEAN)
  BY <1>1, <1>2, SeqDef
<1> QED
  BY <1>1, <1>3 DEF Marked

LEMMA NextCustomerType ==
  ASSUME CustomerTypeOK, CustomerAssumption, [CustomerNext]_customerVars
  PROVE  CustomerTypeOK'
<1> USE DEF Exists
<1>0. /\ DOMAIN customer \subseteq Customers /\ customer \in [DOMAIN customer -> Customer]
      /\ rejections \in [Customers -> 0 .. MaxRejections]
      /\ history \in [Customers -> Seq(BOOLEAN)]
      /\ MaxRejections \in Nat
  BY DEF CustomerTypeOK, CustomerAssumption
<1>1. ASSUME NEW k \in CustomerClerks, NEW c \in Customers, NEW e \in Emails \cup {NoEmail}, BeginCreate(k, c, e)
      PROVE  CustomerTypeOK'
  <2>1. counter' \in [CustomerClerks -> CustomerTask \cup {Waiting}]
    <3>1. Serve(k, "create", {c}, e, 0) /\ "create" \in CustomerOp /\ {c} \in SUBSET Customers
      BY <1>1 DEF BeginCreate, CustomerOp
    <3> QED
      BY <3>1, ServeTyped
  <2> QED
    BY <1>0, <1>1, <2>1 DEF BeginCreate, CustomerTypeOK
<1>2. ASSUME NEW k \in CustomerClerks, NEW c \in Customers, NEW e \in Emails \cup {NoEmail}, BeginUpdate(k, c, e)
      PROVE  CustomerTypeOK'
  BY <1>2, ServeTyped DEF BeginUpdate, CustomerTypeOK, CustomerOp
<1>3. ASSUME NEW k \in CustomerClerks, NEW c \in Customers, NEW e \in Emails \cup {NoEmail}, BeginResubmit(k, c, e)
      PROVE  CustomerTypeOK'
  <2>1. customer[c].resubmissionCount \in Nat
    BY <1>0, <1>3 DEF BeginResubmit, Customer
  <2> QED
    <3>1. Serve(k, "resubmit", {c}, e, customer[c].resubmissionCount) /\ "resubmit" \in CustomerOp
          /\ {c} \in SUBSET Customers
      BY <1>3 DEF BeginResubmit, CustomerOp
    <3>2. counter' \in [CustomerClerks -> CustomerTask \cup {Waiting}]
      BY <2>1, <3>1, ServeTyped
    <3> QED
      BY <1>0, <1>3, <3>2 DEF BeginResubmit, CustomerTypeOK
<1>4. ASSUME NEW k \in CustomerClerks, CreateCustomer(k)
      PROVE  CustomerTypeOK'
  <2>1. counter[k] \in CustomerTask
    BY <1>4, BusyTask DEF CreateCustomer, Serving
  <2>2. PICK b \in BOOLEAN : customer' = [c \in DOMAIN customer \cup counter[k].who |->
            IF Exists(c) THEN customer[c] ELSE Registered(b, counter[k].email)]
    BY <1>4 DEF CreateCustomer
  <2>3. Registered(b, counter[k].email) \in Customer
    BY <2>1, RegisteredType DEF CustomerTask
  <2> QED
    BY <1>0, <1>4, <2>1, <2>2, <2>3, ServedTyped DEF CreateCustomer, CustomerTypeOK, CustomerTask
<1>5. ASSUME NEW k \in CustomerClerks, UpdateCustomer(k)
      PROVE  CustomerTypeOK'
  <2>1. counter[k] \in CustomerTask
    BY <1>5, BusyTask DEF UpdateCustomer, Serving
  <2>2. customer' = [c \in DOMAIN customer |-> IF c \in counter[k].who
                       THEN [customer[c] EXCEPT !.email = counter[k].email] ELSE customer[c]]
    BY <1>5 DEF UpdateCustomer, Writes
  <2> QED
    <3>1. counter[k].email \in Emails \cup {NoEmail}
      BY <2>1 DEF CustomerTask
    <3>2. \A r \in Customer : [r EXCEPT !.email = counter[k].email] \in Customer
      BY <3>1 DEF Customer
    <3>3. DOMAIN customer' = DOMAIN customer /\ customer' \in [DOMAIN customer -> Customer]
      BY <1>0, <2>2, <3>2
    <3> QED
      BY <1>0, <1>5, <3>3, ServedTyped DEF UpdateCustomer, CustomerTypeOK
<1>6. ASSUME NEW c \in Customers, DeleteCustomer(c)
      PROVE  CustomerTypeOK'
  BY <1>0, <1>6 DEF DeleteCustomer, CustomerTypeOK
<1>7. ASSUME NEW C \in SUBSET Customers, Writes(C, Approved)
      PROVE  DOMAIN customer' = DOMAIN customer /\ customer' \in [DOMAIN customer' -> Customer]
  BY <1>0, <1>7, ReviewType DEF Writes
<1>8. ASSUME NEW C \in SUBSET Customers, Rejects(C)
      PROVE  /\ DOMAIN customer' = DOMAIN customer /\ customer' \in [DOMAIN customer' -> Customer]
             /\ rejections' \in [Customers -> 0 .. MaxRejections]
  BY <1>0, <1>8, ReviewType DEF Rejects, Writes
<1>9. ASSUME NEW c \in Customers, ApproveCustomer(c)
      PROVE  CustomerTypeOK'
  BY <1>0, <1>7, <1>9 DEF ApproveCustomer, CustomerTypeOK
<1>10. ASSUME NEW c \in Customers, RejectCustomer(c)
      PROVE  CustomerTypeOK'
  BY <1>0, <1>8, <1>10 DEF RejectCustomer, CustomerTypeOK
<1>11. ASSUME NEW C \in SUBSET DOMAIN customer, BulkApprove(C)
      PROVE  CustomerTypeOK'
  BY <1>0, <1>7, <1>11 DEF BulkApprove, CustomerTypeOK
<1>12. ASSUME NEW C \in SUBSET DOMAIN customer, NEW k \in CustomerClerks, BulkReject(k, C)
      PROVE  CustomerTypeOK'
  BY <1>0, <1>8, <1>12, ServeTyped DEF BulkReject, CustomerTypeOK, CustomerOp
<1>13. ASSUME NEW k \in CustomerClerks, RecordRejections(k)
      PROVE  CustomerTypeOK'
  <2>1. \A c \in Customers : Append(history[c], FALSE) \in Seq(BOOLEAN)
    BY <1>0
  <2>2. history' \in [Customers -> Seq(BOOLEAN)]
    BY <1>0, <1>13, <2>1 DEF RecordRejections
  <2> QED
    BY <1>13, <2>2, ServedTyped DEF RecordRejections, CustomerTypeOK
<1>14. ASSUME NEW k \in CustomerClerks, FindLatestRejection(k)
      PROVE  CustomerTypeOK'
  <2>1. counter[k] \in CustomerTask
    BY <1>14, BusyTask DEF FindLatestRejection, Serving
  <2>2. PICK c \in counter[k].who : counter' = [counter EXCEPT ![k].step = 2, ![k].row = Len(history[c])]
    BY <1>14 DEF FindLatestRejection
  <2>3. Len(history[c]) \in Nat
    BY <1>0, <2>1 DEF CustomerTask
  <2> QED
    BY <1>14, <2>1, <2>2, <2>3 DEF FindLatestRejection, CustomerTypeOK, CustomerTask
<1>15. ASSUME NEW k \in CustomerClerks, ResubmitCustomer(k)
      PROVE  CustomerTypeOK'
  <2>1. counter[k] \in CustomerTask /\ Busy(k)
    BY <1>15, BusyTask DEF ResubmitCustomer, Serving
  <2>2. customer' = [c \in DOMAIN customer |-> IF c \in counter[k].who
                       THEN Resubmitted(customer[c], counter[k]) ELSE customer[c]]
    BY <1>15 DEF ResubmitCustomer, Writes
  <2> QED
    BY <1>0, <1>15, <2>1, <2>2, ServedTyped, NextStepTyped, ResubmittedType DEF ResubmitCustomer, CustomerTypeOK
<1>16. ASSUME NEW k \in CustomerClerks, MarkRejection(k)
      PROVE  CustomerTypeOK'
  <2>1. counter[k] \in CustomerTask
    BY <1>16, BusyTask DEF MarkRejection, Serving
  <2>2. history' \in [Customers -> Seq(BOOLEAN)]
    BY <1>0, <1>16, <2>1, MarkedType DEF MarkRejection, CustomerTask
  <2> QED
    BY <1>16, <2>2, ServedTyped DEF MarkRejection, CustomerTypeOK
<1>17. ASSUME NEW c \in Customers, ImportCustomer(c)
       PROVE  CustomerTypeOK'
  BY <1>0, <1>17, ImportedType DEF ImportCustomer, CustomerTypeOK
<1>18. CASE UNCHANGED customerVars
  BY <1>18 DEF customerVars, CustomerTypeOK
<1> QED
  BY <1>0, <1>1, <1>2, <1>3, <1>4, <1>5, <1>6, <1>9, <1>10, <1>11, <1>12, <1>13, <1>14, <1>15, <1>16, <1>17, <1>18
     DEF CustomerNext

LEMMA CustomerInitType ==
  ASSUME CustomerAssumption
  PROVE  CustomerInit => CustomerTypeOK
BY DEF CustomerAssumption, CustomerInit, CustomerTypeOK

\* Every variable keeps its type, whatever overlaps.
THEOREM CustomerTypeCorrect == CustomerSpec => []CustomerTypeOK
BY CustomerAssumption, CustomerInitType, NextCustomerType, PTL DEF CustomerSpec


-----------------------------------------------------------------------------
(* Reviews and addresses in order *)

\* The pairs of operations that must not overlap.
CustomersApart ==
  CustomerOverlap \cap {{"create"}, {"update"}, {"create", "update"}, {"resubmit"},
                        {"approve", "resubmit"}, {"bulkApprove", "resubmit"}} = {}

Marks(h) == {i \in DOMAIN h : h[i]}

\* What overlaps may; a request that concerns one customer has it alone; who
\* is being registered is nobody else's yet.
Permitted ==
  \A j, k \in CustomerClerks : j # k /\ Busy(j) /\ Busy(k) => {counter[j].op, counter[k].op} \in CustomerOverlap

OneEach ==
  \A k \in CustomerClerks : counter[k].op \in {"create", "update", "resubmit"} => \E c \in Customers : counter[k].who = {c}

Newcomer ==
  \A k \in CustomerClerks : counter[k].op = "create" =>
    \A c \in counter[k].who :
      /\ c \notin DOMAIN customer /\ history[c] = << >>
      /\ \A j \in CustomerClerks : j # k /\ Busy(j) => c \notin counter[j].who

\* The address a registration or an update is about to write is still free,
\* but for those whom a resubmission gave theirs.
AddressFree ==
  \A k \in CustomerClerks : counter[k].email # NoEmail =>
    /\ counter[k].op = "create" =>
         \A d \in DOMAIN customer : customer[d].email = counter[k].email => customer[d].resubmissionCount > 0
    /\ counter[k].op = "update" =>
         \A c \in counter[k].who, d \in DOMAIN customer :
           c \in DOMAIN customer /\ c # d /\ customer[d].email = counter[k].email
             => customer[c].resubmissionCount + customer[d].resubmissionCount > 0

\* What a resubmission has read still holds when it writes, and the rejection
\* it will mark is not counted yet.
Pending ==
  \A k \in CustomerClerks : Doing(k, "resubmit", {1, 2}) =>
    \A c \in counter[k].who :
      /\ counter[k].count < rejections[c]
      /\ c \in DOMAIN customer =>
           ~customer[c].isApproved /\ customer[c].resubmissionCount = counter[k].count

Answering ==
  \A k \in CustomerClerks : Doing(k, "resubmit", {3}) =>
    \A c \in counter[k].who : c \in DOMAIN customer => Cardinality(Marks(history[c])) < customer[c].resubmissionCount

CustomersIInv ==
  /\ CustomersInOrder
  /\ Permitted /\ OneEach /\ Newcomer /\ AddressFree /\ Pending /\ Answering

-----------------------------------------------------------------------------
(* The invariant, step by step *)

LEMMA ServeFacts ==
  ASSUME CustomerTypeOK, NEW k \in CustomerClerks, NEW op \in CustomerOp, NEW C, NEW e, NEW n, Serve(k, op, C, e, n)
  PROVE  /\ ~Busy(k) /\ counter'[k] # Waiting
         /\ counter'[k].op = op /\ counter'[k].step = 1 /\ counter'[k].who = C
         /\ counter'[k].email = e /\ counter'[k].count = n
         /\ \A j \in CustomerClerks : j # k => counter'[j] = counter[j]
         /\ \A j \in CustomerClerks : Busy(j) => {op, counter[j].op} \in CustomerOverlap
<1>1. counter \in [CustomerClerks -> CustomerTask \cup {Waiting}]
  BY DEF CustomerTypeOK
<1>2. counter'[k] = [op |-> op, step |-> 1, who |-> C, email |-> e, count |-> n, row |-> 0]
  BY <1>1 DEF Serve
<1>3. \A j \in CustomerClerks : j # k => counter'[j] = counter[j]
  BY <1>1 DEF Serve
<1>4. counter'[k] # Waiting
  BY <1>2 DEF Waiting, CustomerOp
<1> QED
  BY <1>2, <1>3, <1>4 DEF Serve, MayServe, Busy

LEMMA ServedFacts ==
  ASSUME CustomerTypeOK, NEW k \in CustomerClerks, Served(k)
  PROVE  /\ counter'[k] = Waiting /\ counter'[k].op = "none"
         /\ \A j \in CustomerClerks : j # k => counter'[j] = counter[j]
BY DEF CustomerTypeOK, Served, Waiting

\* A request goes on: what it is for does not change.
GoesOn(k) ==
  /\ counter[k] # Waiting /\ counter'[k] # Waiting
  /\ counter'[k].op = counter[k].op /\ counter'[k].who = counter[k].who
  /\ counter'[k].email = counter[k].email /\ counter'[k].count = counter[k].count

LEMMA NextStepFacts ==
  ASSUME CustomerTypeOK, NEW k \in CustomerClerks, Busy(k), NextStep(k)
  PROVE  /\ GoesOn(k) /\ counter'[k].step = counter[k].step + 1
         /\ \A j \in CustomerClerks : j # k => counter'[j] = counter[j]
<1>1. counter[k] \in CustomerTask /\ counter[k].op # "none"
  BY BusyTask
<1>2. counter'[k] = [counter[k] EXCEPT !.step = @ + 1]
  BY DEF CustomerTypeOK, NextStep
<1>3. counter'[k].op = counter[k].op /\ counter'[k].who = counter[k].who /\ counter'[k].email = counter[k].email
      /\ counter'[k].count = counter[k].count /\ counter'[k].step = counter[k].step + 1
  BY <1>1, <1>2 DEF CustomerTask
<1>4. \A j \in CustomerClerks : j # k => counter'[j] = counter[j]
  BY DEF CustomerTypeOK, NextStep
<1> QED
  BY <1>1, <1>3, <1>4 DEF GoesOn, Busy, Waiting

\* No request begins.
Calm == \A k \in CustomerClerks : counter'[k] = Waiting \/ GoesOn(k)

LEMMA Waits == Waiting.op = "none"
BY DEF Waiting

LEMMA CalmRequests ==
  ASSUME CustomerTypeOK, Permitted, OneEach, Calm
  PROVE  Permitted' /\ OneEach'
<1>1. \A k \in CustomerClerks : counter'[k] # Waiting => Busy(k) /\ GoesOn(k)
  BY DEF Calm, GoesOn, Busy
<1>2. Permitted'
  BY <1>1 DEF Permitted, Busy, GoesOn
<1>3. OneEach'
  BY <1>1, Waits DEF OneEach, GoesOn
<1> QED
  BY <1>2, <1>3

LEMMA BegunRequest ==
  ASSUME CustomerTypeOK, Permitted, OneEach,
         NEW k \in CustomerClerks, NEW op \in CustomerOp, NEW C, NEW e, NEW n, Serve(k, op, C, e, n),
         op \in {"create", "update", "resubmit"} => \E c \in Customers : C = {c}
  PROVE  Permitted' /\ OneEach'
<1>1. Permitted'
  <2> SUFFICES ASSUME NEW i \in CustomerClerks, NEW j \in CustomerClerks, i # j,
                      counter'[i] # Waiting, counter'[j] # Waiting
               PROVE  {counter'[i].op, counter'[j].op} \in CustomerOverlap
    BY DEF Permitted, Busy
  <2>1. CASE i = k
    BY <2>1, ServeFacts DEF Busy
  <2>2. CASE j = k
    <3>1. {op, counter[i].op} \in CustomerOverlap /\ counter'[i].op = counter[i].op /\ counter'[j].op = op
      BY <2>2, ServeFacts DEF Busy
    <3>2. {counter'[i].op, counter'[j].op} = {op, counter[i].op}
      BY <3>1
    <3> QED
      BY <3>1, <3>2
  <2>3. CASE i # k /\ j # k
    BY <2>3, ServeFacts DEF Busy, Permitted
  <2> QED
    BY <2>1, <2>2, <2>3
<1>2. OneEach'
  <2> SUFFICES ASSUME NEW i \in CustomerClerks, counter'[i].op \in {"create", "update", "resubmit"}
               PROVE  \E c \in Customers : counter'[i].who = {c}
    BY DEF OneEach
  <2>1. CASE i = k
    BY <2>1, ServeFacts
  <2>2. CASE i # k
    BY <2>2, ServeFacts DEF OneEach
  <2> QED
    BY <2>1, <2>2
<1> QED
  BY <1>1, <1>2

\* What the pairs that must not overlap exclude.
LEMMA Excluded ==
  ASSUME CustomersApart, CustomerTypeOK, Permitted, NEW j \in CustomerClerks, NEW k \in CustomerClerks, j # k
  PROVE  /\ counter[j].op \in {"create", "update"} => counter[k].op \notin {"create", "update"}
         /\ counter[j].op = "resubmit" => counter[k].op # "resubmit"
<1> DEFINE P == {counter[j].op, counter[k].op}
<1>1. counter[j].op # "none" /\ counter[k].op # "none" => P \in CustomerOverlap
  BY BusyTask DEF Permitted
<1>2. P \notin {{"create"}, {"update"}, {"create", "update"}, {"resubmit"}} \/ P \notin CustomerOverlap
  BY DEF CustomersApart
<1>3. counter[j].op \in {"create", "update"} /\ counter[k].op \in {"create", "update"}
        => P \in {{"create"}, {"update"}, {"create", "update"}}
  OBVIOUS
<1>4. counter[j].op = "resubmit" /\ counter[k].op = "resubmit" => P = {"resubmit"}
  OBVIOUS
<1> QED
  BY <1>1, <1>2, <1>3, <1>4

LEMMA NotBegun ==
  ASSUME CustomersApart, CustomerTypeOK, NEW op \in CustomerOp, MayServe(op), NEW k \in CustomerClerks
  PROVE  /\ op \in {"create", "update"} => counter[k].op \notin {"create", "update"}
         /\ op \in {"approve", "bulkApprove", "resubmit"} => counter[k].op # "resubmit"
<1> DEFINE P == {op, counter[k].op}
<1>1. counter[k].op # "none" => P \in CustomerOverlap
  BY Waits DEF MayServe
<1>2. CustomerOverlap \cap {{"create"}, {"update"}, {"create", "update"}, {"resubmit"},
                            {"approve", "resubmit"}, {"bulkApprove", "resubmit"}} = {}
  BY DEF CustomersApart
<1>3. op \in {"create", "update"} /\ counter[k].op \in {"create", "update"}
        => P \in {{"create"}, {"update"}, {"create", "update"}}
  OBVIOUS
<1>4. op \in {"approve", "bulkApprove", "resubmit"} /\ counter[k].op = "resubmit"
        => P \in {{"resubmit"}, {"approve", "resubmit"}, {"bulkApprove", "resubmit"}}
  OBVIOUS
<1> QED
  BY <1>1, <1>2, <1>3, <1>4

-----------------------------------------------------------------------------
(* The invariant, action by action *)

LEMMA Begun ==
  ASSUME CustomersApart, CustomersIInv, CustomerTypeOK', UNCHANGED <<customer, rejections, history>>,
         NEW k \in CustomerClerks, NEW c \in Customers, NEW e, NEW n,
         NEW op \in {"create", "update", "resubmit"}, Serve(k, op, {c}, e, n),
         op = "create" => /\ ~Exists(c) /\ history[c] = << >> /\ ~HasEmail(e, Customers)
                          /\ \A j \in CustomerClerks : counter[j] # Waiting => c \notin counter[j].who,
         op = "update" => UpdateTakes(c, e),
         op = "resubmit" => Exists(c) /\ customer[c].approvalStatus = "REJECTED" /\ n = customer[c].resubmissionCount
  PROVE  CustomersIInv'
<1> USE DEF Exists
<1>0. /\ CustomerTypeOK /\ OnlyApprovedBuy /\ AddressesDiffer /\ ResubmissionsAnswer /\ AnswersCounted
      /\ Permitted /\ OneEach /\ Newcomer /\ AddressFree /\ Pending /\ Answering /\ op \in CustomerOp
  BY DEF CustomersIInv, CustomersInOrder, CustomerOp
<1>1. /\ ~Busy(k) /\ counter'[k].op = op /\ counter'[k].step = 1 /\ counter'[k].who = {c}
      /\ counter'[k].email = e /\ counter'[k].count = n
      /\ \A j \in CustomerClerks : j # k => counter'[j] = counter[j]
  BY <1>0, ServeFacts
<1>2. Permitted' /\ OneEach'
  BY <1>0, BegunRequest
<1>3. OnlyApprovedBuy' /\ AddressesDiffer' /\ ResubmissionsAnswer' /\ AnswersCounted'
  BY <1>0 DEF OnlyApprovedBuy, AddressesDiffer, ResubmissionsAnswer, AnswersCounted
<1>4. Newcomer'
  <2>1. \A j \in CustomerClerks : counter[j].op = "create" => c \notin counter[j].who
    BY <1>0, Waits DEF Newcomer, UpdateTakes
  <2>2. \A j \in CustomerClerks : j # k /\ counter'[j] # Waiting => Busy(j)
    BY <1>1 DEF Busy
  <2> SUFFICES ASSUME NEW i \in CustomerClerks, counter'[i].op = "create", NEW d \in counter'[i].who
               PROVE  /\ d \notin DOMAIN customer' /\ history'[d] = << >>
                      /\ \A j \in CustomerClerks : j # i /\ counter'[j] # Waiting => d \notin counter'[j].who
    BY DEF Newcomer, Busy
  <2>3. CASE i = k
    BY <1>1, <2>2, <2>3 DEF Busy
  <2>4. CASE i # k
    BY <1>0, <1>1, <2>1, <2>2, <2>4 DEF Newcomer
  <2> QED
    BY <2>3, <2>4
<1>5. AddressFree'
  <2>1. \A j \in CustomerClerks : j # k => counter'[j] = counter[j]
    BY <1>1
  <2>2. e # NoEmail /\ op = "create" => \A d \in DOMAIN customer : customer[d].email # e
    BY <1>0 DEF HasEmail, CustomerTypeOK
  <2>3. e # NoEmail /\ op = "update" =>
          \A d \in DOMAIN customer : c # d /\ customer[d].email = e
            => customer[c].resubmissionCount + customer[d].resubmissionCount > 0
    BY <1>0 DEF UpdateTakes, HasEmail, AddressesDiffer, CustomerTypeOK
  <2> QED
    BY <1>0, <1>1, <2>2, <2>3 DEF AddressFree
<1>6. Pending'
  <2>1. op = "resubmit" => n < rejections[c] /\ ~customer[c].isApproved
    BY <1>0 DEF ResubmissionsAnswer, OnlyApprovedBuy
  <2> SUFFICES ASSUME NEW i \in CustomerClerks, counter'[i].op = "resubmit", counter'[i].step \in {1, 2},
                      NEW d \in counter'[i].who
               PROVE  /\ counter'[i].count < rejections[d]
                      /\ d \in DOMAIN customer =>
                           ~customer[d].isApproved /\ customer[d].resubmissionCount = counter'[i].count
    BY DEF Pending, Doing
  <2>2. CASE i = k
    BY <1>1, <2>1, <2>2
  <2>3. CASE i # k
    BY <1>0, <1>1, <2>3 DEF Pending, Doing
  <2> QED
    BY <2>2, <2>3
<1>7. Answering'
  BY <1>0, <1>1 DEF Answering, Doing
<1> QED
  BY <1>2, <1>3, <1>4, <1>5, <1>6, <1>7 DEF CustomersIInv, CustomersInOrder

LEMMA CreateKeeps ==
  ASSUME CustomersApart, CustomersIInv, CustomerTypeOK', NEW k \in CustomerClerks, CreateCustomer(k)
  PROVE  CustomersIInv'
<1> USE DEF Exists
<1>0. /\ CustomerTypeOK /\ OnlyApprovedBuy /\ AddressesDiffer /\ ResubmissionsAnswer /\ AnswersCounted
      /\ Permitted /\ OneEach /\ Newcomer /\ AddressFree /\ Pending /\ Answering
  BY DEF CustomersIInv, CustomersInOrder
<1>1. /\ counter[k].op = "create" /\ Busy(k) /\ counter'[k] = Waiting /\ counter'[k].op = "none"
      /\ \A j \in CustomerClerks : j # k => counter'[j] = counter[j]
      /\ UNCHANGED <<rejections, history>>
  BY <1>0, BusyTask, ServedFacts DEF CreateCustomer, Serving
<1>2. PICK c \in Customers : counter[k].who = {c}
  BY <1>0, <1>1 DEF OneEach
<1>3. PICK b \in BOOLEAN : customer' = [d \in DOMAIN customer \cup counter[k].who |->
            IF Exists(d) THEN customer[d] ELSE Registered(b, counter[k].email)]
  BY DEF CreateCustomer
<1>4. /\ c \notin DOMAIN customer /\ history[c] = << >>
      /\ \A j \in CustomerClerks : j # k /\ Busy(j) => c \notin counter[j].who
  BY <1>0, <1>1, <1>2 DEF Newcomer
<1>5. /\ DOMAIN customer' = DOMAIN customer \cup {c}
      /\ \A d \in DOMAIN customer : customer'[d] = customer[d] /\ d # c
      /\ customer'[c].email = counter[k].email /\ customer'[c].resubmissionCount = 0
      /\ customer'[c].isApproved => customer'[c].approvalStatus = "APPROVED"
      /\ customer'[c].approvalStatus # "REJECTED"
  BY <1>2, <1>3, <1>4 DEF Registered
<1>6. \A j \in CustomerClerks : counter'[j] # Waiting => j # k /\ Busy(j) /\ counter'[j] = counter[j] /\ c \notin counter[j].who
  BY <1>1, <1>4 DEF Busy
<1>7. \A j \in CustomerClerks : j # k => counter[j].op \notin {"create", "update"}
  BY <1>0, <1>1, Excluded
<1>8. Permitted' /\ OneEach'
  BY <1>0, <1>6, CalmRequests DEF Calm, GoesOn, Busy
<1>9. OnlyApprovedBuy'
  BY <1>0, <1>1, <1>5 DEF OnlyApprovedBuy
<1>10. AddressesDiffer'
  <2>1. \A d \in DOMAIN customer : customer[d].email = counter[k].email /\ customer[d].email # NoEmail
          => customer[d].resubmissionCount > 0
    BY <1>0, <1>1 DEF AddressFree
  <2>2. \A d \in DOMAIN customer : customer[d].resubmissionCount \in Nat
    BY <1>0 DEF CustomerTypeOK, Customer
  <2> SUFFICES ASSUME NEW a \in DOMAIN customer', NEW d \in DOMAIN customer', a # d,
                      customer'[a].email # NoEmail, customer'[a].email = customer'[d].email
               PROVE  customer'[a].resubmissionCount + customer'[d].resubmissionCount > 0
    BY DEF AddressesDiffer
  <2>3. CASE a = c
    BY <1>5, <2>1, <2>2, <2>3
  <2>4. CASE d = c
    BY <1>5, <2>1, <2>2, <2>4
  <2>5. CASE a # c /\ d # c
    BY <1>0, <1>5, <2>5 DEF AddressesDiffer
  <2> QED
    BY <2>3, <2>4, <2>5
<1>11. ResubmissionsAnswer'
  <2>1. rejections[c] \in Nat
    BY <1>0, CustomerAssumption DEF CustomerTypeOK
  <2> QED
    BY <1>0, <1>1, <1>5, <2>1 DEF ResubmissionsAnswer
<1>12. AnswersCounted'
  <2>1. Cardinality({i \in DOMAIN history[c] : history[c][i]}) = 0
    <3>1. {i \in DOMAIN history[c] : history[c][i]} = {}
      BY <1>4
    <3> QED
      BY <3>1, FS_EmptySet
  <2> QED
    BY <1>0, <1>1, <1>5, <2>1 DEF AnswersCounted
<1>13. Newcomer'
  BY <1>1, <1>6, <1>7, Waits DEF Newcomer
<1>14. AddressFree'
  BY <1>1, <1>6, <1>7, Waits DEF AddressFree
<1>15. Pending'
  BY <1>0, <1>1, <1>5, <1>6, Waits DEF Pending, Doing
<1>16. Answering'
  BY <1>0, <1>1, <1>5, <1>6, Waits DEF Answering, Doing
<1> QED
  BY <1>8, <1>9, <1>10, <1>11, <1>12, <1>13, <1>14, <1>15, <1>16 DEF CustomersIInv, CustomersInOrder

LEMMA ImportCustomerKeeps ==
  ASSUME CustomersIInv, CustomerTypeOK', NEW c \in Customers, ImportCustomer(c)
  PROVE  CustomersIInv'
<1>0. /\ CustomerTypeOK /\ OnlyApprovedBuy /\ AddressesDiffer /\ ResubmissionsAnswer /\ AnswersCounted
      /\ Permitted /\ OneEach /\ Newcomer /\ AddressFree /\ Pending /\ Answering
  BY DEF CustomersIInv, CustomersInOrder
<1>1. /\ c \notin DOMAIN customer /\ history[c] = << >> /\ rejections[c] = 0
      /\ \A j \in CustomerClerks : Busy(j) => c \notin counter[j].who
      /\ UNCHANGED <<rejections, history, counter>>
  BY DEF ImportCustomer, Fresh, Exists, Busy
<1>2. /\ DOMAIN customer' = DOMAIN customer \cup {c}
      /\ \A d \in DOMAIN customer : customer'[d] = customer[d]
      /\ customer'[c].email = NoEmail /\ customer'[c].resubmissionCount = 0
      /\ customer'[c].approvalStatus = "PENDING" /\ ~customer'[c].requiresReview
  BY <1>1 DEF ImportCustomer, Imported
<1>3. \A j \in CustomerClerks : counter[j].op # "none" => c \notin counter[j].who
  BY <1>0, <1>1, BusyTask
<1>4. Permitted' /\ OneEach'
  BY <1>0, <1>1 DEF Permitted, OneEach, Busy
<1>5. OnlyApprovedBuy'
  BY <1>0, <1>1, <1>2 DEF OnlyApprovedBuy
<1>6. AddressesDiffer'
  BY <1>0, <1>2 DEF AddressesDiffer
<1>7. ResubmissionsAnswer'
  BY <1>0, <1>1, <1>2 DEF ResubmissionsAnswer
<1>8. AnswersCounted'
  <2>1. {i \in DOMAIN history[c] : history[c][i]} = {}
    BY <1>1
  <2>2. Cardinality({i \in DOMAIN history[c] : history[c][i]}) = 0
    BY <2>1, FS_EmptySet
  <2>3. ASSUME NEW d \in DOMAIN customer'
        PROVE  Cardinality({i \in DOMAIN history[d] : history[d][i]}) <= customer'[d].resubmissionCount
    <3>1. CASE d = c
      BY <1>2, <2>2, <3>1
    <3>2. CASE d # c
      BY <1>0, <1>2, <2>3, <3>2 DEF AnswersCounted
    <3> QED
      BY <3>1, <3>2
  <2>4. UNCHANGED history
    BY <1>1
  <2> QED
    BY <2>3, <2>4 DEF AnswersCounted
<1>9. Newcomer'
  BY <1>0, <1>1, <1>2, <1>3 DEF Newcomer, Busy
<1>10. AddressFree'
  BY <1>0, <1>1, <1>2, <1>3 DEF AddressFree
<1>11. Pending' /\ Answering'
  BY <1>0, <1>1, <1>2, <1>3 DEF Pending, Answering, Doing
<1> QED
  BY <1>4, <1>5, <1>6, <1>7, <1>8, <1>9, <1>10, <1>11 DEF CustomersIInv, CustomersInOrder

LEMMA UpdateKeeps ==
  ASSUME CustomersApart, CustomersIInv, CustomerTypeOK', NEW k \in CustomerClerks, UpdateCustomer(k)
  PROVE  CustomersIInv'
<1>0. /\ CustomerTypeOK /\ OnlyApprovedBuy /\ AddressesDiffer /\ ResubmissionsAnswer /\ AnswersCounted
      /\ Permitted /\ OneEach /\ Newcomer /\ AddressFree /\ Pending /\ Answering
  BY DEF CustomersIInv, CustomersInOrder
<1>1. /\ counter[k].op = "update" /\ Busy(k) /\ counter'[k] = Waiting
      /\ \A j \in CustomerClerks : j # k => counter'[j] = counter[j]
      /\ UNCHANGED <<rejections, history>>
  BY <1>0, BusyTask, ServedFacts DEF UpdateCustomer, Serving
<1>2. PICK c \in Customers : counter[k].who = {c}
  BY <1>0, <1>1 DEF OneEach
<1>3. customer' = [d \in DOMAIN customer |->
            IF d \in counter[k].who THEN [customer[d] EXCEPT !.email = counter[k].email] ELSE customer[d]]
  BY DEF UpdateCustomer, Writes
<1>4. /\ DOMAIN customer' = DOMAIN customer
      /\ \A d \in DOMAIN customer : /\ customer'[d].isApproved = customer[d].isApproved
                                    /\ customer'[d].approvalStatus = customer[d].approvalStatus
                                    /\ customer'[d].requiresReview = customer[d].requiresReview
                                    /\ customer'[d].resubmissionCount = customer[d].resubmissionCount
                                    /\ customer'[d].email = IF d = c THEN counter[k].email ELSE customer[d].email
  <2>1. \A d \in DOMAIN customer : customer[d] \in Customer
    BY <1>0 DEF CustomerTypeOK
  <2> QED
    BY <1>2, <1>3, <2>1 DEF Customer
<1>5. \A j \in CustomerClerks : counter'[j] # Waiting => j # k /\ Busy(j) /\ counter'[j] = counter[j]
  BY <1>1 DEF Busy
<1>6. \A j \in CustomerClerks : j # k => counter[j].op \notin {"create", "update"}
  BY <1>0, <1>1, Excluded
<1>7. Permitted' /\ OneEach'
  BY <1>0, <1>5, CalmRequests DEF Calm, GoesOn, Busy
<1>8. OnlyApprovedBuy'
  BY <1>0, <1>1, <1>4 DEF OnlyApprovedBuy
<1>9. AddressesDiffer'
  <2>1. counter[k].email # NoEmail /\ c \in DOMAIN customer =>
          \A d \in DOMAIN customer : c # d /\ customer[d].email = counter[k].email
            => customer[c].resubmissionCount + customer[d].resubmissionCount > 0
    BY <1>0, <1>1, <1>2 DEF AddressFree
  <2>2. \A d \in DOMAIN customer : customer[d].resubmissionCount \in Nat
    BY <1>0 DEF CustomerTypeOK, Customer
  <2> SUFFICES ASSUME NEW a \in DOMAIN customer', NEW d \in DOMAIN customer', a # d,
                      customer'[a].email # NoEmail, customer'[a].email = customer'[d].email
               PROVE  customer'[a].resubmissionCount + customer'[d].resubmissionCount > 0
    BY DEF AddressesDiffer
  <2>3. CASE a = c
    BY <1>4, <2>1, <2>2, <2>3
  <2>4. CASE d = c
    BY <1>4, <2>1, <2>2, <2>4
  <2>5. CASE a # c /\ d # c
    BY <1>0, <1>4, <2>5 DEF AddressesDiffer
  <2> QED
    BY <2>3, <2>4, <2>5
<1>10. ResubmissionsAnswer'
  BY <1>0, <1>1, <1>4 DEF ResubmissionsAnswer
<1>11. AnswersCounted'
  BY <1>0, <1>1, <1>4 DEF AnswersCounted
<1>12. Newcomer'
  BY <1>1, <1>5, <1>6, Waits DEF Newcomer
<1>13. AddressFree'
  BY <1>1, <1>5, <1>6, Waits DEF AddressFree
<1>14. Pending'
  BY <1>0, <1>1, <1>4, <1>5, Waits DEF Pending, Doing
<1>15. Answering'
  BY <1>0, <1>1, <1>4, <1>5, Waits DEF Answering, Doing
<1> QED
  BY <1>7, <1>8, <1>9, <1>10, <1>11, <1>12, <1>13, <1>14, <1>15 DEF CustomersIInv, CustomersInOrder

LEMMA DeleteKeeps ==
  ASSUME CustomersIInv, CustomerTypeOK', NEW c \in Customers, DeleteCustomer(c)
  PROVE  CustomersIInv'
<1>0. /\ CustomerTypeOK /\ OnlyApprovedBuy /\ AddressesDiffer /\ ResubmissionsAnswer /\ AnswersCounted
      /\ Permitted /\ OneEach /\ Newcomer /\ AddressFree /\ Pending /\ Answering
  BY DEF CustomersIInv, CustomersInOrder
<1>1. /\ UNCHANGED <<rejections, counter>> /\ DOMAIN customer' = DOMAIN customer \ {c}
      /\ \A d \in DOMAIN customer' : customer'[d] = customer[d] /\ history'[d] = history[d]
      /\ \A d \in Customers : history'[d] = history[d] \/ history'[d] = << >>
  BY <1>0 DEF DeleteCustomer, CustomerTypeOK
<1>2. OnlyApprovedBuy' /\ AddressesDiffer' /\ ResubmissionsAnswer'
  BY <1>0, <1>1 DEF OnlyApprovedBuy, AddressesDiffer, ResubmissionsAnswer
<1>3. AnswersCounted'
  BY <1>0, <1>1 DEF AnswersCounted
<1>4. Permitted' /\ OneEach'
  BY <1>0, <1>1 DEF Permitted, OneEach, Busy
<1>5. Newcomer'
  <2>1. \A k \in CustomerClerks : counter[k].op = "create" => counter[k].who \subseteq Customers
    BY <1>0 DEF OneEach
  <2> QED
    BY <1>0, <1>1, <2>1 DEF Newcomer, Busy
<1>6. AddressFree'
  BY <1>0, <1>1 DEF AddressFree
<1>7. Pending'
  BY <1>0, <1>1 DEF Pending, Doing
<1>8. Answering'
  BY <1>0, <1>1 DEF Answering, Doing
<1> QED
  BY <1>2, <1>3, <1>4, <1>5, <1>6, <1>7, <1>8 DEF CustomersIInv, CustomersInOrder

LEMMA ApprovalKeeps ==
  ASSUME CustomersIInv, CustomerTypeOK', NEW C \in SUBSET Customers, Writes(C, Approved),
         UNCHANGED <<rejections, history, counter>>,
         \A k \in CustomerClerks : counter[k].op # "resubmit"
  PROVE  CustomersIInv'
<1>0. /\ CustomerTypeOK /\ OnlyApprovedBuy /\ AddressesDiffer /\ ResubmissionsAnswer /\ AnswersCounted
      /\ Permitted /\ OneEach /\ Newcomer /\ AddressFree /\ Pending /\ Answering
  BY DEF CustomersIInv, CustomersInOrder
<1>1. /\ DOMAIN customer' = DOMAIN customer
      /\ \A d \in DOMAIN customer :
           /\ customer'[d].email = customer[d].email
           /\ customer'[d].resubmissionCount = customer[d].resubmissionCount
           /\ d \notin C => customer'[d] = customer[d]
           /\ d \in C => customer'[d].approvalStatus = "APPROVED"
  <2>1. \A d \in DOMAIN customer : customer[d] \in Customer
    BY <1>0 DEF CustomerTypeOK
  <2> QED
    BY <2>1 DEF Writes, Approved, Customer
<1>2. OnlyApprovedBuy'
  BY <1>0, <1>1 DEF OnlyApprovedBuy
<1>3. AddressesDiffer'
  BY <1>0, <1>1 DEF AddressesDiffer
<1>4. ResubmissionsAnswer'
  BY <1>0, <1>1 DEF ResubmissionsAnswer
<1>5. AnswersCounted'
  BY <1>0, <1>1 DEF AnswersCounted
<1>6. Permitted' /\ OneEach'
  BY <1>0 DEF Permitted, OneEach, Busy
<1>7. Newcomer'
  BY <1>0, <1>1 DEF Newcomer, Busy
<1>8. AddressFree'
  BY <1>0, <1>1 DEF AddressFree
<1>9. Pending' /\ Answering'
  BY DEF Pending, Answering, Doing
<1> QED
  BY <1>2, <1>3, <1>4, <1>5, <1>6, <1>7, <1>8, <1>9 DEF CustomersIInv, CustomersInOrder

\* What a rejection leaves, whether or not a request begins with it.
LEMMA RejectionRows ==
  ASSUME CustomersIInv, NEW C \in SUBSET Customers, Rejects(C), UNCHANGED history
  PROVE  /\ DOMAIN customer' = DOMAIN customer
         /\ \A d \in DOMAIN customer :
              /\ customer'[d].email = customer[d].email
              /\ customer'[d].resubmissionCount = customer[d].resubmissionCount
              /\ customer'[d].isApproved => customer[d].isApproved
         /\ \A d \in Customers : rejections'[d] \in Nat /\ rejections[d] \in Nat /\ rejections'[d] >= rejections[d]
         /\ OnlyApprovedBuy' /\ AddressesDiffer' /\ ResubmissionsAnswer' /\ AnswersCounted'
<1>0. CustomerTypeOK /\ OnlyApprovedBuy /\ AddressesDiffer /\ ResubmissionsAnswer /\ AnswersCounted
  BY DEF CustomersIInv, CustomersInOrder
<1>1. \A d \in DOMAIN customer : d \in Customers /\ customer[d] \in Customer
  BY <1>0 DEF CustomerTypeOK
<1>2. /\ DOMAIN customer' = DOMAIN customer
      /\ \A d \in DOMAIN customer :
           /\ customer'[d].email = customer[d].email
           /\ customer'[d].resubmissionCount = customer[d].resubmissionCount
           /\ d \notin C => customer'[d] = customer[d]
           /\ d \in C => ~customer'[d].isApproved /\ customer'[d].approvalStatus = "REJECTED"
  BY <1>1 DEF Rejects, Writes, Rejected, Customer
<1>3. \A d \in Customers : /\ rejections[d] \in Nat
                           /\ rejections'[d] = IF d \in C THEN rejections[d] + 1 ELSE rejections[d]
  BY <1>0, CustomerAssumption DEF CustomerTypeOK, Rejects
<1>4. OnlyApprovedBuy'
  BY <1>0, <1>1, <1>2, <1>3 DEF OnlyApprovedBuy
<1>5. AddressesDiffer'
  BY <1>0, <1>2 DEF AddressesDiffer
<1>6. ResubmissionsAnswer'
  <2>1. \A d \in DOMAIN customer : customer[d].resubmissionCount \in Nat
    BY <1>1 DEF Customer
  <2> QED
    BY <1>0, <1>1, <1>2, <1>3, <2>1 DEF ResubmissionsAnswer
<1>7. AnswersCounted'
  BY <1>0, <1>2 DEF AnswersCounted
<1>8. \A d \in DOMAIN customer : customer'[d].isApproved => customer[d].isApproved
  BY <1>2
<1>9. \A d \in Customers : rejections'[d] \in Nat /\ rejections[d] \in Nat /\ rejections'[d] >= rejections[d]
  BY <1>3
<1> QED
  BY <1>2, <1>4, <1>5, <1>6, <1>7, <1>8, <1>9

LEMMA RejectKeeps ==
  ASSUME CustomersIInv, CustomerTypeOK', NEW C \in SUBSET Customers, Rejects(C), UNCHANGED <<history, counter>>
  PROVE  CustomersIInv'
<1>0. /\ CustomerTypeOK /\ Permitted /\ OneEach /\ Newcomer /\ AddressFree /\ Pending /\ Answering
  BY DEF CustomersIInv, CustomersInOrder
<1>1. /\ DOMAIN customer' = DOMAIN customer
      /\ \A d \in DOMAIN customer :
           /\ customer'[d].email = customer[d].email
           /\ customer'[d].resubmissionCount = customer[d].resubmissionCount
           /\ customer'[d].isApproved => customer[d].isApproved
      /\ \A d \in Customers : rejections'[d] \in Nat /\ rejections[d] \in Nat /\ rejections'[d] >= rejections[d]
      /\ OnlyApprovedBuy' /\ AddressesDiffer' /\ ResubmissionsAnswer' /\ AnswersCounted'
  BY RejectionRows
<1>2. Permitted' /\ OneEach'
  BY <1>0 DEF Permitted, OneEach, Busy
<1>3. Newcomer'
  BY <1>0, <1>1 DEF Newcomer, Busy
<1>4. AddressFree'
  BY <1>0, <1>1 DEF AddressFree
<1>5. Pending'
  <2> SUFFICES ASSUME NEW k \in CustomerClerks, Doing(k, "resubmit", {1, 2}), NEW d \in counter[k].who
               PROVE  /\ counter[k].count < rejections'[d]
                      /\ d \in DOMAIN customer =>
                           ~customer'[d].isApproved /\ customer'[d].resubmissionCount = counter[k].count
    BY <1>1 DEF Pending, Doing
  <2>1. d \in Customers
    BY <1>0 DEF OneEach, Doing
  <2>2. counter[k].count \in Nat
    BY <1>0, BusyTask DEF Doing, CustomerTask
  <2>3. counter[k].count < rejections[d]
    BY <1>0 DEF Pending
  <2>4. counter[k].count < rejections'[d]
    BY <1>1, <2>1, <2>2, <2>3
  <2> QED
    BY <1>0, <1>1, <2>4 DEF Pending
<1>6. Answering'
  BY <1>0, <1>1 DEF Answering, Doing
<1> QED
  BY <1>1, <1>2, <1>3, <1>4, <1>5, <1>6 DEF CustomersIInv, CustomersInOrder

LEMMA BulkRejectKeeps ==
  ASSUME CustomersIInv, CustomerTypeOK', NEW k \in CustomerClerks, NEW C \in SUBSET DOMAIN customer, BulkReject(k, C)
  PROVE  CustomersIInv'
<1>0. /\ CustomerTypeOK /\ Permitted /\ OneEach /\ Newcomer /\ AddressFree /\ Pending /\ Answering
      /\ "bulkReject" \in CustomerOp /\ C \in SUBSET Customers
  BY DEF CustomersIInv, CustomersInOrder, CustomerTypeOK, CustomerOp
<1>1. /\ DOMAIN customer' = DOMAIN customer
      /\ \A d \in DOMAIN customer :
           /\ customer'[d].email = customer[d].email
           /\ customer'[d].resubmissionCount = customer[d].resubmissionCount
           /\ customer'[d].isApproved => customer[d].isApproved
      /\ \A d \in Customers : rejections'[d] \in Nat /\ rejections[d] \in Nat /\ rejections'[d] >= rejections[d]
      /\ OnlyApprovedBuy' /\ AddressesDiffer' /\ ResubmissionsAnswer' /\ AnswersCounted'
  BY <1>0, RejectionRows DEF BulkReject
<1>2. /\ ~Busy(k) /\ counter'[k].op = "bulkReject" /\ counter'[k].who = C
      /\ \A j \in CustomerClerks : j # k => counter'[j] = counter[j]
      /\ UNCHANGED history
  BY <1>0, ServeFacts DEF BulkReject
<1>3. Permitted' /\ OneEach'
  BY <1>0, BegunRequest DEF BulkReject
<1>4. Newcomer'
  BY <1>0, <1>1, <1>2 DEF Newcomer, Busy
<1>5. AddressFree'
  BY <1>0, <1>1, <1>2 DEF AddressFree
<1>6. Pending'
  <2> SUFFICES ASSUME NEW j \in CustomerClerks, j # k, Doing(j, "resubmit", {1, 2}), NEW d \in counter[j].who
               PROVE  /\ counter[j].count < rejections'[d]
                      /\ d \in DOMAIN customer =>
                           ~customer'[d].isApproved /\ customer'[d].resubmissionCount = counter[j].count
    BY <1>1, <1>2 DEF Pending, Doing
  <2>1. d \in Customers
    BY <1>0 DEF OneEach, Doing
  <2>2. counter[j].count \in Nat
    BY <1>0, BusyTask DEF Doing, CustomerTask
  <2>3. counter[j].count < rejections[d]
    BY <1>0 DEF Pending
  <2>4. counter[j].count < rejections'[d]
    BY <1>1, <2>1, <2>2, <2>3
  <2> QED
    BY <1>0, <1>1, <2>4 DEF Pending
<1>7. Answering'
  BY <1>0, <1>1, <1>2 DEF Answering, Doing
<1> QED
  BY <1>1, <1>3, <1>4, <1>5, <1>6, <1>7 DEF CustomersIInv, CustomersInOrder

LEMMA RecordKeeps ==
  ASSUME CustomersIInv, CustomerTypeOK', NEW k \in CustomerClerks, RecordRejections(k)
  PROVE  CustomersIInv'
<1>0. /\ CustomerTypeOK /\ OnlyApprovedBuy /\ AddressesDiffer /\ ResubmissionsAnswer /\ AnswersCounted
      /\ Permitted /\ OneEach /\ Newcomer /\ AddressFree /\ Pending /\ Answering
  BY DEF CustomersIInv, CustomersInOrder
<1>1. /\ counter[k].op = "bulkReject" /\ Busy(k) /\ counter'[k] = Waiting
      /\ \A j \in CustomerClerks : j # k => counter'[j] = counter[j]
      /\ UNCHANGED <<customer, rejections>>
      /\ \A c \in Customers : history'[c] = IF c \in counter[k].who THEN Append(history[c], FALSE) ELSE history[c]
  BY <1>0, BusyTask, ServedFacts DEF RecordRejections, Serving
<1>2. \A c \in Customers : Marks(history'[c]) = Marks(history[c])
  <2>1. \A c \in Customers : history[c] \in Seq(BOOLEAN)
    BY <1>0 DEF CustomerTypeOK
  <2>2. ASSUME NEW h \in Seq(BOOLEAN) PROVE Marks(Append(h, FALSE)) = Marks(h)
    BY DEF Marks
  <2> QED
    BY <1>1, <2>1, <2>2
<1>3. \A j \in CustomerClerks : counter'[j] # Waiting => j # k /\ Busy(j) /\ counter'[j] = counter[j]
  BY <1>1 DEF Busy
<1>4. Permitted' /\ OneEach'
  BY <1>0, <1>3, CalmRequests DEF Calm, GoesOn, Busy
<1>5. OnlyApprovedBuy' /\ AddressesDiffer' /\ ResubmissionsAnswer'
  BY <1>0, <1>1 DEF OnlyApprovedBuy, AddressesDiffer, ResubmissionsAnswer
<1>6. AnswersCounted'
  BY <1>0, <1>1, <1>2 DEF AnswersCounted, Marks, CustomerTypeOK
<1>7. Newcomer'
  <2> SUFFICES ASSUME NEW i \in CustomerClerks, counter'[i].op = "create", NEW d \in counter'[i].who
               PROVE  /\ d \notin DOMAIN customer /\ history'[d] = << >>
                      /\ \A j \in CustomerClerks : j # i /\ counter'[j] # Waiting => d \notin counter'[j].who
    BY <1>1 DEF Newcomer, Busy
  <2>1. i # k /\ counter'[i] = counter[i] /\ d \in Customers
    BY <1>0, <1>1, Waits DEF OneEach
  <2>2. d \notin counter[k].who
    BY <1>0, <1>1, <2>1 DEF Newcomer
  <2> QED
    BY <1>0, <1>1, <1>3, <2>1, <2>2 DEF Newcomer
<1>8. AddressFree'
  BY <1>0, <1>1, <1>3, Waits DEF AddressFree
<1>9. Pending'
  BY <1>0, <1>1, <1>3, Waits DEF Pending, Doing
<1>10. Answering'
  BY <1>0, <1>1, <1>2, <1>3, Waits DEF Answering, Doing, CustomerTypeOK
<1> QED
  BY <1>4, <1>5, <1>6, <1>7, <1>8, <1>9, <1>10 DEF CustomersIInv, CustomersInOrder

LEMMA FindKeeps ==
  ASSUME CustomersIInv, CustomerTypeOK', NEW k \in CustomerClerks, FindLatestRejection(k)
  PROVE  CustomersIInv'
<1>0. /\ CustomerTypeOK /\ OnlyApprovedBuy /\ AddressesDiffer /\ ResubmissionsAnswer /\ AnswersCounted
      /\ Permitted /\ OneEach /\ Newcomer /\ AddressFree /\ Pending /\ Answering
  BY DEF CustomersIInv, CustomersInOrder
<1>1. /\ counter[k].op = "resubmit" /\ counter[k].step = 1 /\ counter[k] \in CustomerTask
      /\ UNCHANGED <<customer, rejections, history>>
  BY <1>0, BusyTask DEF FindLatestRejection, Serving
<1>2. PICK c \in counter[k].who : counter' = [counter EXCEPT ![k].step = 2, ![k].row = Len(history[c])]
  BY DEF FindLatestRejection
<1>2b. counter'[k] = [counter[k] EXCEPT !.step = 2, !.row = Len(history[c])]
  BY <1>0, <1>2 DEF CustomerTypeOK
<1>3. \A j \in CustomerClerks : j # k => counter'[j] = counter[j]
  BY <1>0, <1>2 DEF CustomerTypeOK
<1>4. GoesOn(k) /\ counter'[k].step = 2 /\ counter'[k].op = "resubmit"
  <2>1. /\ counter'[k].op = counter[k].op /\ counter'[k].who = counter[k].who /\ counter'[k].step = 2
        /\ counter'[k].email = counter[k].email /\ counter'[k].count = counter[k].count
    BY <1>1, <1>2b DEF CustomerTask
  <2>2. counter[k] # Waiting /\ counter'[k] # Waiting
    BY <1>1, <2>1, Waits
  <2> QED
    BY <1>1, <2>1, <2>2 DEF GoesOn
<1>5. \A j \in CustomerClerks : j # k /\ counter'[j] # Waiting => Busy(j) /\ counter'[j] = counter[j]
  BY <1>3 DEF Busy
<1>6. Permitted' /\ OneEach'
  BY <1>0, <1>4, <1>5, CalmRequests DEF Calm, GoesOn, Busy
<1>7. OnlyApprovedBuy' /\ AddressesDiffer' /\ ResubmissionsAnswer' /\ AnswersCounted'
  BY <1>0, <1>1 DEF OnlyApprovedBuy, AddressesDiffer, ResubmissionsAnswer, AnswersCounted
<1>8. Newcomer'
  BY <1>0, <1>1, <1>3, <1>4, <1>5 DEF Newcomer, Busy, GoesOn
<1>9. AddressFree'
  BY <1>0, <1>1, <1>3, <1>4 DEF AddressFree, GoesOn
<1>10. Pending'
  BY <1>0, <1>1, <1>3, <1>4 DEF Pending, Doing, GoesOn
<1>11. Answering'
  BY <1>0, <1>1, <1>3, <1>4 DEF Answering, Doing, GoesOn
<1> QED
  BY <1>6, <1>7, <1>8, <1>9, <1>10, <1>11 DEF CustomersIInv, CustomersInOrder

LEMMA MarksFinite ==
  ASSUME NEW h \in Seq(BOOLEAN)
  PROVE  IsFiniteSet(Marks(h)) /\ Cardinality(Marks(h)) \in Nat
<1>1. Len(h) \in Nat /\ DOMAIN h = 1 .. Len(h)
  BY LenProperties
<1>2. IsFiniteSet(1 .. Len(h))
  BY <1>1, FS_Interval
<1>3. Marks(h) \in SUBSET (1 .. Len(h))
  BY <1>1 DEF Marks
<1>4. IsFiniteSet(Marks(h))
  BY <1>2, <1>3, FS_Subset
<1> QED
  BY <1>4, FS_CardinalityType

LEMMA ResubmitKeeps ==
  ASSUME CustomersApart, CustomersIInv, CustomerTypeOK', NEW k \in CustomerClerks, ResubmitCustomer(k)
  PROVE  CustomersIInv'
<1>0. /\ CustomerTypeOK /\ OnlyApprovedBuy /\ AddressesDiffer /\ ResubmissionsAnswer /\ AnswersCounted
      /\ Permitted /\ OneEach /\ Newcomer /\ AddressFree /\ Pending /\ Answering
  BY DEF CustomersIInv, CustomersInOrder
<1>1. /\ counter[k].op = "resubmit" /\ counter[k].step = 2 /\ Busy(k) /\ counter[k] \in CustomerTask
      /\ UNCHANGED <<rejections, history>>
  BY <1>0, BusyTask DEF ResubmitCustomer, Serving
<1>2. PICK c \in Customers : counter[k].who = {c}
  BY <1>0, <1>1 DEF OneEach
<1>3. /\ \A j \in CustomerClerks : j # k => counter'[j] = counter[j]
      /\ counter'[k] = Waiting \/ (GoesOn(k) /\ counter'[k].step = 3)
  <2>1. CASE NextStep(k)
    BY <1>0, <1>1, <2>1, NextStepFacts
  <2>2. CASE Served(k)
    BY <1>0, <2>2, ServedFacts
  <2> QED
    BY <2>1, <2>2 DEF ResubmitCustomer
<1>4. customer' = [d \in DOMAIN customer |->
            IF d \in counter[k].who THEN Resubmitted(customer[d], counter[k]) ELSE customer[d]]
  BY DEF ResubmitCustomer, Writes
<1>5. /\ DOMAIN customer' = DOMAIN customer
      /\ \A d \in DOMAIN customer : d # c => customer'[d] = customer[d]
      /\ c \in DOMAIN customer =>
           /\ customer'[c].isApproved = customer[c].isApproved
           /\ customer'[c].approvalStatus = "RESUBMITTED"
           /\ customer'[c].resubmissionCount = counter[k].count + 1
  <2>1. \A d \in DOMAIN customer : customer[d] \in Customer
    BY <1>0 DEF CustomerTypeOK
  <2> QED
    BY <1>2, <1>4, <2>1 DEF Resubmitted, Customer
<1>6. /\ counter[k].count \in Nat /\ counter[k].count < rejections[c] /\ rejections[c] \in Nat
      /\ c \in DOMAIN customer => ~customer[c].isApproved /\ customer[c].resubmissionCount = counter[k].count
  <2>1. Doing(k, "resubmit", {1, 2}) /\ c \in counter[k].who
    BY <1>1, <1>2 DEF Doing
  <2>2. counter[k].count \in Nat
    BY <1>1 DEF CustomerTask
  <2>3. rejections[c] \in Nat
    BY <1>0, CustomerAssumption DEF CustomerTypeOK
  <2> QED
    BY <1>0, <2>1, <2>2, <2>3 DEF Pending
<1>7. \A j \in CustomerClerks : j # k => counter[j].op # "resubmit"
  BY <1>0, <1>1, Excluded
<1>8. \A j \in CustomerClerks : j # k /\ counter'[j] # Waiting => Busy(j) /\ counter'[j] = counter[j]
  BY <1>3 DEF Busy
<1>9. \A d \in DOMAIN customer : customer[d].resubmissionCount \in Nat
  BY <1>0 DEF CustomerTypeOK, Customer
<1>10. Permitted' /\ OneEach'
  BY <1>0, <1>3, <1>8, CalmRequests DEF Calm, GoesOn, Busy
<1>11. OnlyApprovedBuy'
  BY <1>0, <1>1, <1>5, <1>6 DEF OnlyApprovedBuy
<1>12. AddressesDiffer'
  BY <1>0, <1>5, <1>6, <1>9 DEF AddressesDiffer
<1>13. ResubmissionsAnswer'
  BY <1>0, <1>1, <1>5, <1>6 DEF ResubmissionsAnswer
<1>14. Cardinality(Marks(history[c])) <= counter[k].count \/ c \notin DOMAIN customer
  BY <1>0, <1>6 DEF AnswersCounted, Marks
<1>15. IsFiniteSet(Marks(history[c])) /\ Cardinality(Marks(history[c])) \in Nat
  <2>1. history[c] \in Seq(BOOLEAN)
    BY <1>0 DEF CustomerTypeOK
  <2>2. Marks(history[c]) \subseteq 1 .. Len(history[c]) /\ Len(history[c]) \in Nat
    BY <2>1 DEF Marks
  <2> QED
    BY <2>1, MarksFinite
<1>16. AnswersCounted'
  <2>1. c \in DOMAIN customer => Cardinality(Marks(history[c])) <= counter[k].count + 1
    BY <1>6, <1>14, <1>15
  <2> QED
    BY <1>0, <1>1, <1>5, <2>1 DEF AnswersCounted, Marks
<1>17. Newcomer'
  BY <1>0, <1>1, <1>3, <1>5, <1>8, Waits DEF Newcomer, Busy, GoesOn
<1>18. AddressFree'
  <2> SUFFICES ASSUME NEW i \in CustomerClerks, counter'[i].op \in {"create", "update"}, counter'[i].email # NoEmail
               PROVE  /\ counter'[i].op = "create" =>
                           \A d \in DOMAIN customer : customer'[d].email = counter'[i].email
                             => customer'[d].resubmissionCount > 0
                      /\ counter'[i].op = "update" =>
                           \A a \in counter'[i].who, d \in DOMAIN customer :
                             a \in DOMAIN customer /\ a # d /\ customer'[d].email = counter'[i].email
                               => customer'[a].resubmissionCount + customer'[d].resubmissionCount > 0
    BY <1>5 DEF AddressFree
  <2>1. counter'[i] = counter[i]
    BY <1>1, <1>3, Waits DEF GoesOn
  <2> QED
    BY <1>0, <1>5, <1>6, <1>9, <2>1 DEF AddressFree
<1>19. Pending'
  BY <1>1, <1>3, <1>7, Waits DEF Pending, Doing, GoesOn
<1>20. Answering'
  <2>1. c \in DOMAIN customer => Cardinality(Marks(history[c])) < counter[k].count + 1
    BY <1>6, <1>14, <1>15
  <2> QED
    BY <1>1, <1>2, <1>3, <1>5, <1>7, <2>1, Waits DEF Answering, Doing, GoesOn
<1> QED
  BY <1>10, <1>11, <1>12, <1>13, <1>16, <1>17, <1>18, <1>19, <1>20 DEF CustomersIInv, CustomersInOrder

LEMMA MarkKeeps ==
  ASSUME CustomersApart, CustomersIInv, CustomerTypeOK', NEW k \in CustomerClerks, MarkRejection(k)
  PROVE  CustomersIInv'
<1>0. /\ CustomerTypeOK /\ OnlyApprovedBuy /\ AddressesDiffer /\ ResubmissionsAnswer /\ AnswersCounted
      /\ Permitted /\ OneEach /\ Newcomer /\ AddressFree /\ Pending /\ Answering
  BY DEF CustomersIInv, CustomersInOrder
<1>1. /\ counter[k].op = "resubmit" /\ counter[k].step = 3 /\ Busy(k) /\ counter[k] \in CustomerTask
      /\ counter'[k] = Waiting
      /\ \A j \in CustomerClerks : j # k => counter'[j] = counter[j]
      /\ UNCHANGED <<customer, rejections>>
  BY <1>0, BusyTask, ServedFacts DEF MarkRejection, Serving
<1>2. PICK c \in Customers : counter[k].who = {c}
  BY <1>0, <1>1 DEF OneEach
<1>3. /\ \A d \in Customers : d # c => history'[d] = history[d]
      /\ history'[c] = Marked(history[c], counter[k].row)
  BY <1>2 DEF MarkRejection
<1>4. \A j \in CustomerClerks : counter'[j] # Waiting => j # k /\ Busy(j) /\ counter'[j] = counter[j]
  BY <1>1 DEF Busy
<1>5. \A j \in CustomerClerks : j # k => counter[j].op # "resubmit"
  BY <1>0, <1>1, Excluded
<1>6. c \in DOMAIN customer => Cardinality(Marks(history'[c])) <= customer[c].resubmissionCount
  <2> SUFFICES ASSUME c \in DOMAIN customer
               PROVE  Cardinality(Marks(history'[c])) <= customer[c].resubmissionCount
    OBVIOUS
  <2> DEFINE n == counter[k].row
  <2>1. history[c] \in Seq(BOOLEAN) /\ n \in Nat /\ customer[c].resubmissionCount \in Nat
    BY <1>0, <1>1 DEF CustomerTypeOK, CustomerTask, Customer
  <2>2. Marks(history[c]) \subseteq 1 .. Len(history[c]) /\ Len(history[c]) \in Nat
    BY <2>1 DEF Marks
  <2>3. IsFiniteSet(Marks(history[c])) /\ Cardinality(Marks(history[c])) \in Nat
    BY <2>1, MarksFinite
  <2>4. Marks(history'[c]) \subseteq Marks(history[c]) \cup {n}
    <3> DEFINE m == Marked(history[c], n)
    <3>1. /\ DOMAIN m = DOMAIN history[c]
          /\ \A i \in DOMAIN history[c] : m[i] <=> i = n \/ history[c][i]
      BY <2>1, MarkedType
    <3>2. history'[c] = m
      BY <1>3
    <3> HIDE DEF m
    <3>3. Marks(m) \subseteq Marks(history[c]) \cup {n}
      BY <3>1 DEF Marks
    <3> QED
      BY <3>2, <3>3
  <2>5. /\ IsFiniteSet(Marks(history[c]) \cup {n})
        /\ Cardinality(Marks(history[c]) \cup {n}) <= Cardinality(Marks(history[c])) + 1
    <3>1. /\ IsFiniteSet(Marks(history[c]) \cup {n})
          /\ \/ Cardinality(Marks(history[c]) \cup {n}) = Cardinality(Marks(history[c]))
             \/ Cardinality(Marks(history[c]) \cup {n}) = Cardinality(Marks(history[c])) + 1
      BY <2>3, FS_AddElement
    <3> QED
      BY <2>3, <3>1
  <2>6. /\ Cardinality(Marks(history'[c])) <= Cardinality(Marks(history[c]) \cup {n})
        /\ Cardinality(Marks(history'[c])) \in Nat /\ Cardinality(Marks(history[c]) \cup {n}) \in Nat
    <3>1. /\ IsFiniteSet(Marks(history'[c]))
          /\ Cardinality(Marks(history'[c])) <= Cardinality(Marks(history[c]) \cup {n})
      BY <2>4, <2>5, FS_Subset
    <3> QED
      BY <2>5, <3>1, FS_CardinalityType
  <2>7. Cardinality(Marks(history[c])) < customer[c].resubmissionCount
    BY <1>0, <1>1, <1>2 DEF Answering, Doing
  <2> QED
    BY <2>1, <2>3, <2>5, <2>6, <2>7
<1>7. Permitted' /\ OneEach'
  BY <1>0, <1>4, CalmRequests DEF Calm, GoesOn, Busy
<1>8. OnlyApprovedBuy' /\ AddressesDiffer' /\ ResubmissionsAnswer'
  BY <1>0, <1>1 DEF OnlyApprovedBuy, AddressesDiffer, ResubmissionsAnswer
<1>9. AnswersCounted'
  BY <1>0, <1>1, <1>3, <1>6 DEF AnswersCounted, Marks, CustomerTypeOK
<1>10. Newcomer'
  <2> SUFFICES ASSUME NEW i \in CustomerClerks, counter'[i].op = "create", NEW d \in counter'[i].who
               PROVE  /\ d \notin DOMAIN customer /\ history'[d] = << >>
                      /\ \A j \in CustomerClerks : j # i /\ counter'[j] # Waiting => d \notin counter'[j].who
    BY <1>1 DEF Newcomer, Busy
  <2>1. i # k /\ counter'[i] = counter[i] /\ d \in Customers
    BY <1>0, <1>1, Waits DEF OneEach
  <2>2. d # c
    BY <1>0, <1>1, <1>2, <2>1 DEF Newcomer
  <2> QED
    BY <1>0, <1>3, <1>4, <2>1, <2>2 DEF Newcomer
<1>11. AddressFree'
  BY <1>0, <1>1, <1>4, Waits DEF AddressFree
<1>12. Pending'
  BY <1>0, <1>1, <1>4, Waits DEF Pending, Doing
<1>13. Answering'
  BY <1>1, <1>5, Waits DEF Answering, Doing
<1> QED
  BY <1>7, <1>8, <1>9, <1>10, <1>11, <1>12, <1>13 DEF CustomersIInv, CustomersInOrder

LEMMA NextCustomersIInv ==
  ASSUME CustomersApart, CustomersIInv, [CustomerNext]_customerVars
  PROVE  CustomersIInv'
<1>0. CustomerTypeOK
  BY DEF CustomersIInv, CustomersInOrder
<1>1. CustomerTypeOK'
  BY <1>0, CustomerAssumption, NextCustomerType
<1>2. ASSUME NEW k \in CustomerClerks, NEW c \in Customers, NEW e \in Emails \cup {NoEmail}, BeginCreate(k, c, e)
      PROVE  CustomersIInv'
  BY <1>1, <1>2, Begun DEF BeginCreate, Fresh
<1>3. ASSUME NEW k \in CustomerClerks, NEW c \in Customers, NEW e \in Emails \cup {NoEmail}, BeginUpdate(k, c, e)
      PROVE  CustomersIInv'
  BY <1>1, <1>3, Begun DEF BeginUpdate
<1>4. ASSUME NEW k \in CustomerClerks, NEW c \in Customers, NEW e \in Emails \cup {NoEmail}, BeginResubmit(k, c, e)
      PROVE  CustomersIInv'
  BY <1>1, <1>4, Begun DEF BeginResubmit
<1>5. ASSUME NEW c \in Customers, ApproveCustomer(c)
      PROVE  CustomersIInv'
  <2>1. \A k \in CustomerClerks : counter[k].op # "resubmit"
    BY <1>0, <1>5, NotBegun DEF ApproveCustomer, CustomerOp
  <2> QED
    BY <1>1, <1>5, <2>1, ApprovalKeeps DEF ApproveCustomer
<1>6. ASSUME NEW C \in SUBSET DOMAIN customer, BulkApprove(C)
      PROVE  CustomersIInv'
  <2>1. \A k \in CustomerClerks : counter[k].op # "resubmit"
    BY <1>0, <1>6, NotBegun DEF BulkApprove, CustomerOp
  <2>2. C \in SUBSET Customers
    BY <1>0 DEF CustomerTypeOK
  <2> QED
    BY <1>1, <1>6, <2>1, <2>2, ApprovalKeeps DEF BulkApprove
<1>7. ASSUME NEW c \in Customers, RejectCustomer(c)
      PROVE  CustomersIInv'
  BY <1>1, <1>7, RejectKeeps DEF RejectCustomer
<1>8. CASE UNCHANGED customerVars
  BY <1>8 DEF customerVars, CustomersIInv, CustomersInOrder, CustomerTypeOK, OnlyApprovedBuy, AddressesDiffer,
              ResubmissionsAnswer, AnswersCounted, Permitted, OneEach, Newcomer, AddressFree, Pending, Answering,
              Busy, Doing
<1> QED
  BY <1>1, <1>2, <1>3, <1>4, <1>5, <1>6, <1>7, <1>8, CreateKeeps, ImportCustomerKeeps, UpdateKeeps, DeleteKeeps, BulkRejectKeeps,
     RecordKeeps, FindKeeps, ResubmitKeeps, MarkKeeps
     DEF CustomerNext

LEMMA InitCustomersIInv == CustomerInit => CustomersIInv
<1> SUFFICES ASSUME CustomerInit PROVE CustomersIInv
  OBVIOUS
<1>1. CustomerTypeOK
  BY CustomerAssumption, CustomerInitType
<1>2. DOMAIN customer = {} /\ \A k \in CustomerClerks : counter[k] = Waiting /\ counter[k].op = "none"
  BY DEF CustomerInit, Waiting
<1> QED
  BY <1>1, <1>2 DEF CustomersIInv, CustomersInOrder, OnlyApprovedBuy, AddressesDiffer,
              ResubmissionsAnswer, AnswersCounted, Permitted, OneEach, Newcomer, AddressFree, Pending, Answering,
              Busy, Doing

\* Whoever may buy was approved, or was imported and never reviewed; two
\* customers have one address only through a resubmission, and resubmissions
\* answer rejections one by one: all of it if what takes addresses runs alone
\* and no resubmission runs beside another or beside an approval.
THEOREM CustomersStayInOrder ==
  ASSUME CustomersApart
  PROVE  CustomerSpec => []CustomersInOrder
<1>1. CustomerInit => CustomersIInv
  BY InitCustomersIInv
<1>2. CustomersIInv /\ [CustomerNext]_customerVars => CustomersIInv'
  BY NextCustomersIInv
<1>3. CustomersIInv => CustomersInOrder
  BY DEF CustomersIInv
<1> QED
  BY <1>1, <1>2, <1>3, PTL DEF CustomerSpec

-----------------------------------------------------------------------------
(* Reviews, however requests overlap *)

\* A resubmission that has not been written yet was already going on before
\* the step, for the same customer and from the same count.
Continues(j) ==
  counter'[j].op = "resubmit" /\ counter'[j].step \in {1, 2} =>
    Doing(j, "resubmit", {1, 2}) /\ counter'[j].who = counter[j].who /\ counter'[j].count = counter[j].count

LEMMA ServeContinues ==
  ASSUME CustomerTypeOK, NEW k \in CustomerClerks, NEW op \in CustomerOp, NEW C, NEW e, NEW n, Serve(k, op, C, e, n),
         NEW j \in CustomerClerks, j # k \/ op # "resubmit"
  PROVE  Continues(j)
BY ServeFacts DEF Continues, Doing

LEMMA ServedContinues ==
  ASSUME CustomerTypeOK, NEW k \in CustomerClerks, Served(k), NEW j \in CustomerClerks
  PROVE  Continues(j)
BY ServedFacts DEF Continues, Doing

LEMMA FindContinues ==
  ASSUME CustomerTypeOK, NEW k \in CustomerClerks, FindLatestRejection(k), NEW j \in CustomerClerks
  PROVE  Continues(j)
<1>1. counter[k] \in CustomerTask /\ counter[k].op = "resubmit" /\ counter[k].step = 1
  BY BusyTask DEF FindLatestRejection, Serving
<1>2. PICK c \in counter[k].who : counter' = [counter EXCEPT ![k].step = 2, ![k].row = Len(history[c])]
  BY DEF FindLatestRejection
<1>3. counter'[k].who = counter[k].who /\ counter'[k].count = counter[k].count
  BY <1>1, <1>2 DEF CustomerTypeOK, CustomerTask
<1>4. j # k => counter'[j] = counter[j]
  BY <1>2 DEF CustomerTypeOK
<1> QED
  BY <1>1, <1>3, <1>4 DEF Continues, Doing

LEMMA ResubmitContinues ==
  ASSUME CustomerTypeOK, NEW k \in CustomerClerks, ResubmitCustomer(k), NEW j \in CustomerClerks
  PROVE  Continues(j)
<1>1. CASE Served(k)
  BY <1>1, ServedContinues
<1>2. CASE NextStep(k)
  <2>1. Busy(k) /\ counter[k].step = 2
    BY BusyTask DEF ResubmitCustomer, Serving
  <2>2. counter'[k].step = 3 /\ (j # k => counter'[j] = counter[j])
    BY <1>2, <2>1, NextStepFacts
  <2> QED
    BY <2>2 DEF Continues, Doing
<1> QED
  BY <1>1, <1>2 DEF ResubmitCustomer

\* What a resubmission counts from is below the rejections of its customer.
CountsBelow ==
  \A k \in CustomerClerks : Doing(k, "resubmit", {1, 2}) =>
    \A c \in counter[k].who : c \in Customers /\ counter[k].count < rejections[c]

AnswersIInv == CustomerTypeOK /\ ResubmissionsAnswer /\ CountsBelow

\* A step that adds rejections, begins no resubmission, and leaves each row
\* as it was, newly rejected, or not rejected with a count that is in order.
LEMMA AnswersStep ==
  ASSUME AnswersIInv, CustomerTypeOK', \A c \in Customers : rejections'[c] >= rejections[c],
         \A j \in CustomerClerks : Continues(j),
         \A c \in DOMAIN customer' :
           \/ /\ c \in DOMAIN customer
              /\ customer'[c].resubmissionCount = customer[c].resubmissionCount
              /\ customer'[c].approvalStatus = "REJECTED" =>
                   customer[c].approvalStatus = "REJECTED" \/ rejections'[c] > rejections[c]
           \/ customer'[c].approvalStatus # "REJECTED" /\ customer'[c].resubmissionCount <= rejections[c]
  PROVE  AnswersIInv'
<1>1. /\ \A c \in Customers : rejections[c] \in Nat /\ rejections'[c] \in Nat
      /\ \A c \in DOMAIN customer : c \in Customers /\ customer[c].resubmissionCount \in Nat
      /\ \A c \in DOMAIN customer' : c \in Customers /\ customer'[c].resubmissionCount \in Nat
  BY CustomerAssumption DEF AnswersIInv, CustomerTypeOK, Customer
<1>2. ResubmissionsAnswer'
  BY <1>1 DEF AnswersIInv, ResubmissionsAnswer
<1>3. CountsBelow'
  <2> SUFFICES ASSUME NEW j \in CustomerClerks, counter'[j].op = "resubmit", counter'[j].step \in {1, 2},
                      NEW c \in counter'[j].who
               PROVE  c \in Customers /\ counter'[j].count < rejections'[c]
    BY DEF CountsBelow, Doing
  <2>1. Doing(j, "resubmit", {1, 2}) /\ c \in counter[j].who /\ counter'[j].count = counter[j].count
    BY DEF Continues
  <2>2. c \in Customers /\ counter[j].count < rejections[c]
    BY <2>1 DEF AnswersIInv, CountsBelow
  <2>3. counter[j].count \in Nat
    BY <2>1, BusyTask DEF AnswersIInv, Doing, CustomerTask
  <2> QED
    BY <1>1, <2>1, <2>2, <2>3
<1> QED
  BY <1>2, <1>3 DEF AnswersIInv

LEMMA NextAnswers ==
  ASSUME AnswersIInv, [CustomerNext]_customerVars
  PROVE  AnswersIInv'
<1> USE DEF Exists
<1>0. CustomerTypeOK /\ ResubmissionsAnswer /\ CountsBelow
  BY DEF AnswersIInv
<1>1. CustomerTypeOK'
  BY <1>0, CustomerAssumption, NextCustomerType
<1>2. \A c \in Customers : rejections[c] \in Nat
  BY <1>0, CustomerAssumption DEF CustomerTypeOK
<1>3. ASSUME NEW C, Writes(C, Approved)
      PROVE  \A c \in DOMAIN customer' :
               c \in DOMAIN customer /\ (customer'[c] = customer[c] \/ customer'[c] = Approved(customer[c]))
  BY <1>3 DEF Writes
<1>4. ASSUME NEW C \in SUBSET Customers, Rejects(C)
      PROVE  /\ \A c \in Customers : rejections'[c] = rejections[c] + IF c \in C THEN 1 ELSE 0
             /\ \A c \in DOMAIN customer' :
                  c \in DOMAIN customer /\ customer'[c] = IF c \in C THEN Rejected(customer[c]) ELSE customer[c]
  BY <1>4 DEF Rejects, Writes
<1>5. \A c \in DOMAIN customer :
        /\ c \in Customers /\ customer[c] \in Customer
        /\ Approved(customer[c]).resubmissionCount = customer[c].resubmissionCount
        /\ Approved(customer[c]).approvalStatus = "APPROVED"
        /\ Rejected(customer[c]).resubmissionCount = customer[c].resubmissionCount
  BY <1>0 DEF CustomerTypeOK, Customer, Approved, Rejected
<1>6. ASSUME NEW k \in CustomerClerks, NEW c \in Customers, NEW e \in Emails \cup {NoEmail},
             BeginCreate(k, c, e) \/ BeginUpdate(k, c, e)
      PROVE  AnswersIInv'
  <2>1. /\ Serve(k, "create", {c}, e, 0) \/ Serve(k, "update", {c}, e, 0)
        /\ UNCHANGED <<customer, rejections>>
    BY <1>6 DEF BeginCreate, BeginUpdate
  <2>2. \A j \in CustomerClerks : Continues(j)
    BY <1>0, <2>1, ServeContinues DEF CustomerOp
  <2> QED
    BY <1>1, <1>2, <2>1, <2>2, AnswersStep
<1>7. ASSUME NEW k \in CustomerClerks, NEW c \in Customers, NEW e \in Emails \cup {NoEmail}, BeginResubmit(k, c, e)
      PROVE  AnswersIInv'
  <2>1. /\ c \in DOMAIN customer /\ customer[c].approvalStatus = "REJECTED"
        /\ Serve(k, "resubmit", {c}, e, customer[c].resubmissionCount) /\ UNCHANGED <<customer, rejections>>
    BY <1>7 DEF BeginResubmit
  <2>2. /\ counter'[k].who = {c} /\ counter'[k].count = customer[c].resubmissionCount
        /\ \A j \in CustomerClerks : j # k => counter'[j] = counter[j]
    BY <1>0, <2>1, ServeFacts DEF CustomerOp
  <2>3. customer[c].resubmissionCount < rejections[c]
    BY <1>0, <2>1 DEF ResubmissionsAnswer
  <2>4. CountsBelow'
    BY <1>0, <2>1, <2>2, <2>3 DEF CountsBelow, Doing
  <2> QED
    BY <1>0, <1>1, <2>1, <2>4 DEF AnswersIInv, ResubmissionsAnswer
<1>8. ASSUME NEW k \in CustomerClerks, CreateCustomer(k)
      PROVE  AnswersIInv'
  <2>1. PICK b \in BOOLEAN : customer' = [d \in DOMAIN customer \cup counter[k].who |->
            IF Exists(d) THEN customer[d] ELSE Registered(b, counter[k].email)]
    BY <1>8 DEF CreateCustomer
  <2>2. \A d \in DOMAIN customer' : customer'[d] = IF d \in DOMAIN customer THEN customer[d]
                                                   ELSE Registered(b, counter[k].email)
    BY <2>1
  <2>3. /\ Registered(b, counter[k].email).resubmissionCount = 0
        /\ Registered(b, counter[k].email).approvalStatus # "REJECTED"
    BY DEF Registered
  <2>4. \A d \in DOMAIN customer' : d \in Customers
    BY <1>1 DEF CustomerTypeOK
  <2>5. UNCHANGED rejections /\ \A j \in CustomerClerks : Continues(j)
    BY <1>0, <1>8, ServedContinues DEF CreateCustomer
  <2> QED
    BY <1>1, <1>2, <2>2, <2>3, <2>4, <2>5, AnswersStep
<1>9. ASSUME NEW c \in Customers, ImportCustomer(c) \/ DeleteCustomer(c)
      PROVE  AnswersIInv'
  <2>1. UNCHANGED <<rejections, counter>> /\ \A j \in CustomerClerks : Continues(j)
    BY <1>9 DEF ImportCustomer, DeleteCustomer, Continues, Doing
  <2>2. \A d \in DOMAIN customer' : \/ d \in DOMAIN customer /\ customer'[d] = customer[d]
                                    \/ d = c /\ customer'[d] = Imported
    BY <1>9 DEF ImportCustomer, DeleteCustomer
  <2>3. Imported.resubmissionCount = 0 /\ Imported.approvalStatus = "PENDING"
    BY DEF Imported
  <2> QED
    BY <1>1, <1>2, <2>1, <2>2, <2>3, AnswersStep
<1>10. ASSUME NEW k \in CustomerClerks, UpdateCustomer(k)
      PROVE  AnswersIInv'
  <2>1. customer' = [c \in DOMAIN customer |-> IF c \in counter[k].who
                       THEN [customer[c] EXCEPT !.email = counter[k].email] ELSE customer[c]]
    BY <1>10 DEF UpdateCustomer, Writes
  <2>2. \A c \in DOMAIN customer' : /\ c \in DOMAIN customer
                                    /\ customer'[c].resubmissionCount = customer[c].resubmissionCount
                                    /\ customer'[c].approvalStatus = customer[c].approvalStatus
    BY <1>5, <2>1 DEF Customer
  <2>3. UNCHANGED rejections /\ \A j \in CustomerClerks : Continues(j)
    BY <1>0, <1>10, ServedContinues DEF UpdateCustomer
  <2> QED
    BY <1>1, <1>2, <2>2, <2>3, AnswersStep
<1>11. ASSUME NEW C, Writes(C, Approved), UNCHANGED <<rejections, counter>>
      PROVE  AnswersIInv'
  <2>1. \A j \in CustomerClerks : Continues(j)
    BY <1>11 DEF Continues, Doing
  <2>2. \A c \in DOMAIN customer' :
          /\ c \in DOMAIN customer
          /\ customer'[c].resubmissionCount = customer[c].resubmissionCount
          /\ customer'[c].approvalStatus = "REJECTED" => customer[c].approvalStatus = "REJECTED"
    <3>1. Writes(C, Approved)
      BY <1>11
    <3> QED
      BY <1>3, <1>5, <3>1
  <2> QED
    BY <1>1, <1>2, <1>11, <2>1, <2>2, AnswersStep
<1>12. ASSUME NEW C \in SUBSET Customers, Rejects(C), \A j \in CustomerClerks : Continues(j)
      PROVE  AnswersIInv'
  <2>1. \A c \in DOMAIN customer' : /\ c \in DOMAIN customer /\ c \in Customers
                                    /\ customer'[c].resubmissionCount = customer[c].resubmissionCount
                                    /\ customer'[c] # customer[c] => c \in C
    BY <1>4, <1>5, <1>12
  <2>2. \A c \in Customers : rejections'[c] >= rejections[c] /\ (c \in C => rejections'[c] > rejections[c])
    BY <1>2, <1>4, <1>12
  <2> QED
    BY <1>1, <1>12, <2>1, <2>2, AnswersStep
<1>13. ASSUME NEW c \in Customers, ApproveCustomer(c) \/ RejectCustomer(c)
      PROVE  AnswersIInv'
  <2>1. \A j \in CustomerClerks : counter' = counter => Continues(j)
    BY DEF Continues, Doing
  <2> QED
    BY <1>11, <1>12, <1>13, <2>1 DEF ApproveCustomer, RejectCustomer
<1>14. ASSUME NEW C \in SUBSET DOMAIN customer, BulkApprove(C)
      PROVE  AnswersIInv'
  BY <1>11, <1>14 DEF BulkApprove
<1>15. ASSUME NEW C \in SUBSET DOMAIN customer, NEW k \in CustomerClerks, BulkReject(k, C)
      PROVE  AnswersIInv'
  <2>1. \A j \in CustomerClerks : Continues(j)
    BY <1>0, <1>15, ServeContinues DEF BulkReject, CustomerOp
  <2>2. C \in SUBSET Customers
    BY <1>0 DEF CustomerTypeOK
  <2> QED
    BY <1>12, <1>15, <2>1, <2>2 DEF BulkReject
<1>16. ASSUME NEW k \in CustomerClerks, RecordRejections(k) \/ FindLatestRejection(k) \/ MarkRejection(k)
      PROVE  AnswersIInv'
  <2>1. UNCHANGED <<customer, rejections>> /\ \A j \in CustomerClerks : Continues(j)
    BY <1>0, <1>16, ServedContinues, FindContinues DEF RecordRejections, FindLatestRejection, MarkRejection
  <2> QED
    BY <1>1, <1>2, <2>1, AnswersStep
<1>17. ASSUME NEW k \in CustomerClerks, ResubmitCustomer(k)
      PROVE  AnswersIInv'
  <2>1. UNCHANGED rejections /\ \A j \in CustomerClerks : Continues(j)
    BY <1>0, <1>17, ResubmitContinues DEF ResubmitCustomer
  <2>2. Doing(k, "resubmit", {1, 2}) /\ counter[k].count \in Nat
    BY <1>0, <1>17, BusyTask DEF ResubmitCustomer, Serving, Doing, CustomerTask
  <2>3. \A c \in counter[k].who : c \in Customers /\ counter[k].count + 1 <= rejections[c]
    BY <1>0, <1>2, <2>2 DEF CountsBelow
  <2>4. customer' = [c \in DOMAIN customer |-> IF c \in counter[k].who
                       THEN Resubmitted(customer[c], counter[k]) ELSE customer[c]]
    BY <1>17 DEF ResubmitCustomer, Writes
  <2>5. \A c \in DOMAIN customer : /\ Resubmitted(customer[c], counter[k]).resubmissionCount = counter[k].count + 1
                                   /\ Resubmitted(customer[c], counter[k]).approvalStatus = "RESUBMITTED"
    BY <1>5 DEF Resubmitted, Customer
  <2> QED
    BY <1>1, <1>2, <2>1, <2>3, <2>4, <2>5, AnswersStep
<1>18. CASE UNCHANGED customerVars
  BY <1>0, <1>18 DEF customerVars, AnswersIInv, CustomerTypeOK, ResubmissionsAnswer, CountsBelow, Doing
<1> QED
  BY <1>6, <1>7, <1>8, <1>9, <1>10, <1>13, <1>14, <1>15, <1>16, <1>17, <1>18 DEF CustomerNext

\* A customer is never resubmitted more often than it was rejected, whatever
\* overlaps: two resubmissions that read the same count write the same count,
\* and a rejection between reading and writing only leaves more to answer.
THEOREM ResubmissionsAnswerRejections == CustomerSpec => []ResubmissionsAnswer
<1>1. CustomerInit => AnswersIInv
  <2> SUFFICES ASSUME CustomerInit PROVE AnswersIInv
    OBVIOUS
  <2>1. CustomerTypeOK
    BY CustomerAssumption, CustomerInitType
  <2> QED
    BY <2>1 DEF CustomerInit, Waiting, AnswersIInv, ResubmissionsAnswer, CountsBelow, Doing
<1>2. AnswersIInv /\ [CustomerNext]_customerVars => AnswersIInv'
  BY NextAnswers
<1>3. AnswersIInv => ResubmissionsAnswer
  BY DEF AnswersIInv
<1> QED
  BY <1>1, <1>2, <1>3, PTL DEF CustomerSpec

-----------------------------------------------------------------------------
(* Approvals, when none is given beside a resubmission *)

NoApprovalMeanwhile == CustomerOverlap \cap {{"approve", "resubmit"}, {"bulkApprove", "resubmit"}} = {}

\* Who is being registered is nobody else's yet, and whom a resubmission is
\* for may not buy until it is written.
Unborn ==
  \A k \in CustomerClerks : counter[k].op = "create" =>
    \A c \in counter[k].who :
      c \notin DOMAIN customer /\ \A j \in CustomerClerks : j # k /\ Busy(j) => c \notin counter[j].who

StillClosed ==
  \A k \in CustomerClerks : Doing(k, "resubmit", {1, 2}) =>
    \A c \in counter[k].who : c \in DOMAIN customer => ~customer[c].isApproved

ApprovalIInv == CustomerTypeOK /\ OnlyApprovedBuy /\ Unborn /\ StillClosed

LEMMA OpensNobody ==
  ASSUME ApprovalIInv, CustomerTypeOK', OnlyApprovedBuy', Calm, \A j \in CustomerClerks : Continues(j),
         \A c \in DOMAIN customer' :
           \/ c \in DOMAIN customer /\ (customer'[c].isApproved => customer[c].isApproved)
           \/ c \in DOMAIN customer /\ \A j \in CustomerClerks : counter'[j].op # "resubmit"
           \/ \A j \in CustomerClerks : counter'[j] # Waiting => c \notin counter'[j].who
  PROVE  ApprovalIInv'
<1>0. Unborn /\ StillClosed
  BY DEF ApprovalIInv
<1>1. \A k \in CustomerClerks : counter'[k] # Waiting =>
        Busy(k) /\ counter'[k].op = counter[k].op /\ counter'[k].who = counter[k].who
  BY DEF Calm, GoesOn, Busy
<1>2. Unborn'
  <2> SUFFICES ASSUME NEW k \in CustomerClerks, counter'[k].op = "create", NEW c \in counter'[k].who
               PROVE  /\ c \notin DOMAIN customer'
                      /\ \A j \in CustomerClerks : j # k /\ counter'[j] # Waiting => c \notin counter'[j].who
    BY DEF Unborn, Busy
  <2>1. counter'[k] # Waiting
    BY Waits
  <2>2. /\ counter[k].op = "create" /\ c \in counter[k].who /\ c \notin DOMAIN customer
        /\ \A j \in CustomerClerks : j # k /\ Busy(j) => c \notin counter[j].who
    BY <1>0, <1>1, <2>1 DEF Unborn
  <2> QED
    BY <1>1, <2>1, <2>2
<1>3. StillClosed'
  <2> SUFFICES ASSUME NEW k \in CustomerClerks, counter'[k].op = "resubmit", counter'[k].step \in {1, 2},
                      NEW c \in counter'[k].who, c \in DOMAIN customer'
               PROVE  ~customer'[c].isApproved
    BY DEF StillClosed, Doing
  <2>1. counter'[k] # Waiting
    BY Waits
  <2>2. Doing(k, "resubmit", {1, 2}) /\ c \in counter[k].who
    BY DEF Continues
  <2> QED
    BY <1>0, <2>1, <2>2 DEF StillClosed
<1> QED
  BY <1>2, <1>3 DEF ApprovalIInv

LEMMA BeginsClosed ==
  ASSUME ApprovalIInv, CustomerTypeOK', UNCHANGED <<customer, rejections>>,
         NEW k \in CustomerClerks, NEW op \in CustomerOp, NEW C \in SUBSET Customers, NEW e, NEW n,
         Serve(k, op, C, e, n),
         op = "create" => \A c \in C : ~Exists(c) /\ \A j \in CustomerClerks : counter[j] # Waiting => c \notin counter[j].who,
         op # "create" => C \subseteq DOMAIN customer,
         op = "resubmit" => \A c \in C : customer[c].approvalStatus = "REJECTED"
  PROVE  ApprovalIInv'
<1>0. CustomerTypeOK /\ OnlyApprovedBuy /\ Unborn /\ StillClosed
  BY DEF ApprovalIInv
<1>1. /\ counter'[k].op = op /\ counter'[k].who = C /\ ~Busy(k)
      /\ \A j \in CustomerClerks : j # k => counter'[j] = counter[j]
  BY <1>0, ServeFacts
<1>2. Unborn'
  <2> SUFFICES ASSUME NEW i \in CustomerClerks, counter'[i].op = "create", NEW c \in counter'[i].who
               PROVE  /\ c \notin DOMAIN customer'
                      /\ \A j \in CustomerClerks : j # i /\ counter'[j] # Waiting => c \notin counter'[j].who
    BY DEF Unborn, Busy
  <2>1. CASE i = k
    BY <1>1, <2>1 DEF Exists
  <2>2. CASE i # k
    <3>1. /\ counter[i].op = "create" /\ c \in counter[i].who /\ c \notin DOMAIN customer /\ counter[i] # Waiting
          /\ \A j \in CustomerClerks : j # i /\ counter[j] # Waiting => c \notin counter[j].who
      BY <1>0, <1>1, <2>2, Waits DEF Unborn, Busy
    <3>2. c \notin C
      BY <3>1
    <3> QED
      BY <1>1, <3>1, <3>2
  <2> QED
    BY <2>1, <2>2
<1>3. StillClosed'
  <2>1. op = "resubmit" => \A c \in C : c \in DOMAIN customer => ~customer[c].isApproved
    BY <1>0 DEF OnlyApprovedBuy
  <2> QED
    BY <1>0, <1>1, <2>1 DEF StillClosed, Doing
<1>4. OnlyApprovedBuy'
  BY <1>0 DEF OnlyApprovedBuy
<1> QED
  BY <1>2, <1>3, <1>4 DEF ApprovalIInv

LEMMA FindCalm ==
  ASSUME CustomerTypeOK, NEW k \in CustomerClerks, FindLatestRejection(k)
  PROVE  Calm
<1>1. counter[k] \in CustomerTask /\ Busy(k)
  BY BusyTask DEF FindLatestRejection, Serving
<1>2. PICK c \in counter[k].who : counter' = [counter EXCEPT ![k].step = 2, ![k].row = Len(history[c])]
  BY DEF FindLatestRejection
<1>3. /\ counter'[k].op = counter[k].op /\ counter'[k].who = counter[k].who
      /\ counter'[k].email = counter[k].email /\ counter'[k].count = counter[k].count
  BY <1>1, <1>2 DEF CustomerTypeOK, CustomerTask
<1>4. counter'[k] # Waiting
  BY <1>1, <1>3, Waits, BusyTask
<1>5. \A j \in CustomerClerks : j # k => counter'[j] = counter[j]
  BY <1>2 DEF CustomerTypeOK
<1> QED
  BY <1>1, <1>3, <1>4, <1>5 DEF Calm, GoesOn, Busy

LEMMA ServedCalm ==
  ASSUME CustomerTypeOK, NEW k \in CustomerClerks, Served(k) \/ (Busy(k) /\ NextStep(k))
  PROVE  Calm
BY ServedFacts, NextStepFacts DEF Calm, GoesOn

LEMMA NobodyResubmits ==
  ASSUME NoApprovalMeanwhile, CustomerTypeOK, NEW op \in {"approve", "bulkApprove"}, MayServe(op),
         NEW k \in CustomerClerks
  PROVE  counter[k].op # "resubmit"
<1>1. counter[k].op # "none" => {op, counter[k].op} \in CustomerOverlap
  BY Waits DEF MayServe
<1>2. counter[k].op = "resubmit" => {op, counter[k].op} \in {{"approve", "resubmit"}, {"bulkApprove", "resubmit"}}
  OBVIOUS
<1> QED
  BY <1>1, <1>2 DEF NoApprovalMeanwhile

LEMMA NextApproval ==
  ASSUME NoApprovalMeanwhile, ApprovalIInv, [CustomerNext]_customerVars
  PROVE  ApprovalIInv'
<1> USE DEF Exists
<1>0. CustomerTypeOK /\ OnlyApprovedBuy /\ Unborn /\ StillClosed
  BY DEF ApprovalIInv
<1>1. CustomerTypeOK'
  BY <1>0, CustomerAssumption, NextCustomerType
<1>2. \A c \in DOMAIN customer :
        /\ c \in Customers /\ customer[c] \in Customer /\ rejections[c] \in Nat
        /\ Approved(customer[c]).approvalStatus = "APPROVED"
        /\ ~Rejected(customer[c]).isApproved
  BY <1>0, CustomerAssumption DEF CustomerTypeOK, Customer, Approved, Rejected
<1>3. counter' = counter => Calm /\ \A j \in CustomerClerks : Continues(j)
  BY DEF Calm, GoesOn, Continues, Doing
<1>4. ASSUME NEW k \in CustomerClerks, NEW c \in Customers, NEW e \in Emails \cup {NoEmail},
             BeginCreate(k, c, e) \/ BeginUpdate(k, c, e) \/ BeginResubmit(k, c, e)
      PROVE  ApprovalIInv'
  <2>1. CASE BeginCreate(k, c, e)
    BY <1>1, <2>1, BeginsClosed DEF BeginCreate, Fresh, CustomerOp
  <2>2. CASE BeginUpdate(k, c, e)
    BY <1>1, <2>2, BeginsClosed DEF BeginUpdate, UpdateTakes, CustomerOp
  <2>3. CASE BeginResubmit(k, c, e)
    BY <1>1, <2>3, BeginsClosed DEF BeginResubmit, CustomerOp
  <2> QED
    BY <1>4, <2>1, <2>2, <2>3
<1>5. ASSUME NEW k \in CustomerClerks, CreateCustomer(k)
      PROVE  ApprovalIInv'
  <2>1. PICK b \in BOOLEAN : customer' = [d \in DOMAIN customer \cup counter[k].who |->
            IF Exists(d) THEN customer[d] ELSE Registered(b, counter[k].email)]
    BY <1>5 DEF CreateCustomer
  <2>2. \A d \in DOMAIN customer' :
          \/ d \in DOMAIN customer /\ customer'[d] = customer[d]
          \/ d \in counter[k].who /\ customer'[d] = Registered(b, counter[k].email)
    BY <2>1
  <2>3. Registered(b, counter[k].email).isApproved => Registered(b, counter[k].email).approvalStatus = "APPROVED"
    BY DEF Registered
  <2>4. /\ UNCHANGED rejections /\ Calm /\ counter'[k] = Waiting
        /\ \A j \in CustomerClerks : Continues(j) /\ (j # k => counter'[j] = counter[j])
    <3>1. Served(k) /\ UNCHANGED rejections
      BY <1>5 DEF CreateCustomer
    <3>2. Calm
      BY <1>0, <3>1, ServedCalm
    <3>3. \A j \in CustomerClerks : Continues(j)
      BY <1>0, <3>1, ServedContinues
    <3> QED
      BY <1>0, <3>1, <3>2, <3>3, ServedFacts
  <2>5. OnlyApprovedBuy'
    BY <1>0, <2>2, <2>3, <2>4 DEF OnlyApprovedBuy
  <2>6. \A d \in counter[k].who, j \in CustomerClerks : counter'[j] # Waiting => d \notin counter'[j].who
    BY <1>0, <1>5, <2>4 DEF Unborn, Busy, CreateCustomer, Serving
  <2> QED
    BY <1>1, <2>2, <2>4, <2>5, <2>6, OpensNobody
<1>6. ASSUME NEW c \in Customers, ImportCustomer(c) \/ DeleteCustomer(c)
      PROVE  ApprovalIInv'
  <2>1. UNCHANGED <<rejections, counter>>
    BY <1>6 DEF ImportCustomer, DeleteCustomer
  <2>2. \A d \in DOMAIN customer' :
          \/ d \in DOMAIN customer /\ customer'[d] = customer[d]
          \/ /\ d = c /\ customer'[d] = Imported /\ rejections[c] = 0
             /\ \A j \in CustomerClerks : counter[j] # Waiting => c \notin counter[j].who
    BY <1>6 DEF ImportCustomer, DeleteCustomer, Fresh
  <2>3. Imported.approvalStatus = "PENDING" /\ ~Imported.requiresReview
    BY DEF Imported
  <2>4. OnlyApprovedBuy'
    BY <1>0, <2>1, <2>2, <2>3 DEF OnlyApprovedBuy
  <2> QED
    BY <1>1, <1>3, <2>1, <2>2, <2>4, OpensNobody
<1>7. ASSUME NEW k \in CustomerClerks, UpdateCustomer(k)
      PROVE  ApprovalIInv'
  <2>1. customer' = [c \in DOMAIN customer |-> IF c \in counter[k].who
                       THEN [customer[c] EXCEPT !.email = counter[k].email] ELSE customer[c]]
    BY <1>7 DEF UpdateCustomer, Writes
  <2>2. \A c \in DOMAIN customer' :
          /\ c \in DOMAIN customer /\ (customer'[c].isApproved <=> customer[c].isApproved)
          /\ customer'[c].approvalStatus = customer[c].approvalStatus
          /\ customer'[c].requiresReview <=> customer[c].requiresReview
    BY <1>2, <2>1 DEF Customer
  <2>3. UNCHANGED rejections /\ Calm /\ \A j \in CustomerClerks : Continues(j)
    <3>1. Served(k) /\ UNCHANGED rejections
      BY <1>7 DEF UpdateCustomer
    <3>2. Calm
      BY <1>0, <3>1, ServedCalm
    <3> QED
      BY <1>0, <3>1, <3>2, ServedContinues
  <2>4. OnlyApprovedBuy'
    BY <1>0, <2>2, <2>3 DEF OnlyApprovedBuy
  <2> QED
    BY <1>1, <2>2, <2>3, <2>4, OpensNobody
<1>8. ASSUME NEW C, Writes(C, Approved), UNCHANGED <<rejections, counter>>,
             \A j \in CustomerClerks : counter[j].op # "resubmit"
      PROVE  ApprovalIInv'
  <2>1. \A c \in DOMAIN customer' :
          c \in DOMAIN customer /\ (customer'[c] = customer[c] \/ customer'[c] = Approved(customer[c]))
    BY <1>8 DEF Writes
  <2>2. OnlyApprovedBuy'
    BY <1>0, <1>2, <1>8, <2>1 DEF OnlyApprovedBuy
  <2> QED
    BY <1>1, <1>3, <1>8, <2>1, <2>2, OpensNobody
<1>9. ASSUME NEW c \in Customers, ApproveCustomer(c)
      PROVE  ApprovalIInv'
  BY <1>0, <1>8, <1>9, NobodyResubmits DEF ApproveCustomer
<1>10. ASSUME NEW C \in SUBSET DOMAIN customer, BulkApprove(C)
      PROVE  ApprovalIInv'
  BY <1>0, <1>8, <1>10, NobodyResubmits DEF BulkApprove
<1>11. ASSUME NEW C \in SUBSET Customers, Rejects(C)
      PROVE  /\ OnlyApprovedBuy'
             /\ \A c \in DOMAIN customer' : c \in DOMAIN customer /\ (customer'[c].isApproved => customer[c].isApproved)
  <2>1. \A c \in DOMAIN customer' :
          /\ c \in DOMAIN customer
          /\ customer'[c] = IF c \in C THEN Rejected(customer[c]) ELSE customer[c]
          /\ c \notin C => rejections'[c] = rejections[c]
    BY <1>2, <1>11 DEF Rejects, Writes
  <2> QED
    BY <1>0, <1>2, <2>1 DEF OnlyApprovedBuy
<1>12. ASSUME NEW c \in Customers, RejectCustomer(c)
      PROVE  ApprovalIInv'
  BY <1>1, <1>3, <1>11, <1>12, OpensNobody DEF RejectCustomer
<1>13. ASSUME NEW C \in SUBSET DOMAIN customer, NEW k \in CustomerClerks, BulkReject(k, C)
      PROVE  ApprovalIInv'
  <2>1. C \in SUBSET Customers
    BY <1>2
  <2>2. /\ OnlyApprovedBuy'
        /\ \A c \in DOMAIN customer' : c \in DOMAIN customer /\ (customer'[c].isApproved => customer[c].isApproved)
    BY <1>11, <1>13, <2>1 DEF BulkReject
  <2>3. Serve(k, "bulkReject", C, NoEmail, 0) /\ "bulkReject" \in CustomerOp
    BY <1>13 DEF BulkReject, CustomerOp
  <2>4. /\ counter'[k].op = "bulkReject" /\ counter'[k].who = C
        /\ \A j \in CustomerClerks : j # k => counter'[j] = counter[j]
    BY <1>0, <2>3, ServeFacts
  <2>5. Unborn'
    <3> SUFFICES ASSUME NEW i \in CustomerClerks, counter'[i].op = "create", NEW c \in counter'[i].who
                 PROVE  /\ c \notin DOMAIN customer'
                        /\ \A j \in CustomerClerks : j # i /\ counter'[j] # Waiting => c \notin counter'[j].who
      BY DEF Unborn, Busy
    <3>1. i # k /\ counter[i].op = "create" /\ c \in counter[i].who
      BY <2>4
    <3>2. c \notin DOMAIN customer /\ \A j \in CustomerClerks : j # i /\ counter[j] # Waiting => c \notin counter[j].who
      BY <1>0, <3>1 DEF Unborn, Busy
    <3> QED
      BY <2>2, <2>4, <3>1, <3>2
  <2>6. StillClosed'
    BY <1>0, <2>2, <2>4 DEF StillClosed, Doing
  <2> QED
    BY <1>1, <2>2, <2>5, <2>6 DEF ApprovalIInv
<1>14. ASSUME NEW k \in CustomerClerks, RecordRejections(k) \/ FindLatestRejection(k) \/ MarkRejection(k)
      PROVE  ApprovalIInv'
  <2>1. UNCHANGED <<customer, rejections>> /\ Calm /\ \A j \in CustomerClerks : Continues(j)
    <3>1. (Served(k) \/ FindLatestRejection(k)) /\ UNCHANGED <<customer, rejections>>
      BY <1>14 DEF RecordRejections, FindLatestRejection, MarkRejection
    <3>2. CASE Served(k)
      <4>1. Calm
        BY <1>0, <3>2, ServedCalm
      <4> QED
        BY <1>0, <3>1, <3>2, <4>1, ServedContinues
    <3>3. CASE FindLatestRejection(k)
      <4>1. Calm
        BY <1>0, <3>3, FindCalm
      <4> QED
        BY <1>0, <3>1, <3>3, <4>1, FindContinues
    <3> QED
      BY <3>1, <3>2, <3>3
  <2>2. OnlyApprovedBuy'
    BY <1>0, <2>1 DEF OnlyApprovedBuy
  <2> QED
    BY <1>1, <2>1, <2>2, OpensNobody
<1>15. ASSUME NEW k \in CustomerClerks, ResubmitCustomer(k)
      PROVE  ApprovalIInv'
  <2>1. Doing(k, "resubmit", {1, 2}) /\ Busy(k)
    BY <1>0, <1>15, BusyTask DEF ResubmitCustomer, Serving, Doing
  <2>2. UNCHANGED rejections /\ Calm /\ \A j \in CustomerClerks : Continues(j)
    <3>1. (Served(k) \/ NextStep(k)) /\ UNCHANGED rejections
      BY <1>15 DEF ResubmitCustomer
    <3>2. Calm
      BY <1>0, <2>1, <3>1, ServedCalm
    <3> QED
      BY <1>0, <1>15, <3>1, <3>2, ResubmitContinues
  <2>3. customer' = [c \in DOMAIN customer |-> IF c \in counter[k].who
                       THEN Resubmitted(customer[c], counter[k]) ELSE customer[c]]
    BY <1>15 DEF ResubmitCustomer, Writes
  <2>4. \A c \in DOMAIN customer' :
          /\ c \in DOMAIN customer /\ (customer'[c].isApproved <=> customer[c].isApproved)
          /\ c \in counter[k].who => ~customer'[c].isApproved
          /\ c \notin counter[k].who => customer'[c] = customer[c]
    <3>1. \A c \in DOMAIN customer : Resubmitted(customer[c], counter[k]).isApproved <=> customer[c].isApproved
      BY <1>2 DEF Resubmitted, Customer
    <3> QED
      BY <1>0, <2>1, <2>3, <3>1 DEF StillClosed
  <2>5. OnlyApprovedBuy'
    BY <1>0, <2>2, <2>4 DEF OnlyApprovedBuy
  <2> QED
    BY <1>1, <2>2, <2>4, <2>5, OpensNobody
<1>16. CASE UNCHANGED customerVars
  BY <1>0, <1>16 DEF customerVars, ApprovalIInv, CustomerTypeOK, OnlyApprovedBuy, Unborn, StillClosed, Doing, Busy
<1> QED
  BY <1>4, <1>5, <1>6, <1>7, <1>9, <1>10, <1>12, <1>13, <1>14, <1>15, <1>16 DEF CustomerNext

\* Whoever may buy was approved, or was imported and never reviewed, if no
\* approval is given while a resubmission is on its way; everything else may
\* overlap.
THEOREM OnlyApprovedCustomersBuy ==
  ASSUME NoApprovalMeanwhile
  PROVE  CustomerSpec => []OnlyApprovedBuy
<1>1. CustomerInit => ApprovalIInv
  <2> SUFFICES ASSUME CustomerInit PROVE ApprovalIInv
    OBVIOUS
  <2>1. CustomerTypeOK
    BY CustomerAssumption, CustomerInitType
  <2> QED
    BY <2>1 DEF CustomerInit, Waiting, ApprovalIInv, OnlyApprovedBuy, Unborn, StillClosed, Doing
<1>2. ApprovalIInv /\ [CustomerNext]_customerVars => ApprovalIInv'
  BY NextApproval
<1>3. ApprovalIInv => OnlyApprovedBuy
  BY DEF ApprovalIInv
<1> QED
  BY <1>1, <1>2, <1>3, PTL DEF CustomerSpec

-----------------------------------------------------------------------------
(* DeviceSales *)

\* Only an edit names a sale, which exists or existed.
WellFormed ==
  \A k \in Sellers :
    /\ request[k].op = "edit" => \E s \in spent : request[k].sale = {s}
    /\ request[k].op # "edit" => request[k].sale = {}

\* But for the contested ones, a request's devices are still in no sale but
\* the one it edits, and in no other request.
StillFree ==
  \A k \in Sellers, t \in DOMAIN sold :
    t \notin request[k].sale => sold[t].devices \cap request[k].devices \subseteq contested
KeptApart ==
  \A j, k \in Sellers : j # k => request[j].devices \cap request[k].devices \subseteq contested

SalesInv == SalesTypeOK /\ OnlyContestedSoldTwice /\ WellFormed /\ StillFree /\ KeptApart

-----------------------------------------------------------------------------
LEMMA NoRequestType == NoRequest \in Request /\ NoRequest.op = "none" /\ NoRequest.devices = {} /\ NoRequest.sale = {}
BY DeviceSalesAssumption DEF NoRequest, Request, NoVersion, DeviceSalesAssumption

LEMMA SalesInitially == SalesInit => SalesInv
BY NoRequestType
   DEF SalesInit, SalesInv, SalesTypeOK, OnlyContestedSoldTwice, WellFormed, StillFree, KeptApart

\* A request that is accepted: nothing changes but that it runs.
LEMMA AcceptKeeps ==
  ASSUME SalesInv, NEW k \in Sellers, NEW r \in Request, r.op # "none",
         r.op = "edit" => \E s \in spent : r.sale = {s},
         r.op # "edit" => r.sale = {},
         \A t \in DOMAIN sold : t \notin r.sale => sold[t].devices \cap r.devices \subseteq contested',
         Accept(k, r)
  PROVE  SalesInv'
<1>1. /\ UNCHANGED <<sold, spent>> /\ contested \subseteq contested' /\ contested' \subseteq Units
      /\ \A j \in Sellers : request[j].devices \cap r.devices \subseteq contested'
      /\ request' = [request EXCEPT ![k] = r] /\ request \in [Sellers -> Request]
  BY DEF Accept, Named, SalesInv, SalesTypeOK, Request
<1>2. request'[k] = r /\ \A j \in Sellers : j # k => request'[j] = request[j]
  BY <1>1
<1>3. SalesTypeOK'
  BY <1>1 DEF SalesInv, SalesTypeOK
<1>4. OnlyContestedSoldTwice'
  BY <1>1 DEF SalesInv, OnlyContestedSoldTwice
<1>5. WellFormed'
  BY <1>1, <1>2 DEF SalesInv, WellFormed
<1>6. StillFree'
  <2> SUFFICES ASSUME NEW j \in Sellers, NEW t \in DOMAIN sold, t \notin request'[j].sale
               PROVE  sold[t].devices \cap request'[j].devices \subseteq contested'
    BY <1>1 DEF StillFree
  <2>1. CASE j = k
    BY <1>2, <2>1
  <2>2. CASE j # k
    BY <1>1, <1>2, <2>2 DEF SalesInv, StillFree
  <2> QED
    BY <2>1, <2>2
<1>7. KeptApart'
  BY <1>1, <1>2 DEF SalesInv, KeptApart
<1> QED
  BY <1>3, <1>4, <1>5, <1>6, <1>7 DEF SalesInv

\* A request that is answered, or that gives up devices, leaves what the
\* others checked.
LEMMA ShrinksKeeps ==
  ASSUME SalesInv, NEW k \in Sellers, UNCHANGED <<sold, spent, contested>>,
         NEW r \in Request, request' = [request EXCEPT ![k] = r],
         r = NoRequest \/ (r.op = request[k].op /\ r.sale = request[k].sale),
         r.devices \subseteq request[k].devices
  PROVE  SalesInv'
<1>1. request \in [Sellers -> Request]
  BY DEF SalesInv, SalesTypeOK
<1>2. request'[k] = r /\ \A j \in Sellers : j # k => request'[j] = request[j]
  BY <1>1
<1>3. SalesTypeOK'
  BY <1>1 DEF SalesInv, SalesTypeOK
<1>4. OnlyContestedSoldTwice'
  BY DEF SalesInv, OnlyContestedSoldTwice
<1>5. WellFormed'
  BY <1>2, NoRequestType DEF SalesInv, WellFormed
<1>6. StillFree'
  <2> SUFFICES ASSUME NEW j \in Sellers, NEW t \in DOMAIN sold, t \notin request'[j].sale
               PROVE  sold[t].devices \cap request'[j].devices \subseteq contested
    BY DEF StillFree
  <2>1. CASE j = k
    <3>1. CASE r = NoRequest
      BY <1>2, <2>1, <3>1, NoRequestType
    <3>2. CASE r.sale = request[k].sale
      BY <1>2, <2>1, <3>2 DEF SalesInv, StillFree
    <3> QED
      BY <3>1, <3>2
  <2>2. CASE j # k
    BY <1>2, <2>2 DEF SalesInv, StillFree
  <2> QED
    BY <2>1, <2>2
<1>7. KeptApart'
  BY <1>2 DEF SalesInv, KeptApart
<1> QED
  BY <1>3, <1>4, <1>5, <1>6, <1>7 DEF SalesInv

\* A new sale of some of a request's devices, which it then no longer has.
LEMMA SellsKeeps ==
  ASSUME SalesInv, NEW k \in Sellers, request[k].sale = {},
         NEW D \in SUBSET Units, D \subseteq request[k].devices, Sells(D),
         NEW r \in Request, request' = [request EXCEPT ![k] = r],
         r.op # "edit", r.sale = {}, r.devices \subseteq request[k].devices \ D,
         UNCHANGED contested
  PROVE  SalesInv'
<1>1. PICK s \in SaleIds \ spent :
        /\ spent' = spent \cup {s}
        /\ sold' = [t \in DOMAIN sold \cup {s} |-> IF t = s THEN [devices |-> D, version |-> 1] ELSE sold[t]]
  BY DEF Sells
<1>2. /\ request \in [Sellers -> Request]
      /\ DOMAIN sold \subseteq spent /\ spent \subseteq SaleIds
      /\ sold \in [DOMAIN sold -> [devices : SUBSET Units, version : 1 .. MaxVersion]]
  BY DEF SalesInv, SalesTypeOK
<1>3. /\ s \notin DOMAIN sold /\ DOMAIN sold' = DOMAIN sold \cup {s}
      /\ sold'[s].devices = D
      /\ \A t \in DOMAIN sold : sold'[t] = sold[t]
  BY <1>1, <1>2
<1>4. request'[k] = r /\ \A j \in Sellers : j # k => request'[j] = request[j]
  BY <1>2
<1>5. SalesTypeOK'
  <2>1. sold' \in [DOMAIN sold' -> [devices : SUBSET Units, version : 1 .. MaxVersion]]
    BY <1>1, <1>2, <1>3, DeviceSalesAssumption DEF DeviceSalesAssumption
  <2> QED
    BY <2>1, <1>1, <1>2, <1>3 DEF SalesInv, SalesTypeOK
<1>6. \A t \in DOMAIN sold : sold[t].devices \cap request[k].devices \subseteq contested
  BY DEF SalesInv, StillFree
<1>7. OnlyContestedSoldTwice'
  <2> SUFFICES ASSUME NEW a \in DOMAIN sold', NEW b \in DOMAIN sold', a # b
               PROVE  sold'[a].devices \cap sold'[b].devices \subseteq contested
    BY DEF OnlyContestedSoldTwice
  <2>1. CASE a \in DOMAIN sold /\ b \in DOMAIN sold
    BY <2>1, <1>3 DEF SalesInv, OnlyContestedSoldTwice
  <2>2. CASE a = s
    BY <2>2, <1>3, <1>6
  <2>3. CASE b = s
    BY <2>3, <1>3, <1>6
  <2> QED
    BY <2>1, <2>2, <2>3, <1>3
<1>8. WellFormed'
  BY <1>1, <1>4 DEF SalesInv, WellFormed
<1>9. StillFree'
  <2> SUFFICES ASSUME NEW j \in Sellers, NEW t \in DOMAIN sold', t \notin request'[j].sale
               PROVE  sold'[t].devices \cap request'[j].devices \subseteq contested
    BY DEF StillFree
  <2>1. CASE j = k
    BY <2>1, <1>3, <1>4, <1>6
  <2>2. CASE j # k /\ t = s
    BY <2>2, <1>3, <1>4 DEF SalesInv, KeptApart
  <2>3. CASE j # k /\ t # s
    BY <2>3, <1>3, <1>4 DEF SalesInv, StillFree
  <2> QED
    BY <2>1, <2>2, <2>3
<1>10. KeptApart'
  BY <1>4 DEF SalesInv, KeptApart
<1> QED
  BY <1>5, <1>7, <1>8, <1>9, <1>10 DEF SalesInv

LEMMA EditSaleKeeps ==
  ASSUME SalesInv, NEW k \in Sellers, EditSale(k)
  PROVE  SalesInv'
<1>1. /\ request \in [Sellers -> Request] /\ request[k].devices \in SUBSET Units
      /\ DOMAIN sold \subseteq spent /\ spent \subseteq SaleIds
      /\ sold \in [DOMAIN sold -> [devices : SUBSET Units, version : 1 .. MaxVersion]]
      /\ UNCHANGED <<spent, contested>>
      /\ request' = [request EXCEPT ![k] = NoRequest]
  BY DEF SalesInv, SalesTypeOK, EditSale, Answered, Request
<1>2. PICK s \in request[k].sale \cap DOMAIN sold :
        /\ sold[s].version < MaxVersion
        /\ sold' = [sold EXCEPT ![s] =
             [devices |-> IF request[k].devices = {} THEN @.devices ELSE request[k].devices, version |-> @.version + 1]]
  BY DEF EditSale
<1>3. PICK E : E = IF request[k].devices = {} THEN sold[s].devices ELSE request[k].devices
  OBVIOUS
<1>4. sold' = [sold EXCEPT ![s] = [devices |-> E, version |-> sold[s].version + 1]] /\ E \in SUBSET Units
  BY <1>1, <1>2, <1>3
<1>5. /\ DOMAIN sold' = DOMAIN sold /\ sold'[s].devices = E
      /\ \A t \in DOMAIN sold : t # s => sold'[t] = sold[t]
  BY <1>2, <1>4
<1>6. request'[k] = NoRequest /\ \A j \in Sellers : j # k => request'[j] = request[j]
  BY <1>1
<1>7. SalesTypeOK'
  <2>1. sold[s].version + 1 \in 1 .. MaxVersion
    BY <1>1, <1>2, DeviceSalesAssumption DEF DeviceSalesAssumption
  <2>2. [devices |-> E, version |-> sold[s].version + 1] \in [devices : SUBSET Units, version : 1 .. MaxVersion]
    BY <1>4, <2>1
  <2>3. sold' \in [DOMAIN sold' -> [devices : SUBSET Units, version : 1 .. MaxVersion]]
    BY <1>1, <1>4, <1>5, <2>2
  <2> QED
    BY <2>3, <1>1, <1>5, NoRequestType DEF SalesInv, SalesTypeOK
<1>8. request[k].sale = {s}
  BY <1>2 DEF SalesInv, WellFormed
<1>9. \A t \in DOMAIN sold : t # s => sold[t].devices \cap E \subseteq contested
  <2>1. CASE request[k].devices = {}
    BY <1>3, <2>1, <1>2 DEF SalesInv, OnlyContestedSoldTwice
  <2>2. CASE request[k].devices # {}
    BY <1>3, <1>8, <2>2 DEF SalesInv, StillFree
  <2> QED
    BY <2>1, <2>2
<1>10. OnlyContestedSoldTwice'
  <2> SUFFICES ASSUME NEW a \in DOMAIN sold, NEW b \in DOMAIN sold, a # b
               PROVE  sold'[a].devices \cap sold'[b].devices \subseteq contested
    BY <1>1, <1>5 DEF OnlyContestedSoldTwice
  <2>1. CASE a # s /\ b # s
    BY <2>1, <1>5 DEF SalesInv, OnlyContestedSoldTwice
  <2>2. CASE a = s
    BY <2>2, <1>5, <1>9
  <2>3. CASE b = s
    BY <2>3, <1>5, <1>9
  <2> QED
    BY <2>1, <2>2, <2>3
<1>11. WellFormed'
  BY <1>1, <1>6, NoRequestType DEF SalesInv, WellFormed
<1>12. StillFree'
  <2> SUFFICES ASSUME NEW j \in Sellers, NEW t \in DOMAIN sold, t \notin request'[j].sale
               PROVE  sold'[t].devices \cap request'[j].devices \subseteq contested
    BY <1>1, <1>5 DEF StillFree
  <2>1. CASE j = k
    BY <2>1, <1>6, NoRequestType
  <2>2. CASE j # k /\ t # s
    BY <2>2, <1>5, <1>6 DEF SalesInv, StillFree
  <2>3. CASE j # k /\ t = s
    <3>1. sold[s].devices \cap request[j].devices \subseteq contested
      BY <2>3, <1>6 DEF SalesInv, StillFree
    <3>2. request[k].devices \cap request[j].devices \subseteq contested
      BY <2>3 DEF SalesInv, KeptApart
    <3> QED
      BY <3>1, <3>2, <2>3, <1>3, <1>5, <1>6
  <2> QED
    BY <2>1, <2>2, <2>3
<1>13. KeptApart'
  BY <1>1, <1>6, NoRequestType DEF SalesInv, KeptApart
<1> QED
  BY <1>7, <1>10, <1>11, <1>12, <1>13 DEF SalesInv

LEMMA DeleteSaleKeeps ==
  ASSUME SalesInv, NEW s \in SaleIds, DeleteSale(s)
  PROVE  SalesInv'
<1>1. /\ sold' = [t \in DOMAIN sold \ {s} |-> sold[t]] /\ UNCHANGED <<spent, request, contested>>
      /\ DOMAIN sold' = DOMAIN sold \ {s} /\ \A t \in DOMAIN sold' : sold'[t] = sold[t]
  BY DEF DeleteSale
<1>2. SalesTypeOK'
  BY <1>1 DEF SalesInv, SalesTypeOK
<1> QED
  BY <1>1, <1>2 DEF SalesInv, OnlyContestedSoldTwice, WellFormed, StillFree, KeptApart

-----------------------------------------------------------------------------
\* One step per action of SalesNext.
LEMMA SalesStep ==
  ASSUME SalesInv, [SalesNext]_saleVars
  PROVE  SalesInv'
<1>1. /\ SalesTypeOK /\ request \in [Sellers -> Request]
      /\ \A k \in Sellers : /\ request[k].devices \in SUBSET Units
                            /\ request[k].op # "edit" => request[k].sale = {}
  BY DEF SalesInv, SalesTypeOK, Request, WellFormed
<1>2. ASSUME NEW k \in Sellers, MakeSale(k)
      PROVE  SalesInv'
  BY <1>1, <1>2, SellsKeeps, NoRequestType DEF MakeSale, Answered
<1>3. ASSUME NEW k \in Sellers, EndDonation(k) \/ RequestFails(k)
      PROVE  SalesInv'
  BY <1>3, ShrinksKeeps, NoRequestType DEF EndDonation, RequestFails, Answered
<1>4. ASSUME NEW k \in Sellers, NEW d \in Units, DonateOne(k, d)
      PROVE  SalesInv'
  <2>1. PICK r : r = [request[k] EXCEPT !.devices = @ \ {d}]
    OBVIOUS
  <2>2. /\ r \in Request /\ r.op = request[k].op /\ r.sale = request[k].sale
        /\ r.devices = request[k].devices \ {d} /\ request[k].op = "donate"
    BY <1>1, <1>4, <2>1 DEF DonateOne, Request
  <2>3. request' = [request EXCEPT ![k] = r] /\ UNCHANGED contested /\ d \in request[k].devices
    BY <1>4, <2>1 DEF DonateOne
  <2>4. CASE Sells({d})
    <3>1. {d} \in SUBSET Units /\ {d} \subseteq request[k].devices
      BY <2>3
    <3> QED
      BY <1>1, <2>2, <2>3, <2>4, <3>1, SellsKeeps
  <2>5. CASE UNCHANGED <<sold, spent>>
    BY <2>2, <2>3, <2>5, ShrinksKeeps
  <2> QED
    BY <1>4, <2>4, <2>5 DEF DonateOne
<1>5. ASSUME NEW k \in Sellers, NEW D \in SUBSET Units, BeginSale(k, D)
      PROVE  SalesInv'
  <2>1. PICK r : r = [op |-> "sell", devices |-> D, sale |-> {}, version |-> NoVersion]
    OBVIOUS
  <2>2. r \in Request /\ r.op = "sell" /\ r.sale = {} /\ r.devices = D /\ Accept(k, r)
    BY <1>5, <2>1, DeviceSalesAssumption DEF BeginSale, Request, NoVersion, DeviceSalesAssumption
  <2>3. \A t \in DOMAIN sold : sold[t].devices \cap D = {}
    BY <1>5 DEF BeginSale, Free, AllSold
  <2> QED
    BY <2>2, <2>3, AcceptKeeps
<1>6. ASSUME NEW k \in Sellers, NEW D \in SUBSET Units, BeginDonation(k, D)
      PROVE  SalesInv'
  <2>1. PICK r : r = [op |-> "donate", devices |-> D, sale |-> {}, version |-> NoVersion]
    OBVIOUS
  <2>2. r \in Request /\ r.op = "donate" /\ r.sale = {} /\ r.devices = D /\ Accept(k, r)
    BY <1>6, <2>1, DeviceSalesAssumption DEF BeginDonation, Request, NoVersion, DeviceSalesAssumption
  <2>3. \A t \in DOMAIN sold : sold[t].devices \cap D \subseteq contested'
    BY <2>2 DEF Accept, AllSold
  <2> QED
    BY <2>2, <2>3, AcceptKeeps
<1>7. ASSUME NEW k \in Sellers, NEW D \in SUBSET Units, NEW s \in SaleIds, NEW v \in 0 .. MaxVersion,
             BeginEdit(k, s, v, D)
      PROVE  SalesInv'
  <2>1. PICK r : r = [op |-> "edit", devices |-> D, sale |-> {s}, version |-> v]
    OBVIOUS
  <2>2. r \in Request /\ r.op = "edit" /\ r.sale = {s} /\ r.devices = D /\ Accept(k, r) /\ s \in spent
    BY <1>1, <1>7, <2>1 DEF BeginEdit, Request, SalesTypeOK
  <2>3. ASSUME NEW t \in DOMAIN sold, t # s
        PROVE  sold[t].devices \cap D \subseteq contested
    <3>1. sold[t].devices \cap D \subseteq sold[s].devices
      BY <1>7, <2>3 DEF BeginEdit, Takes, SoldElsewhere, Devices
    <3>2. s \in DOMAIN sold
      BY <1>7 DEF BeginEdit
    <3> QED
      BY <2>3, <3>1, <3>2 DEF SalesInv, OnlyContestedSoldTwice
  <2>4. contested \subseteq contested'
    BY <2>2 DEF Accept
  <2> QED
    BY <2>2, <2>3, <2>4, AcceptKeeps
<1>8. CASE UNCHANGED saleVars
  BY <1>8 DEF saleVars, SalesInv, SalesTypeOK, OnlyContestedSoldTwice, WellFormed, StillFree, KeptApart
<1> QED
  BY <1>2, <1>3, <1>4, <1>5, <1>6, <1>7, <1>8, EditSaleKeeps, DeleteSaleKeeps DEF SalesNext

\* For any devices, sales and numbers of requests, however they overlap: two
\* sales that exist have a device in common only when two requests named it at
\* the same time or a donation named it while it was sold (createSale,
\* createDonationSales, updateSale, reverseSale).
THEOREM OnlyContestedDevicesSoldTwice == SalesSpec => []SalesInOrder
<1>1. SalesInv => SalesInOrder
  BY DEF SalesInv, SalesInOrder
<1> QED
  BY <1>1, SalesInitially, SalesStep, PTL DEF SalesSpec

-----------------------------------------------------------------------------
(* TokenBatch *)

BatchState == {"none", "waiting", "active", "done", "failed"}

\* A job that may still start finds its file only if every code it made was
\* followed by a death of the process; one that runs has made no code more for
\* the rows it has not come to.
FileMeansNoCode ==
  /\ batch.state \in {"waiting", "active"} => batch.attempts > 0
  /\ batch.state = "active" => batch.file
  /\ batch.state = "none" \/ (batch.state = "waiting" /\ batch.file) => \A d \in BatchRows : issued[d] <= deaths
  /\ batch.state = "active" => \A d \in left : issued[d] <= deaths

BatchIInv == BatchInOrder /\ FileMeansNoCode

\* What the typing says of each column.
LEMMA BatchColumns ==
  ASSUME BatchTypeOK
  PROVE  /\ batch.state \in BatchState /\ batch.attempts \in 0 .. BatchAttempts /\ batch.file \in BOOLEAN
         /\ batch = [state |-> batch.state, attempts |-> batch.attempts, file |-> batch.file]
BY DEF BatchTypeOK, BatchState

LEMMA AttemptEndsType ==
  ASSUME BatchTypeOK, batch.attempts > 0
  PROVE  /\ AttemptEnds \in [state : BatchState, attempts : 0 .. BatchAttempts, file : BOOLEAN]
         /\ AttemptEnds.state \in {"waiting", "failed"} /\ ~AttemptEnds.file
         /\ AttemptEnds.state = "waiting" => AttemptEnds.attempts > 0
BY BatchColumns, BatchAssumption DEF AttemptEnds, BatchState

LEMMA InitBatchIInv == BatchInit => BatchIInv
BY BatchAssumption DEF BatchInit, BatchIInv, BatchInOrder, BatchTypeOK, BatchGeneratesOnce, FileMeansNoCode

LEMMA NextBatchIInv ==
  ASSUME BatchIInv, [BatchNext]_batchVars
  PROVE  BatchIInv'
<1> USE BatchAssumption
<1>0. BatchTypeOK /\ BatchGeneratesOnce /\ FileMeansNoCode
  BY DEF BatchIInv, BatchInOrder
<1>1. /\ left \subseteq BatchRows /\ holds \subseteq BatchRows
      /\ issued \in [BatchRows -> Nat] /\ stored \in [BatchRows -> Nat]
      /\ throws \in 0 .. MaxThrows /\ deaths \in 0 .. MaxBatchDeaths
      /\ batch.state \in BatchState /\ batch.attempts \in 0 .. BatchAttempts /\ batch.file \in BOOLEAN
      /\ batch = [state |-> batch.state, attempts |-> batch.attempts, file |-> batch.file]
  BY <1>0, BatchColumns DEF BatchTypeOK
<1>2. CASE QueueBatch
  BY <1>0, <1>1, <1>2 DEF QueueBatch, BatchIInv, BatchInOrder, BatchTypeOK, BatchGeneratesOnce, FileMeansNoCode
<1>3. CASE StartBatch
  <2>1. CASE batch.file
    <3>1. batch' = [state |-> "active", attempts |-> batch.attempts, file |-> TRUE] /\ batch.attempts > 0
      BY <1>0, <1>1, <1>3, <2>1 DEF StartBatch, FileMeansNoCode
    <3> QED
      BY <1>0, <1>1, <1>3, <2>1, <3>1
         DEF StartBatch, BatchIInv, BatchInOrder, BatchTypeOK, BatchGeneratesOnce, FileMeansNoCode, BatchState
  <2>2. CASE ~batch.file
    <3>1. batch' = AttemptEnds /\ batch.attempts > 0 /\ UNCHANGED left
      BY <1>0, <1>3, <2>2 DEF StartBatch, FileMeansNoCode
    <3> QED
      BY <1>0, <1>1, <1>3, <3>1, AttemptEndsType
         DEF StartBatch, BatchIInv, BatchInOrder, BatchTypeOK, BatchGeneratesOnce, FileMeansNoCode, BatchState
  <2> QED
    BY <2>1, <2>2, <1>1
<1>4. CASE FinishBatch
  <2>1. batch' = [state |-> "done", attempts |-> batch.attempts, file |-> FALSE]
    BY <1>1, <1>4 DEF FinishBatch
  <2>2. UNCHANGED <<left, holds, issued, stored, throws, deaths>>
    BY <1>4 DEF FinishBatch
  <2>3. BatchTypeOK'
    BY <1>1, <2>1, <2>2 DEF BatchTypeOK, BatchState
  <2>4. BatchGeneratesOnce' /\ FileMeansNoCode'
    BY <1>0, <2>1, <2>2 DEF BatchGeneratesOnce, FileMeansNoCode
  <2> QED
    BY <2>3, <2>4 DEF BatchIInv, BatchInOrder
<1>5. CASE BatchThrows
  <2>1. batch' = AttemptEnds /\ batch.attempts > 0
    BY <1>0, <1>5 DEF BatchThrows, FileMeansNoCode
  <2>2. throws' \in 0 .. MaxThrows
    BY <1>1, <1>5 DEF BatchThrows
  <2> QED
    BY <1>0, <1>1, <1>5, <2>1, <2>2, AttemptEndsType
       DEF BatchThrows, BatchIInv, BatchInOrder, BatchTypeOK, BatchGeneratesOnce, FileMeansNoCode, BatchState
<1>6. CASE BatchDies
  <2>1. batch' = [state |-> "waiting", attempts |-> batch.attempts, file |-> batch.file] /\ batch.attempts > 0
    BY <1>0, <1>1, <1>6 DEF BatchDies, FileMeansNoCode
  <2>2. deaths' = deaths + 1 /\ deaths' \in 0 .. MaxBatchDeaths
    BY <1>1, <1>6 DEF BatchDies
  <2>3. \A d \in BatchRows : issued'[d] <= deaths'
    BY <1>0, <1>1, <1>6, <2>2 DEF BatchDies, BatchGeneratesOnce
  <2>4. UNCHANGED <<issued, stored, throws>> /\ left' = {} /\ holds' = {}
    BY <1>6 DEF BatchDies
  <2>5. BatchTypeOK'
    BY <1>1, <2>1, <2>2, <2>4 DEF BatchTypeOK, BatchState
  <2>6. BatchGeneratesOnce' /\ FileMeansNoCode'
    BY <1>1, <2>1, <2>2, <2>3, <2>4 DEF BatchGeneratesOnce, FileMeansNoCode
  <2> QED
    BY <2>5, <2>6 DEF BatchIInv, BatchInOrder
<1>7. ASSUME NEW d \in BatchRows, RequestRow(d)
      PROVE  BatchIInv'
  <2>1. issued[d] <= deaths /\ UNCHANGED <<batch, deaths, stored, throws>> /\ left' = left \ {d} /\ d \in left
    BY <1>0, <1>7 DEF RequestRow, FileMeansNoCode
  <2>2. /\ issued' \in [BatchRows -> Nat] /\ holds' \subseteq BatchRows
        /\ \A r \in BatchRows : issued'[r] <= 1 + deaths /\ (r # d => issued'[r] = issued[r])
    <3>1. CASE holds' = {d} /\ issued' = [issued EXCEPT ![d] = @ + 1]
      BY <1>0, <1>1, <2>1, <3>1 DEF BatchGeneratesOnce
    <3>2. CASE UNCHANGED <<holds, issued>>
      BY <1>0, <1>1, <3>2 DEF BatchGeneratesOnce
    <3> QED
      BY <1>7, <3>1, <3>2 DEF RequestRow
  <2>3. batch.state = "active"
    BY <1>7 DEF RequestRow
  <2> QED
    BY <1>0, <1>1, <2>1, <2>2, <2>3
       DEF BatchIInv, BatchInOrder, BatchTypeOK, BatchGeneratesOnce, FileMeansNoCode, BatchState
<1>8. ASSUME NEW d \in BatchRows, StoreRow(d)
      PROVE  BatchIInv'
  <2>1. stored' \in [BatchRows -> Nat]
    BY <1>1, <1>8 DEF StoreRow
  <2> QED
    BY <1>0, <1>1, <1>8, <2>1
       DEF StoreRow, BatchIInv, BatchInOrder, BatchTypeOK, BatchGeneratesOnce, FileMeansNoCode, BatchState
<1>9. CASE UNCHANGED batchVars
  BY <1>0, <1>9 DEF batchVars, BatchIInv, BatchInOrder, BatchTypeOK, BatchGeneratesOnce, FileMeansNoCode
<1> QED
  BY <1>2, <1>3, <1>4, <1>5, <1>6, <1>7, <1>8, <1>9 DEF BatchNext

\* However often the job is tried, thrown out or restarted, a row gets at most
\* one code and one more for each death of the process.
THEOREM CodesOncePerRow == BatchSpec => []BatchInOrder
<1>1. BatchIInv => BatchInOrder
  BY DEF BatchIInv
<1> QED
  BY <1>1, InitBatchIInv, NextBatchIInv, PTL DEF BatchSpec

-----------------------------------------------------------------------------
(* PaymentCorrection *)

\* Only a job that was asked for runs.
AskedFirst == ~asked => correction = Quiet

\* What the job has read still holds: every device has the codes it saw, the
\* payments it makes and has yet to make are as many as the codes, and the
\* payments of the sale are those it counted.
SeesWhatIs ==
  /\ correction.state \in {"running", "paying"} => correction.seen = codes
  /\ correction.state = "paying" =>
       /\ payments[SoldIn[correction.device]] + correction.missing = codes[correction.device]
       /\ failures = 0 => payments[SoldIn[correction.device]] = correction.total + correction.added

CorrectionCore == PaymentsInOrder /\ SeesWhatIs

CorrectionIInv == CorrectionCore /\ AskedFirst

-----------------------------------------------------------------------------
(* Types *)

Attempts == 1 .. CorrectionAttempts
WaitingJob == [state : {"waiting"}, left : Attempts]
RunningJob == [state : {"running"}, left : Attempts, seen : Snapshot, todo : SUBSET CodeDevices]
PayingJob == [state : {"paying"}, left : Attempts, seen : Snapshot, todo : SUBSET CodeDevices,
              device : CodeDevices, missing : Nat, added : Nat, total : Nat]

LEMMA JobCases ==
  ASSUME CorrectionTypeOK
  PROVE  /\ correction = Quiet \/ correction \in WaitingJob \/ correction \in RunningJob \/ correction \in PayingJob
         /\ correction.state = "none" <=> correction = Quiet
         /\ correction.state = "waiting" <=> correction \in WaitingJob
         /\ correction.state = "running" <=> correction \in RunningJob
         /\ correction.state = "paying" <=> correction \in PayingJob
BY DEF CorrectionTypeOK, Quiet, WaitingJob, RunningJob, PayingJob, Attempts

LEMMA SoldType == \A d \in CodeDevices : SoldIn[d] \in Sold
BY DEF Sold

\* The next job is one of the four kinds.
LEMMA TypeFromJob ==
  ASSUME codes' \in [CodeDevices -> Nat], payments' \in [Sold -> Nat], totalPaid' \in [Sold -> Nat],
         correction' = Quiet \/ correction' \in WaitingJob \/ correction' \in RunningJob \/ correction' \in PayingJob,
         asked' \in BOOLEAN, failures' \in 0 .. MaxCorrectionFailures
  PROVE  CorrectionTypeOK'
BY DEF CorrectionTypeOK, WaitingJob, RunningJob, PayingJob, Attempts

LEMMA ContinueType ==
  ASSUME correction \in PayingJob
  PROVE  Continue \in RunningJob /\ Continue.state = "running" /\ Continue.seen = correction.seen
BY DEF Continue, PayingJob, RunningJob

LEMMA RetriedType ==
  ASSUME correction \in RunningJob
  PROVE  /\ Retried = Quiet \/ Retried \in WaitingJob
         /\ Retried.state \in {"none", "waiting"}
BY CorrectionAssumption DEF Retried, Quiet, RunningJob, WaitingJob, Attempts

-----------------------------------------------------------------------------
(* The invariant *)

LEMMA InitCorrectionIInv == CorrectionInit => CorrectionIInv
<1> SUFFICES ASSUME CorrectionInit PROVE CorrectionIInv
  OBVIOUS
<1>1. CodesOf \in [CodeDevices -> Nat]
  BY CorrectionAssumption
<1>2. (UNION {0 .. CodesOf[d] : d \in CodeDevices}) \subseteq Nat
  BY <1>1
<1>3. payments \in [Sold -> Nat] /\ totalPaid = payments /\ correction = Quiet
  BY <1>2 DEF CorrectionInit
<1>4. correction.state = "none"
  BY <1>3 DEF Quiet
<1>5. CorrectionTypeOK
  <2>1. codes = CodesOf /\ asked = FALSE /\ failures = 0 /\ 0 \in 0 .. MaxCorrectionFailures
    BY CorrectionAssumption DEF CorrectionInit
  <2> QED
    BY <1>1, <1>3, <2>1 DEF CorrectionTypeOK
<1> QED
  BY <1>3, <1>4, <1>5 DEF CorrectionInit, CorrectionIInv, CorrectionCore, AskedFirst, PaymentsInOrder, TotalFollows, SeesWhatIs

LEMMA NextCorrectionCore ==
  ASSUME ~PayMeanwhile, CorrectionIInv, [CorrectionNext]_correctionVars
  PROVE  CorrectionCore'
<1>0. CorrectionTypeOK /\ TotalFollows /\ SeesWhatIs
  BY DEF CorrectionIInv, CorrectionCore, PaymentsInOrder
<1>1. /\ codes \in [CodeDevices -> Nat] /\ payments \in [Sold -> Nat] /\ totalPaid \in [Sold -> Nat]
      /\ asked \in BOOLEAN /\ failures \in 0 .. MaxCorrectionFailures /\ MaxCorrectionFailures \in Nat
      /\ CorrectionAttempts \in Nat \ {0}
  BY <1>0, CorrectionAssumption DEF CorrectionTypeOK
<1>2. CASE AskCorrection
  <2>1. /\ correction' \in WaitingJob /\ correction'.state = "waiting" /\ asked' = TRUE
        /\ UNCHANGED <<codes, payments, totalPaid, failures>>
    BY <1>1, <1>2 DEF AskCorrection, WaitingJob, Attempts
  <2>2. correction.state = "none"
    BY <1>2 DEF AskCorrection, CorrectionIInv, AskedFirst, Quiet
  <2> QED
    BY <1>0, <1>1, <2>1, <2>2, TypeFromJob DEF CorrectionCore, PaymentsInOrder, TotalFollows, SeesWhatIs
<1>3. CASE StartCorrection
  <2>1. correction \in WaitingJob
    BY <1>0, <1>3, JobCases DEF StartCorrection
  <2>2. /\ correction' \in RunningJob /\ correction'.state = "running" /\ correction'.seen = codes
        /\ UNCHANGED <<codes, payments, totalPaid, asked, failures>> /\ correction.state = "waiting"
    BY <1>1, <1>3, <2>1 DEF StartCorrection, RunningJob, WaitingJob, Snapshot
  <2> QED
    BY <1>0, <1>1, <2>2, TypeFromJob DEF CorrectionCore, PaymentsInOrder, TotalFollows, SeesWhatIs
<1>4. CASE CreatePayment
  <2> DEFINE s == SoldIn[correction.device]
  <2>1. correction \in PayingJob /\ correction.missing > 0
    BY <1>0, <1>4, JobCases DEF CreatePayment
  <2>2. /\ correction.device \in CodeDevices /\ correction.missing \in Nat /\ correction.added \in Nat
        /\ correction.total \in Nat /\ correction.state = "paying"
    BY <2>1 DEF PayingJob
  <2>3. correction' = [correction EXCEPT !.missing = @ - 1, !.added = @ + 1]
    BY <1>4 DEF CreatePayment
  <2>4. /\ correction' \in PayingJob /\ correction'.state = "paying" /\ correction'.seen = correction.seen
        /\ correction'.device = correction.device /\ correction'.missing = correction.missing - 1
        /\ correction'.added = correction.added + 1 /\ correction'.total = correction.total
    <3>1. /\ correction'.state = "paying" /\ correction'.seen = correction.seen
          /\ correction'.device = correction.device /\ correction'.missing = correction.missing - 1
          /\ correction'.added = correction.added + 1 /\ correction'.total = correction.total
      BY <2>1, <2>3 DEF PayingJob
    <3>2. correction.missing - 1 \in Nat /\ correction.added + 1 \in Nat
      BY <2>1, <2>2
    <3>3. correction' \in PayingJob
      BY <2>1, <2>3, <3>2 DEF PayingJob
    <3> QED
      BY <3>1, <3>3
  <2>5. s \in Sold
    BY <2>2, SoldType
  <2>6. /\ payments' = [payments EXCEPT ![s] = @ + 1] /\ payments' \in [Sold -> Nat]
        /\ payments'[s] = payments[s] + 1 /\ \A t \in Sold : t # s => payments'[t] = payments[t]
        /\ UNCHANGED <<codes, totalPaid, asked, failures>>
    BY <1>1, <1>4, <2>5 DEF CreatePayment
  <2>7. CorrectionTypeOK'
    BY <1>1, <2>4, <2>6, TypeFromJob
  <2>8. TotalFollows'
    BY <1>0, <2>2, <2>4, <2>6 DEF TotalFollows
  <2>9. SeesWhatIs'
    <3>1. payments'[s] + correction'.missing = codes[correction.device]
      BY <1>0, <1>1, <2>2, <2>4, <2>5, <2>6 DEF SeesWhatIs
    <3>2. failures = 0 => payments'[s] = correction'.total + correction'.added
      BY <1>0, <1>1, <2>2, <2>4, <2>5, <2>6 DEF SeesWhatIs
    <3> QED
      BY <1>0, <2>2, <2>4, <2>6, <3>1, <3>2 DEF SeesWhatIs
  <2> QED
    BY <2>7, <2>8, <2>9 DEF CorrectionCore, PaymentsInOrder
<1>5. CASE UpdateTotal
  <2> DEFINE s == SoldIn[correction.device]
  <2>1. correction \in PayingJob
    BY <1>0, <1>5, JobCases DEF UpdateTotal
  <2>2. correction.device \in CodeDevices /\ correction.total + correction.added \in Nat /\ correction.state = "paying"
    BY <2>1 DEF PayingJob
  <2>3. correction' \in RunningJob /\ correction'.state = "running" /\ correction'.seen = correction.seen
    BY <1>5, <2>1, ContinueType DEF UpdateTotal
  <2>4. s \in Sold
    BY <2>2, SoldType
  <2>5. /\ totalPaid' \in [Sold -> Nat] /\ totalPaid'[s] = correction.total + correction.added
        /\ \A t \in Sold : t # s => totalPaid'[t] = totalPaid[t]
        /\ UNCHANGED <<codes, payments, asked, failures>>
    BY <1>1, <1>5, <2>2, <2>4 DEF UpdateTotal, NewTotal
  <2>6. failures = 0 => payments[s] = totalPaid'[s] /\ \A t \in Sold : t # s => totalPaid[t] = payments[t]
    BY <1>0, <2>2, <2>5 DEF SeesWhatIs, TotalFollows
  <2>7. TotalFollows'
    BY <2>5, <2>6 DEF TotalFollows
  <2>8. SeesWhatIs'
    BY <1>0, <2>2, <2>3, <2>5 DEF SeesWhatIs
  <2> QED
    BY <1>1, <2>3, <2>5, <2>7, <2>8, TypeFromJob DEF CorrectionCore, PaymentsInOrder
<1>6. CASE DeviceFails
  <2>1. correction \in PayingJob /\ correction.state = "paying"
    BY <1>0, <1>6, JobCases DEF DeviceFails
  <2>2. /\ correction' \in RunningJob /\ correction'.state = "running" /\ correction'.seen = correction.seen
        /\ failures' \in 0 .. MaxCorrectionFailures /\ failures' # 0
        /\ UNCHANGED <<codes, payments, totalPaid, asked>>
    BY <1>1, <1>6, <2>1, ContinueType DEF DeviceFails
  <2> QED
    BY <1>0, <1>1, <2>1, <2>2, TypeFromJob DEF CorrectionCore, PaymentsInOrder, TotalFollows, SeesWhatIs
<1>7. CASE CorrectionEnds
  <2>1. correction \in RunningJob /\ correction.state = "running"
    BY <1>0, <1>7, JobCases DEF CorrectionEnds
  <2>2. /\ correction' = Quiet \/ correction' \in WaitingJob
        /\ correction'.state \in {"none", "waiting"}
        /\ UNCHANGED <<codes, payments, totalPaid, asked, failures>>
    BY <1>7, <2>1, RetriedType DEF CorrectionEnds
  <2> QED
    BY <1>0, <1>1, <2>1, <2>2, TypeFromJob DEF CorrectionCore, PaymentsInOrder, TotalFollows, SeesWhatIs
<1>8. CASE CorrectionDies
  <2>1. correction \in PayingJob /\ correction.left \in Attempts
    BY <1>0, <1>8, JobCases DEF CorrectionDies, PayingJob
  <2>2. /\ correction' \in WaitingJob /\ correction'.state = "waiting"
        /\ failures' \in 0 .. MaxCorrectionFailures /\ failures' # 0
        /\ UNCHANGED <<codes, payments, totalPaid, asked>>
    BY <1>1, <1>8, <2>1 DEF CorrectionDies, WaitingJob
  <2> QED
    BY <1>1, <2>2, TypeFromJob DEF CorrectionCore, PaymentsInOrder, TotalFollows, SeesWhatIs
<1>9. ASSUME NEW d \in CodeDevices, ReadSale(d)
      PROVE  CorrectionCore'
  <2>1. correction \in RunningJob /\ correction.state = "running"
    BY <1>0, <1>9, JobCases DEF ReadSale
  <2>2. /\ correction.seen = codes /\ correction.todo \in SUBSET CodeDevices /\ correction.left \in Attempts
        /\ UNCHANGED <<codes, payments, totalPaid, asked, failures>>
        /\ \A t \in Sold : failures = 0 => totalPaid[t] = payments[t]
    BY <1>0, <1>9, <2>1 DEF SeesWhatIs, RunningJob, ReadSale, TotalFollows
  <2>3. CASE correction.seen[d] <= 1 \/ Missing(d) <= 0
    <3>1. correction' = [correction EXCEPT !.todo = @ \ {d}]
      BY <1>9, <2>3 DEF ReadSale
    <3>2. correction' \in RunningJob /\ correction'.state = "running" /\ correction'.seen = correction.seen
      BY <2>1, <2>2, <3>1 DEF RunningJob
    <3> QED
      BY <1>1, <2>2, <3>2, TypeFromJob DEF CorrectionCore, PaymentsInOrder, TotalFollows, SeesWhatIs
  <2>4. CASE ~(correction.seen[d] <= 1 \/ Missing(d) <= 0)
    <3>1. correction' = [state |-> "paying", left |-> correction.left, seen |-> correction.seen,
             todo |-> correction.todo \ {d}, device |-> d, missing |-> Missing(d), added |-> 0,
             total |-> totalPaid[SoldIn[d]]]
      BY <1>9, <2>4 DEF ReadSale
    <3>2. SoldIn[d] \in Sold /\ codes[d] \in Nat /\ payments[SoldIn[d]] \in Nat /\ totalPaid[SoldIn[d]] \in Nat
      BY <1>1, SoldType
    <3>3. Missing(d) = codes[d] - payments[SoldIn[d]] /\ Missing(d) \in Nat
      BY <2>2, <2>4, <3>2 DEF Missing
    <3>4. correction' \in PayingJob
      BY <1>1, <2>2, <3>1, <3>2, <3>3 DEF PayingJob, Snapshot
    <3>5. /\ correction'.state = "paying" /\ correction'.seen = codes /\ correction'.device = d
          /\ correction'.missing = codes[d] - payments[SoldIn[d]] /\ correction'.added = 0
          /\ correction'.total = totalPaid[SoldIn[d]]
      BY <2>2, <3>1, <3>3
    <3>6. SeesWhatIs'
      BY <2>2, <3>2, <3>5 DEF SeesWhatIs
    <3>7. TotalFollows'
      BY <2>2 DEF TotalFollows
    <3> QED
      BY <1>1, <2>2, <3>4, <3>6, <3>7, TypeFromJob DEF CorrectionCore, PaymentsInOrder
  <2> QED
    BY <2>3, <2>4
<1>10. ASSUME NEW d \in CodeDevices, Pay(d)
      PROVE  CorrectionCore'
  <2>1. correction.state \in {"none", "waiting"} /\ UNCHANGED <<correction, asked, failures>>
    BY <1>10 DEF Pay
  <2>2. SoldIn[d] \in Sold
    BY SoldType
  <2>3. /\ codes' \in [CodeDevices -> Nat] /\ payments' \in [Sold -> Nat] /\ totalPaid' \in [Sold -> Nat]
        /\ \A t \in Sold : totalPaid[t] = payments[t] => totalPaid'[t] = payments'[t]
    BY <1>1, <1>10, <2>2 DEF Pay
  <2>4. CorrectionTypeOK'
    BY <1>0, <1>1, <2>1, <2>3, JobCases, TypeFromJob
  <2>5. TotalFollows' /\ SeesWhatIs'
    BY <1>0, <2>1, <2>3 DEF TotalFollows, SeesWhatIs
  <2> QED
    BY <2>4, <2>5 DEF CorrectionCore, PaymentsInOrder
<1>11. CASE UNCHANGED correctionVars
  BY <1>0, <1>11 DEF correctionVars, CorrectionCore, PaymentsInOrder, CorrectionTypeOK, TotalFollows, SeesWhatIs
<1> QED
  BY <1>2, <1>3, <1>4, <1>5, <1>6, <1>7, <1>8, <1>9, <1>10, <1>11 DEF CorrectionNext

LEMMA NextCorrectionIInv ==
  ASSUME ~PayMeanwhile, CorrectionIInv, [CorrectionNext]_correctionVars
  PROVE  CorrectionIInv'
<1>1. CorrectionCore'
  BY NextCorrectionCore
<1>2. Quiet.state = "none"
  BY DEF Quiet
<1>3. AskedFirst'
  BY <1>2
     DEF CorrectionIInv, AskedFirst, CorrectionNext, AskCorrection, StartCorrection, CreatePayment, UpdateTotal,
         DeviceFails, CorrectionEnds, CorrectionDies, ReadSale, Pay, correctionVars
<1> QED
  BY <1>1, <1>3 DEF CorrectionIInv

\* Between two devices every total agrees with the payments unless a query
\* failed or the process died, if nobody pays while the job runs.
THEOREM TotalsFollowPayments ==
  ASSUME ~PayMeanwhile
  PROVE  CorrectionSpec => []PaymentsInOrder
<1>1. CorrectionIInv => PaymentsInOrder
  BY DEF CorrectionIInv, CorrectionCore
<1>2. CorrectionIInv /\ [CorrectionNext]_correctionVars => CorrectionIInv'
  BY NextCorrectionIInv
<1> QED
  BY <1>1, <1>2, InitCorrectionIInv, PTL DEF CorrectionSpec

-----------------------------------------------------------------------------
(* No code is paid for twice *)

PaysOnlyCodes ==
  \A s \in Sold : payments'[s] > payments[s] /\ codes' = codes =>
    \E d \in CodeDevices : SoldIn[d] = s /\ payments'[s] <= codes[d]

LEMMA StepPaysOnlyCodes ==
  ASSUME CorrectionIInv, [CorrectionNext]_correctionVars
  PROVE  PaysOnlyCodes
<1>0. CorrectionTypeOK /\ SeesWhatIs
  BY DEF CorrectionIInv, CorrectionCore, PaymentsInOrder
<1>1. /\ codes \in [CodeDevices -> Nat] /\ payments \in [Sold -> Nat]
  BY <1>0 DEF CorrectionTypeOK
<1>2. CASE CreatePayment
  <2> DEFINE e == correction.device
  <2>1. correction \in PayingJob /\ correction.state = "paying" /\ correction.missing > 0
    BY <1>0, <1>2, JobCases DEF CreatePayment
  <2>2. e \in CodeDevices /\ correction.missing \in Nat /\ SoldIn[e] \in Sold
    BY <2>1, SoldType DEF PayingJob
  <2>3. payments[SoldIn[e]] + correction.missing = codes[e]
    BY <1>0, <2>1 DEF SeesWhatIs
  <2>4. \A s \in Sold : payments'[s] = IF s = SoldIn[e] THEN payments[s] + 1 ELSE payments[s]
    BY <1>1, <1>2, <2>2 DEF CreatePayment
  <2>5. payments'[SoldIn[e]] <= codes[e]
    BY <1>1, <2>1, <2>2, <2>3, <2>4
  <2> QED
    BY <1>1, <2>2, <2>4, <2>5 DEF PaysOnlyCodes
<1>3. ASSUME NEW d \in CodeDevices, Pay(d)
      PROVE  codes' # codes
  BY <1>1, <1>3 DEF Pay
<1>4. CASE UNCHANGED payments
  BY <1>1, <1>4 DEF PaysOnlyCodes
<1> QED
  BY <1>2, <1>3, <1>4
     DEF CorrectionNext, AskCorrection, StartCorrection, UpdateTotal, DeviceFails, CorrectionEnds, CorrectionDies,
         ReadSale, correctionVars, PaysOnlyCodes

\* Attempts, failures and deaths never make a second payment for a code, if
\* nobody pays while the job runs.
THEOREM CodesPaidOnce ==
  ASSUME ~PayMeanwhile
  PROVE  CorrectionSpec => NeverOverpaid
<1>1. CorrectionIInv /\ [CorrectionNext]_correctionVars => CorrectionIInv'
  BY NextCorrectionIInv
<1>2. CorrectionIInv /\ [CorrectionNext]_correctionVars => [PaysOnlyCodes]_correctionVars
  BY StepPaysOnlyCodes
<1>3. CorrectionSpec => [][PaysOnlyCodes]_correctionVars
  BY <1>1, <1>2, InitCorrectionIInv, PTL DEF CorrectionSpec
<1> QED
  BY <1>3 DEF NeverOverpaid, PaysOnlyCodes

-----------------------------------------------------------------------------
(* CsvImport *)

\* Attempts of each row that have failed.
Tried == SumFunction([r \in Rows |-> RowAttempts - job[r].left])

\* The row being processed has an active job, and an account before a profile;
\* and a job that may still run has attempts left.
JobsFit ==
  /\ worker # NoRow => job[worker.row].state \in {"active", "gone"} /\ job[worker.row].left > 0
  /\ worker.step = "profile" => RowData[worker.row].agent \in users
  /\ \A r \in Rows : /\ job[r].state \in {"waiting", "active"} => job[r].left > 0
                     /\ job[r].state = "failed" => job[r].left = 0

\* The session has counted every attempt that failed, unless it was lost.
SessionCounts ==
  /\ session.status = "none" =>
       /\ session.processed = 0 /\ session.errors = 0
       /\ \A r \in Rows : job[r].state = "none"
  /\ session.status \notin {"none", "lost"} =>
       /\ session.errors = session.processed
       /\ session.processed = Tried
       /\ session.status = "completed" <=> session.processed >= Cardinality(Rows)
  /\ session.status # "none" => \A r \in Rows : job[r].state # "none"

ImportIInv == ImportTypeOK /\ NoTwins /\ JobsFit /\ SessionCounts

JobState == {"none", "waiting", "active", "failed", "gone"}
Statistics == [status : {"none", "pending", "processing", "completed", "lost"}, processed : Nat, errors : Nat]

LEMMA ImportRows ==
  /\ Cardinality(Rows) \in Nat /\ Cardinality(Rows) > 0
  /\ RowAttempts \in Nat \ {0}
BY ImportAssumption, FS_CardinalityType, FS_EmptySet

LEMMA TriedAfter ==
  ASSUME ImportTypeOK, ImportTypeOK'
  PROVE  /\ (\A r \in Rows : job'[r].left = job[r].left) => Tried' = Tried
         /\ \A r \in Rows :
              (\A s \in Rows \ {r} : job'[s].left = job[s].left)
                => Tried' = Tried + job[r].left - job'[r].left
         /\ Tried \in Int
<1>1. PICK before : before = [r \in Rows |-> RowAttempts - job[r].left]
  OBVIOUS
<1>2. PICK after : after = [r \in Rows |-> RowAttempts - job'[r].left]
  OBVIOUS
<1>3. Tried = SumFunctionOnSet(before, Rows)
  BY <1>1 DEF Tried, SumFunction
<1>4. Tried' = SumFunctionOnSet(after, Rows)
  BY <1>2 DEF Tried, SumFunction
<1>5. /\ \A r \in Rows : before[r] = RowAttempts - job[r].left /\ before[r] \in Int
      /\ \A r \in Rows : after[r] = RowAttempts - job'[r].left /\ after[r] \in Int
  <2>1. \A r \in Rows : job[r].left \in Int /\ job'[r].left \in Int
    BY DEF ImportTypeOK
  <2> QED
    BY <1>1, <1>2, <2>1, ImportRows
<1>6. IsFiniteSet(Rows)
  BY ImportAssumption
<1>7. Tried \in Int
  BY <1>3, <1>5, <1>6, SumType
<1>8. ASSUME \A r \in Rows : job'[r].left = job[r].left
      PROVE  Tried' = Tried
  <2>1. \A r \in Rows : before[r] = after[r]
    BY <1>5, <1>8
  <2> QED
    BY <1>3, <1>4, <1>6, <2>1, SumSame
<1>9. ASSUME NEW r \in Rows, \A s \in Rows \ {r} : job'[s].left = job[s].left
      PROVE  Tried' = Tried + job[r].left - job'[r].left
  <2>1. \A s \in Rows \ {r} : after[s] = before[s]
    BY <1>5, <1>9
  <2>2. Tried' = Tried - before[r] + after[r]
    BY <1>3, <1>4, <1>5, <1>6, <2>1, SumChange
  <2>3. before[r] = RowAttempts - job[r].left /\ after[r] = RowAttempts - job'[r].left
    BY <1>5
  <2>4. job[r].left \in Int /\ job'[r].left \in Int
    BY DEF ImportTypeOK
  <2> QED
    BY <1>7, <2>2, <2>3, <2>4, ImportRows
<1> QED
  BY <1>7, <1>8, <1>9

\* The attempt of a row fails, whatever it was about.
LEMMA ThrowsKeeps ==
  ASSUME ImportIInv, worker # NoRow, Throws, UNCHANGED entities
  PROVE  ImportIInv'
<1> DEFINE r == worker.row
<1>1. /\ r \in Rows /\ job[r].state \in {"active", "gone"} /\ job[r].left > 0 /\ job[r].left \in 0 .. RowAttempts
      /\ job \in [Rows -> [state : JobState, left : 0 .. RowAttempts]] /\ session \in Statistics
  BY DEF ImportIInv, ImportTypeOK, JobsFit, JobState, Statistics
<1>2. PICK after : after = [state |-> IF job[r].state = "gone" THEN "gone"
                                      ELSE IF job[r].left > 1 THEN "waiting" ELSE "failed",
                            left |-> job[r].left - 1]
  OBVIOUS
<1>3. /\ after \in [state : JobState, left : 0 .. RowAttempts] /\ after.left = job[r].left - 1
      /\ \/ after.state = "gone"
         \/ after.state = "waiting" /\ after.left > 0
         \/ after.state = "failed" /\ after.left = 0
  BY <1>1, <1>2, ImportRows DEF JobState
<1>4. job' = [job EXCEPT ![r] = after]
  BY <1>2 DEF Throws
<1>5. session' \in Statistics
  BY <1>1, ImportRows DEF Throws, ReportFailure, Statistics
<1>6. /\ worker' = NoRow
      /\ \A s \in Rows : job'[s] = IF s = r THEN after ELSE job[s]
      /\ job' \in [Rows -> [state : JobState, left : 0 .. RowAttempts]]
  BY <1>1, <1>3, <1>4 DEF Throws
<1>7. ImportTypeOK'
  BY <1>5, <1>6 DEF Throws, ImportIInv, ImportTypeOK, entities, JobState, Statistics
<1>8. JobsFit'
  BY <1>1, <1>3, <1>6 DEF ImportIInv, JobsFit, NoRow
<1>9. \A s \in Rows : job'[s].state # "none"
  BY <1>1, <1>3, <1>6 DEF ImportIInv, SessionCounts
<1>10. Tried' = Tried + 1 /\ Tried \in Int
  <2>1. ImportTypeOK
    BY DEF ImportIInv
  <2>2. Tried' = Tried + job[r].left - job'[r].left /\ Tried \in Int
    BY <1>1, <1>6, <1>7, <2>1, TriedAfter
  <2>3. job'[r].left = job[r].left - 1
    BY <1>1, <1>3, <1>6
  <2> QED
    BY <1>1, <2>2, <2>3
<1>11. session.status # "none"
  BY <1>1 DEF ImportIInv, SessionCounts
<1>12. SessionCounts'
  <2>1. CASE session.status = "lost"
    BY <1>9, <2>1 DEF Throws, ReportFailure, SessionCounts
  <2>2. CASE session.status # "lost"
    <3>1. session.errors = session.processed /\ session.processed = Tried
      BY <1>11, <2>2 DEF ImportIInv, SessionCounts
    <3>2. /\ session'.processed = session.processed + 1 /\ session'.errors = session.errors + 1
          /\ session'.status = IF session.processed + 1 >= Cardinality(Rows) THEN "completed" ELSE "processing"
      BY <2>2 DEF Throws, ReportFailure
    <3>3. session'.status = "completed" <=> session'.processed >= Cardinality(Rows)
      BY <3>2
    <3>4. session'.status # "none"
      BY <3>2
    <3>5. session'.errors = session'.processed /\ session'.processed = Tried'
      BY <1>10, <3>1, <3>2
    <3> QED
      BY <1>9, <3>3, <3>4, <3>5 DEF SessionCounts
  <2> QED
    BY <2>1, <2>2
<1>13. NoTwins'
  BY DEF ImportIInv, NoTwins, entities
<1> QED
  BY <1>7, <1>8, <1>12, <1>13 DEF ImportIInv

\* The steps of an attempt that only write what the row names.
LEMMA EntityKeeps ==
  ASSUME ImportIInv, UNCHANGED <<job, session>>, ImportTypeOK', NoTwins',
         worker # NoRow => worker'.row = worker.row,
         worker'.step = "profile" => RowData[worker'.row].agent \in users',
         worker' # NoRow => worker # NoRow
  PROVE  ImportIInv'
<1>1. Tried' = Tried
  BY TriedAfter DEF ImportIInv
<1>2. SessionCounts'
  BY <1>1 DEF ImportIInv, SessionCounts
<1>3. JobsFit'
  BY DEF ImportIInv, JobsFit
<1> QED
  BY <1>2, <1>3 DEF ImportIInv

LEMMA ProcessKeeps ==
  ASSUME ImportIInv, ProcessSalesRow
  PROVE  ImportIInv'
<1> DEFINE Steps == {"agent", "profile", "customer", "product", "batch", "device", "contract", "sale"}
<1>1. worker # NoRow /\ worker \in [row : Rows, step : Steps]
  BY DEF ImportIInv, ImportTypeOK, ProcessSalesRow, FindAgent, FindProfile, FindCustomer, FindProduct,
         CreateBatch, FindDevice, CreateContract, CreateSale, Does, NoRow
<1>2. ASSUME NEW step \in Steps, NEW next \in Steps, Does(step, next)
      PROVE  worker' \in [row : Rows, step : Steps] /\ worker'.row = worker.row
  BY <1>1, <1>2 DEF Does
<1>2b. ASSUME NEW step \in Steps, NEW next \in Steps, Does(step, next)
      PROVE  worker'.step = next
  BY <1>1, <1>2b DEF Does
<1>3. CASE FindCustomer
  <2>1. worker' \in [row : Rows, step : Steps] /\ worker'.row = worker.row
    BY <1>2, <1>3 DEF FindCustomer
  <2>1b. worker'.step # "profile"
    BY <1>2b, <1>3 DEF FindCustomer
  <2>2. CASE people' = people
    <3>1. ImportTypeOK'
      BY <1>3, <2>1, <2>2 DEF FindCustomer, ImportIInv, ImportTypeOK
    <3>2. NoTwins'
      BY <2>2 DEF ImportIInv, NoTwins
    <3> QED
      BY <1>1, <1>3, <2>1, <2>1b, <3>1, <3>2, EntityKeeps DEF FindCustomer
  <2>3. CASE \A i \in DOMAIN people : ~Matches(people[i], Row)
    <3>1. PICK p : p = [names |-> Row.names, phone |-> Row.phone, imported |-> TRUE]
      OBVIOUS
    <3>2. p \in Person /\ p.names = Row.names /\ p.phone = Row.phone
      BY <1>1, <3>1 DEF Person, Row
    <3>3. people \in Seq(Person) /\ people' = Append(people, p)
      BY <1>3, <2>3, <3>1 DEF FindCustomer, ImportIInv, ImportTypeOK
    <3>4. /\ people' \in Seq(Person) /\ DOMAIN people' = 1 .. Len(people) + 1
          /\ people'[Len(people) + 1] = p
          /\ \A i \in 1 .. Len(people) : people'[i] = people[i]
      BY <3>2, <3>3
    <3>5. ImportTypeOK'
      BY <1>3, <2>1, <3>4 DEF FindCustomer, ImportIInv, ImportTypeOK
    <3>6. NoTwins'
      <4> SUFFICES ASSUME NEW i \in DOMAIN people', NEW j \in DOMAIN people', i < j,
                          people'[i].names = people'[j].names
                   PROVE  ~people'[i].imported /\ people'[i].phone # people'[j].phone
        BY DEF NoTwins
      <4>1. i \in DOMAIN people /\ people'[i] = people[i]
        BY <3>3, <3>4
      <4>2. CASE j \in DOMAIN people
        BY <3>3, <3>4, <4>1, <4>2 DEF ImportIInv, NoTwins
      <4>3. CASE j = Len(people) + 1
        BY <2>3, <3>2, <3>4, <4>1, <4>3 DEF Matches
      <4> QED
        BY <3>3, <3>4, <4>2, <4>3
    <3> QED
      BY <1>1, <1>3, <2>1, <2>1b, <3>5, <3>6, EntityKeeps DEF FindCustomer
  <2> QED
    BY <1>3, <2>2, <2>3 DEF FindCustomer
<1>4. CASE FindAgent \/ FindProfile \/ FindProduct \/ CreateBatch \/ CreateContract
  <2>1. worker' \in [row : Rows, step : Steps] /\ worker'.row = worker.row
    BY <1>2, <1>4 DEF FindAgent, FindProfile, FindProduct, CreateBatch, CreateContract
  <2>2. /\ job' = job /\ session' = session /\ people' = people /\ stalls' = stalls /\ flushed' = flushed
        /\ catalogue' \in BOOLEAN
    BY <1>4 DEF FindAgent, FindProfile, FindProduct, CreateBatch, CreateContract, ImportIInv, ImportTypeOK
  <2>3. batches' \in [Rows -> Nat] /\ contracts' \in [Rows -> Nat]
    <3>1. batches \in [Rows -> Nat] /\ contracts \in [Rows -> Nat]
      BY DEF ImportIInv, ImportTypeOK
    <3>2. \/ batches' = batches /\ contracts' = contracts
          \/ batches' = [batches EXCEPT ![worker.row] = @ + 1] /\ contracts' = contracts
          \/ batches' = batches /\ contracts' = [contracts EXCEPT ![worker.row] = @ + 1]
      BY <1>4 DEF FindAgent, FindProfile, FindProduct, CreateBatch, CreateContract
    <3> QED
      BY <3>1, <3>2
  <2>4. /\ profiles' \subseteq users' /\ users' \subseteq {RowData[r].agent : r \in Rows}
        /\ worker'.step = "profile" => RowData[worker'.row].agent \in users'
    <3>1. profiles \subseteq users /\ users \subseteq {RowData[r].agent : r \in Rows}
      BY DEF ImportIInv, ImportTypeOK
    <3>2. CASE FindAgent
      BY <1>1, <2>1, <3>1, <3>2 DEF FindAgent, Row
    <3>3. CASE FindProfile
      <4>1. worker'.step # "profile"
        BY <1>2b, <3>3 DEF FindProfile
      <4>2. Row.agent \in users
        BY <3>3 DEF FindProfile, Does, Row, ImportIInv, JobsFit
      <4> QED
        BY <3>1, <3>3, <4>1, <4>2 DEF FindProfile
    <3>4. CASE FindProduct \/ CreateBatch \/ CreateContract
      <4>1. worker'.step # "profile"
        BY <1>2b, <3>4 DEF FindProduct, CreateBatch, CreateContract
      <4> QED
        BY <3>1, <3>4, <4>1 DEF FindProduct, CreateBatch, CreateContract
    <3> QED
      BY <1>4, <3>2, <3>3, <3>4
  <2>5. ImportTypeOK'
    BY <2>1, <2>2, <2>3, <2>4 DEF ImportIInv, ImportTypeOK
  <2>6. NoTwins'
    BY <2>2 DEF ImportIInv, NoTwins
  <2> QED
    BY <1>1, <2>1, <2>2, <2>4, <2>5, <2>6, EntityKeeps
<1>5. CASE FindDevice
  <2>1. CASE Throws
    BY <1>1, <1>5, <2>1, ThrowsKeeps DEF FindDevice
  <2>2. CASE Does("device", "contract") /\ UNCHANGED <<job, session, stalls, flushed>>
    <3>1. /\ worker' \in [row : Rows, step : Steps] /\ worker'.row = worker.row
          /\ worker'.step # "profile"
      BY <1>2, <1>2b, <2>2
    <3>2. ImportTypeOK'
      BY <1>5, <2>2, <3>1 DEF FindDevice, ImportIInv, ImportTypeOK, entities
    <3>3. NoTwins'
      BY <1>5 DEF FindDevice, ImportIInv, NoTwins, entities
    <3> QED
      BY <1>1, <2>2, <3>1, <3>2, <3>3, EntityKeeps
  <2> QED
    BY <1>5, <2>1, <2>2 DEF FindDevice
<1>6. CASE CreateSale
  BY <1>1, <1>6, ThrowsKeeps DEF CreateSale
<1> QED
  BY <1>3, <1>4, <1>5, <1>6 DEF ProcessSalesRow

LEMMA ImportQueueKeeps ==
  ASSUME ImportIInv,
         UploadFile \/ ProcessDies \/ FlushQueue \/ \E r \in Rows : TakeRow(r)
  PROVE  ImportIInv'
<1> USE DEF ImportIInv
<1>0. /\ job \in [Rows -> [state : JobState, left : 0 .. RowAttempts]] /\ session \in Statistics
      /\ RowAttempts \in 0 .. RowAttempts
  BY ImportRows DEF ImportTypeOK, JobState, Statistics
<1>1. NoTwins'
  BY DEF UploadFile, ProcessDies, FlushQueue, TakeRow, NoTwins, entities
<1>2. CASE UploadFile
  <2>1. PICK fresh : fresh = [state |-> "waiting", left |-> RowAttempts]
    OBVIOUS
  <2>2. fresh \in [state : JobState, left : 0 .. RowAttempts] /\ fresh.state = "waiting" /\ fresh.left = RowAttempts
    BY <1>0, <2>1 DEF JobState
  <2>3. job' = [r \in Rows |-> fresh] /\ session' = [session EXCEPT !.status = "pending"] /\ session.status = "none"
    BY <1>2, <2>1 DEF UploadFile
  <2>4. /\ session' \in Statistics /\ session'.status = "pending"
        /\ session'.processed = 0 /\ session'.errors = 0
    BY <1>0, <2>3 DEF SessionCounts, Statistics
  <2>5. ImportTypeOK'
    BY <1>2, <2>2, <2>3, <2>4 DEF UploadFile, ImportTypeOK, entities, JobState, Statistics
  <2>6. worker = NoRow
    BY <2>3 DEF JobsFit, SessionCounts, ImportTypeOK
  <2>7. JobsFit'
    BY <1>2, <2>2, <2>3, <2>6, ImportRows DEF UploadFile, JobsFit, NoRow
  <2>8. Tried' = 0
    <3>1. PICK after : after = [r \in Rows |-> RowAttempts - job'[r].left]
      OBVIOUS
    <3>2. Tried' = SumFunctionOnSet(after, Rows)
      BY <3>1 DEF Tried, SumFunction
    <3>3. \A r \in Rows : after[r] = 0
      BY <2>2, <2>3, <3>1, ImportRows
    <3> QED
      BY <3>2, <3>3, SumZero, ImportAssumption
  <2>9. SessionCounts'
    BY <2>2, <2>3, <2>4, <2>8, ImportRows DEF SessionCounts
  <2> QED
    BY <1>1, <2>5, <2>7, <2>9
<1>3. ASSUME NEW r \in Rows, TakeRow(r)
      PROVE  ImportIInv'
  <2>1. /\ \A s \in Rows : /\ job'[s].left = job[s].left
                           /\ job'[s].state = IF s = r THEN "active" ELSE job[s].state
        /\ job' \in [Rows -> [state : JobState, left : 0 .. RowAttempts]]
    BY <1>0, <1>3 DEF TakeRow, JobState
  <2>2. worker' = [row |-> r, step |-> "agent"] /\ session' = session
    BY <1>3 DEF TakeRow
  <2>3. ImportTypeOK'
    BY <1>3, <2>1, <2>2 DEF TakeRow, ImportTypeOK, entities, JobState
  <2>4. JobsFit'
    BY <1>3, <2>1, <2>2 DEF TakeRow, JobsFit
  <2>5. Tried' = Tried
    BY <2>1, <2>3, TriedAfter
  <2>6. SessionCounts'
    BY <1>3, <2>1, <2>2, <2>5 DEF TakeRow, SessionCounts
  <2> QED
    BY <1>1, <2>3, <2>4, <2>6
<1>4. CASE ProcessDies
  <2>1. worker.row \in Rows /\ job[worker.row].state \in {"active", "gone"} /\ job[worker.row].left > 0
    BY <1>4 DEF ProcessDies, ImportTypeOK, JobsFit
  <2>2. /\ \A s \in Rows : /\ job'[s].left = job[s].left
                           /\ job'[s].state = IF s = worker.row /\ job[s].state # "gone" THEN "waiting" ELSE job[s].state
        /\ job' \in [Rows -> [state : JobState, left : 0 .. RowAttempts]]
    BY <1>0, <1>4, <2>1 DEF ProcessDies, JobState
  <2>3. session' \in Statistics /\ session'.status = "lost" /\ stalls' \in 0 .. MaxStalls
    <3>1. stalls \in 0 .. MaxStalls /\ MaxStalls \in Nat
      BY ImportAssumption DEF ImportTypeOK
    <3> QED
      BY <1>0, <1>4, <3>1 DEF ProcessDies, Statistics
  <2>4. ImportTypeOK'
    BY <1>4, <2>2, <2>3 DEF ProcessDies, ImportTypeOK, entities, JobState, Statistics
  <2>5. JobsFit'
    BY <1>4, <2>1, <2>2 DEF ProcessDies, JobsFit, NoRow
  <2>6. SessionCounts'
    BY <2>1, <2>2, <2>3 DEF SessionCounts
  <2> QED
    BY <1>1, <2>4, <2>5, <2>6
<1>5. CASE FlushQueue
  <2>1. /\ \A s \in Rows : job'[s].left = job[s].left /\ job'[s].state = "gone"
        /\ job' \in [Rows -> [state : JobState, left : 0 .. RowAttempts]]
    BY <1>0, <1>5 DEF FlushQueue, JobState
  <2>2. ImportTypeOK'
    BY <1>5, <2>1 DEF FlushQueue, ImportTypeOK, entities, JobState
  <2>3. JobsFit'
    <3>1. worker' = worker /\ users' = users
      BY <1>5 DEF FlushQueue, entities
    <3>2. worker # NoRow => worker.row \in Rows /\ job[worker.row].left > 0
      BY DEF ImportTypeOK, JobsFit
    <3>3. worker # NoRow => job'[worker.row].state = "gone" /\ job'[worker.row].left > 0
      BY <2>1, <3>2
    <3>4. worker.step = "profile" => RowData[worker.row].agent \in users
      BY DEF JobsFit
    <3> QED
      BY <2>1, <3>1, <3>3, <3>4 DEF JobsFit
  <2>4. Tried' = Tried
    BY <2>1, <2>2, TriedAfter
  <2>5. SessionCounts'
    BY <1>5, <2>1, <2>4 DEF FlushQueue, SessionCounts
  <2> QED
    BY <1>1, <2>2, <2>3, <2>5
<1> QED
  BY <1>2, <1>3, <1>4, <1>5

LEMMA InitImport == ImportInit => ImportIInv
<1> SUFFICES ASSUME ImportInit PROVE ImportIInv
  OBVIOUS
<1>1. people \in Seq(Person) /\ NoTwins
  <2>1. CASE people = << >>
    BY <2>1 DEF NoTwins
  <2>2. ASSUME NEW p \in KnownCustomers, people = <<p>>
        PROVE  people \in Seq(Person) /\ NoTwins
    <3>1. p \in Person
      BY ImportAssumption
    <3>2. DOMAIN people = {1}
      BY <2>2
    <3> QED
      BY <2>2, <3>1, <3>2 DEF NoTwins
  <2> QED
    BY <2>1, <2>2 DEF ImportInit
<1>2. ImportTypeOK
  <2>1. 0 \in 0 .. RowAttempts /\ 0 \in 0 .. MaxStalls
    BY ImportAssumption
  <2>2. job \in [Rows -> [state : {"none", "waiting", "active", "failed", "gone"}, left : 0 .. RowAttempts]]
    BY <2>1 DEF ImportInit
  <2> QED
    BY <1>1, <2>1, <2>2 DEF ImportInit, ImportTypeOK
<1>3. JobsFit /\ SessionCounts
  BY DEF ImportInit, JobsFit, SessionCounts, NoRow
<1> QED
  BY <1>1, <1>2, <1>3 DEF ImportIInv

LEMMA NextImport == ImportIInv /\ [ImportNext]_importVars => ImportIInv'
<1> SUFFICES ASSUME ImportIInv, [ImportNext]_importVars PROVE ImportIInv'
  OBVIOUS
<1>1. CASE AttemptFails
  BY <1>1, ThrowsKeeps DEF AttemptFails
<1>2. CASE UNCHANGED importVars
  <2>1. ImportTypeOK' /\ NoTwins'
    BY <1>2 DEF importVars, ImportIInv, ImportTypeOK, NoTwins
  <2>2. UNCHANGED <<job, session, worker, users>>
    BY <1>2 DEF importVars
  <2>3. JobsFit
    BY DEF ImportIInv
  <2> QED
    BY <2>1, <2>2, <2>3, EntityKeeps DEF JobsFit
<1> QED
  BY <1>1, <1>2, ProcessKeeps, ImportQueueKeeps DEF ImportNext

\* When every job has failed, all attempts were used.
LEMMA AllFailedIsReported == ImportIInv => QuietMeansReported
<1> SUFFICES ASSUME ImportIInv, \A r \in Rows : job[r].state = "failed", session.status # "lost"
             PROVE  session.status = "completed" /\ session.errors = RowAttempts * Cardinality(Rows)
  BY DEF QuietMeansReported
<1>1. session.status # "none"
  <2>1. PICK r : r \in Rows
    BY ImportAssumption
  <2> QED
    BY <2>1 DEF ImportIInv, SessionCounts
<1>2. PICK used : used = [r \in Rows |-> RowAttempts - job[r].left]
  OBVIOUS
<1>3. \A r \in Rows : used[r] = RowAttempts
  BY <1>2, ImportRows DEF ImportIInv, JobsFit
<1>4. Tried = SumFunctionOnSet(used, Rows)
  BY <1>2 DEF Tried, SumFunction
<1>5. Tried = RowAttempts * Cardinality(Rows)
  BY <1>3, <1>4, SumConstant, ImportAssumption
<1>6. \A n \in Nat, k \in Nat \ {0} : k * n >= n
  OBVIOUS
<1>7. Tried >= Cardinality(Rows)
  BY <1>5, <1>6, ImportRows
<1> QED
  BY <1>1, <1>5, <1>7 DEF ImportIInv, SessionCounts

\* Whatever fails, dies or is flushed while a file is imported, no two imported
\* customers share their names, and a session that was not lost has counted all
\* attempts once every row has failed.
THEOREM ImportStaysInOrder == ImportSpec => []ImportsInOrder
<1>1. ImportIInv => ImportsInOrder
  BY AllFailedIsReported DEF ImportIInv, ImportsInOrder
<1> QED
  BY <1>1, InitImport, NextImport, PTL DEF ImportSpec

=============================================================================
