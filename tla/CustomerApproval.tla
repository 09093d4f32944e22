-------------------------- MODULE CustomerApproval -------------------------
(***************************************************************************)
(* Customers: registered by staff or by an agent, or brought by an import; *)
(* approved or rejected alone or in bulk, corrected and resubmitted by who *)
(* registered them.  A donation's customer is one that staff registered    *)
(* without an address.                                                     *)
(*                                                                         *)
(* A request checks by a reading and writes in later steps; one that only  *)
(* reads what its single update needs is one step.  The row that ties a    *)
(* customer to the agent who registered it is in AgentRecords.             *)
(***************************************************************************)
EXTENDS Integers, Sequences, FiniteSets

CONSTANTS
  Customers,
  Emails, NoEmail,     \* addresses, and a customer without one
  CustomerClerks,      \* requests served at the same time
  CustomerServes,      \* bound: the operations each of them may run
  CustomerOverlap,     \* the pairs of operations that may overlap
  MaxRejections        \* bound: rejections of one customer

CustomerOp == {"create", "update", "delete", "approve", "reject", "bulkApprove", "bulkReject", "resubmit"}

ASSUME CustomerAssumption ==
  /\ NoEmail \notin Emails
  /\ CustomerServes \in [CustomerClerks -> SUBSET CustomerOp]
  /\ CustomerOverlap \subseteq SUBSET CustomerOp /\ MaxRejections \in Nat

VARIABLES
  customer,     \* the customers that exist
  rejections,   \* how often each was rejected
  history,      \* its rejectionHistory: whether each row's resubmittedAt is set
  counter       \* what each running request has read

customerVars == <<customer, rejections, history, counter>>

Approval == {"PENDING", "APPROVED", "REJECTED", "RESUBMITTED"}
Customer == [email : Emails \cup {NoEmail}, isApproved : BOOLEAN, approvalStatus : Approval,
             requiresReview : BOOLEAN, resubmissionCount : Nat]

Waiting == [op |-> "none"]
CustomerTask == [op : CustomerOp, step : Nat, who : SUBSET Customers, email : Emails \cup {NoEmail},
                 count : Nat, row : Nat]

CustomerTypeOK ==
  /\ DOMAIN customer \subseteq Customers /\ customer \in [DOMAIN customer -> Customer]
  /\ rejections \in [Customers -> 0 .. MaxRejections]
  /\ history \in [Customers -> Seq(BOOLEAN)]
  /\ counter \in [CustomerClerks -> CustomerTask \cup {Waiting}]

CustomerInit ==
  /\ customer = [c \in {} |-> 0]
  /\ rejections = [c \in Customers |-> 0]
  /\ history = [c \in Customers |-> << >>]
  /\ counter = [k \in CustomerClerks |-> Waiting]

Exists(c) == c \in DOMAIN customer
MayServe(op) == \A k \in CustomerClerks : counter[k] = Waiting \/ {op, counter[k].op} \in CustomerOverlap

Serve(k, op, who, email, count) ==
  /\ counter[k] = Waiting /\ op \in CustomerServes[k] /\ MayServe(op)
  /\ counter' = [counter EXCEPT ![k] =
       [op |-> op, step |-> 1, who |-> who, email |-> email, count |-> count, row |-> 0]]

Serving(k, op, step) == counter[k].op = op /\ counter[k].step = step
Served(k) == counter' = [counter EXCEPT ![k] = Waiting]
NextStep(k) == counter' = [counter EXCEPT ![k].step = @ + 1]

\* Writes of the columns in f to the rows of the customers in C that exist.
Writes(C, f(_)) == customer' = [c \in DOMAIN customer |-> IF c \in C THEN f(customer[c]) ELSE customer[c]]

-----------------------------------------------------------------------------
(* Registration and changes *)

\* A customer whose id was not used before.
Fresh(c) ==
  /\ ~Exists(c) /\ rejections[c] = 0 /\ history[c] = << >>
  /\ \A j \in CustomerClerks : counter[j] # Waiting => c \notin counter[j].who

HasEmail(e, C) == e # NoEmail /\ \E c \in C \cap DOMAIN customer : customer[c].email = e

\* createCustomer: the address is looked up before the images are uploaded.
BeginCreate(k, c, e) ==
  /\ Fresh(c) /\ ~HasEmail(e, Customers)
  /\ Serve(k, "create", {c}, e, 0)
  /\ UNCHANGED <<customer, rejections, history>>

\* What an agent registers waits for an approval.
Registered(byAgent, e) ==
  [email |-> e, isApproved |-> ~byAgent,
   approvalStatus |-> IF byAgent THEN "PENDING" ELSE "APPROVED",
   requiresReview |-> byAgent, resubmissionCount |-> 0]

CreateCustomer(k) ==
  /\ Serving(k, "create", 1)
  /\ \E byAgent \in BOOLEAN :
       /\ customer' = [c \in DOMAIN customer \cup counter[k].who |->
            IF Exists(c) THEN customer[c] ELSE Registered(byAgent, counter[k].email)]
  /\ Served(k)
  /\ UNCHANGED <<rejections, history>>

\* Whom a row of the import brings has no address, and neither of the approval
\* columns is set: the schema's defaults let it buy before anybody reviewed it.
Imported ==
  [email |-> NoEmail, isApproved |-> TRUE, approvalStatus |-> "PENDING",
   requiresReview |-> FALSE, resubmissionCount |-> 0]

ImportCustomer(c) ==
  /\ Fresh(c)
  /\ customer' = [d \in DOMAIN customer \cup {c} |-> IF d = c THEN Imported ELSE customer[d]]
  /\ UNCHANGED <<rejections, history, counter>>

\* Mutant of UpdateTakes: an update takes any address.
UpdateTakesAny(c, e) == Exists(c)

\* updateCustomer: a new address must be nobody else's.
UpdateTakes(c, e) == Exists(c) /\ (e = customer[c].email \/ ~HasEmail(e, Customers \ {c}))

BeginUpdate(k, c, e) ==
  /\ UpdateTakes(c, e)
  /\ Serve(k, "update", {c}, e, 0)
  /\ UNCHANGED <<customer, rejections, history>>

UpdateCustomer(k) ==
  LET Changed(r) == [r EXCEPT !.email = counter[k].email] IN
  /\ Serving(k, "update", 1)
  /\ Writes(counter[k].who, Changed)
  /\ Served(k)
  /\ UNCHANGED <<rejections, history>>

\* deleteCustomer: the row goes, with its history.
DeleteCustomer(c) ==
  /\ Exists(c) /\ MayServe("delete")
  /\ customer' = [d \in DOMAIN customer \ {c} |-> customer[d]]
  /\ history' = [history EXCEPT ![c] = << >>]
  /\ UNCHANGED <<rejections, counter>>

-----------------------------------------------------------------------------
(* Reviews *)

\* The columns an approval sets, and those a rejection sets.
Approved(r) == [r EXCEPT !.isApproved = TRUE, !.approvalStatus = "APPROVED", !.requiresReview = FALSE]

\* Mutant of Rejected: the flag that sales read is left.
RejectedInName(r) == [r EXCEPT !.approvalStatus = "REJECTED", !.requiresReview = TRUE]

Rejected(r) == [r EXCEPT !.isApproved = FALSE, !.approvalStatus = "REJECTED", !.requiresReview = TRUE]

\* approveCustomer, in one update.  Nobody awaits the insertion of the
\* rejection's row, and a query that is not awaited is never sent.
ApproveCustomer(c) ==
  /\ Exists(c) /\ MayServe("approve")
  /\ Writes({c}, Approved)
  /\ UNCHANGED <<rejections, history, counter>>

Rejects(C) ==
  /\ \A c \in C : rejections[c] < MaxRejections
  /\ rejections' = [c \in Customers |-> rejections[c] + IF c \in C THEN 1 ELSE 0]
  /\ Writes(C, Rejected)

RejectCustomer(c) ==
  /\ Exists(c) /\ MayServe("reject")
  /\ Rejects({c})
  /\ UNCHANGED <<history, counter>>

\* bulkApproveCustomers: one updateMany; a rejection then adds the rows.
BulkApprove(C) ==
  /\ MayServe("bulkApprove")
  /\ Writes(C, Approved)
  /\ UNCHANGED <<rejections, history, counter>>

BulkReject(k, C) ==
  /\ Serve(k, "bulkReject", C, NoEmail, 0)
  /\ Rejects(C)
  /\ UNCHANGED <<history>>

RecordRejections(k) ==
  /\ Serving(k, "bulkReject", 1)
  /\ history' = [c \in Customers |->
       IF c \in counter[k].who THEN Append(history[c], FALSE) ELSE history[c]]
  /\ Served(k)
  /\ UNCHANGED <<customer, rejections>>

-----------------------------------------------------------------------------
(* Resubmission *)

\* resubmitCustomer: the rejected customer is read, then, after the uploads,
\* the latest rejection; the update counts from the customer that was read.
BeginResubmit(k, c, e) ==
  /\ Exists(c) /\ customer[c].approvalStatus = "REJECTED"
  /\ Serve(k, "resubmit", {c}, e, customer[c].resubmissionCount)
  /\ UNCHANGED <<customer, rejections, history>>

FindLatestRejection(k) ==
  /\ Serving(k, "resubmit", 1)
  /\ \E c \in counter[k].who : counter' = [counter EXCEPT ![k].step = 2, ![k].row = Len(history[c])]
  /\ UNCHANGED <<customer, rejections, history>>

\* Mutant of Resubmitted: a first resubmission is counted as two.
ResubmittedTwice(r, task) ==
  [r EXCEPT !.email = IF task.email = NoEmail THEN @ ELSE task.email,
            !.approvalStatus = "RESUBMITTED", !.requiresReview = FALSE,
            !.resubmissionCount = task.count + 2]

\* An address is not checked; requiresReview is cleared and isApproved stays.
Resubmitted(r, task) ==
  [r EXCEPT !.email = IF task.email = NoEmail THEN @ ELSE task.email,
            !.approvalStatus = "RESUBMITTED", !.requiresReview = FALSE,
            !.resubmissionCount = task.count + 1]

\* A customer deleted meanwhile fails the update.
ResubmitCustomer(k) ==
  LET Again(r) == Resubmitted(r, counter[k]) IN
  /\ Serving(k, "resubmit", 2)
  /\ Writes(counter[k].who, Again)
  /\ IF counter[k].row > 0 /\ counter[k].who \subseteq DOMAIN customer THEN NextStep(k) ELSE Served(k)
  /\ UNCHANGED <<rejections, history>>

\* Mutant of Marked: every row is marked.
MarkedAll(rows, n) == [i \in DOMAIN rows |-> TRUE]

Marked(rows, n) == [i \in DOMAIN rows |-> i = n \/ rows[i]]

MarkRejection(k) ==
  /\ Serving(k, "resubmit", 3)
  /\ history' = [c \in Customers |->
       IF c \in counter[k].who THEN Marked(history[c], counter[k].row) ELSE history[c]]
  /\ Served(k)
  /\ UNCHANGED <<customer, rejections>>

-----------------------------------------------------------------------------
CustomerNext ==
  \/ \E k \in CustomerClerks, c \in Customers, e \in Emails \cup {NoEmail} :
       BeginCreate(k, c, e) \/ BeginUpdate(k, c, e) \/ BeginResubmit(k, c, e)
  \/ \E k \in CustomerClerks :
       \/ CreateCustomer(k) \/ UpdateCustomer(k) \/ RecordRejections(k)
       \/ FindLatestRejection(k) \/ ResubmitCustomer(k) \/ MarkRejection(k)
  \/ \E c \in Customers : ImportCustomer(c) \/ DeleteCustomer(c) \/ ApproveCustomer(c) \/ RejectCustomer(c)
  \/ \E C \in SUBSET DOMAIN customer \ {{}} : BulkApprove(C) \/ \E k \in CustomerClerks : BulkReject(k, C)

CustomerSpec == CustomerInit /\ [][CustomerNext]_customerVars

-----------------------------------------------------------------------------
(* What must hold *)

\* The flag that creating a sale reads is set only for a customer who was
\* approved, or whom an import brought and nobody has reviewed yet: an agent's
\* customer never buys unseen, and whoever was rejected, imported or not, buys
\* only after an approval, however often resubmitted (approveCustomer,
\* resubmitCustomer, validateCustomer of sales).  It fails when an approval is
\* given while a resubmission is on its way.
OnlyApprovedBuy ==
  \A c \in DOMAIN customer : customer[c].isApproved =>
    \/ customer[c].approvalStatus = "APPROVED"
    \/ /\ customer[c].approvalStatus = "PENDING" /\ ~customer[c].requiresReview
       /\ rejections[c] = 0

\* Two customers have one address only if a resubmission brought it: creation
\* and update look it up first (createCustomer, updateCustomer), and nothing
\* else keeps addresses apart.  It fails when two of them overlap.
AddressesDiffer ==
  \A c, d \in DOMAIN customer :
    c # d /\ customer[c].email # NoEmail /\ customer[c].email = customer[d].email
      => customer[c].resubmissionCount + customer[d].resubmissionCount > 0

\* A customer is never resubmitted more often than it was rejected, and a
\* rejected one has a resubmission left, whatever overlaps (resubmitCustomer
\* counts from the customer it read).
ResubmissionsAnswer ==
  \A c \in DOMAIN customer :
    /\ customer[c].resubmissionCount <= rejections[c]
    /\ customer[c].approvalStatus = "REJECTED" => customer[c].resubmissionCount < rejections[c]

\* A recorded rejection is marked as answered only by a resubmission of its
\* own (resubmitCustomer): marked rows never outnumber the resubmissions.  It
\* fails when two resubmissions of a customer overlap.
AnswersCounted ==
  \A c \in DOMAIN customer :
    Cardinality({i \in DOMAIN history[c] : history[c][i]}) <= customer[c].resubmissionCount

\* All of these, for the overlaps that are allowed.
CustomersInOrder ==
  CustomerTypeOK /\ OnlyApprovedBuy /\ AddressesDiffer /\ ResubmissionsAnswer /\ AnswersCounted

=============================================================================
