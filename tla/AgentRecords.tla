---------------------------- MODULE AgentRecords ---------------------------
(***************************************************************************)
(* Agents and what is theirs: devices, customers and a wallet; and the     *)
(* merge that collapses duplicate agents into one.                         *)
(*                                                                         *)
(* An account has at most one agent of each category.  An assignment is    *)
(* named by its device, or customer, and its agent: the unique indexes     *)
(* allow one active row of each.  Requests check by a reading and write in *)
(* a later step.                                                           *)
(***************************************************************************)
EXTENDS Integers, FiniteSetsExt

CONSTANTS
  Agents,        \* pairs of a user and a category
  Devices, Customers,
  Clerks,        \* requests served at the same time
  Serves,        \* bound: the operations each of them may run
  Overlap,       \* the pairs of operations that may overlap
  Careful,       \* merges name one duplicate, whose account has no other profile
  MaxTopUps      \* bound

Op == {"create", "assign", "reassign", "bulk", "unassign", "moveCustomers", "merge", "topUp"}

ASSUME AgentAssumption ==
  /\ \A a \in Agents : a = <<a[1], a[2]>> /\ a[2] \in {"SALES", "INSTALLER"}
  /\ Serves \in [Clerks -> SUBSET Op] /\ Overlap \subseteq SUBSET Op
  /\ Careful \in BOOLEAN /\ MaxTopUps \in Nat

Nobody == <<"nobody", "SALES">>   \* the agent of a row whose agent was deleted

VARIABLES
  account,     \* users that exist
  profile,     \* agents that exist
  assigned,    \* active device assignments
  isAssigned,  \* devices flagged as assigned
  serves,      \* customers assigned to agents
  wallet,      \* balances, of the agents that have one
  topUps,      \* money ever paid into wallets
  errors,      \* whether a merge answered with errors
  desk         \* what each running request has read

vars == <<account, profile, assigned, isAssigned, serves, wallet, topUps, errors, desk>>

Idle == [op |-> "none"]
Task == [op : Op, step : Nat, agent : Agents, to : Agents, things : SUBSET (Devices \cup Customers),
         dups : SUBSET Agents, saw : Nat]

TypeOK ==
  /\ account \subseteq {a[1] : a \in Agents} /\ profile \subseteq Agents
  /\ assigned \subseteq Devices \X (Agents \cup {Nobody})
  /\ isAssigned \subseteq Devices
  /\ serves \subseteq Customers \X profile
  /\ DOMAIN wallet \subseteq profile /\ \A a \in DOMAIN wallet : wallet[a] \in Nat
  /\ topUps \in 0 .. MaxTopUps /\ errors \in BOOLEAN
  /\ desk \in [Clerks -> Task \cup {Idle}]

Init ==
  /\ account = {} /\ profile = {} /\ assigned = {} /\ isAssigned = {} /\ serves = {}
  /\ wallet = [a \in {} |-> 0] /\ topUps = 0 /\ errors = FALSE
  /\ desk = [c \in Clerks |-> Idle]

MayRun(op) == \A c \in Clerks : desk[c] = Idle \/ {op, desk[c].op} \in Overlap

Takes(c, op, a, b, things, dups, saw) ==
  /\ desk[c] = Idle /\ op \in Serves[c] /\ MayRun(op)
  /\ desk' = [desk EXCEPT ![c] =
       [op |-> op, step |-> 1, agent |-> a, to |-> b, things |-> things, dups |-> dups, saw |-> saw]]

Begins(c, op, a, b, things) ==
  /\ Takes(c, op, a, b, things, {}, 0)
  /\ UNCHANGED <<account, profile, assigned, isAssigned, serves, wallet, topUps, errors>>

Running(c, op, step) == desk[c].op = op /\ desk[c].step = step
Ends(c) == desk' = [desk EXCEPT ![c] = Idle]
Goes(c, task) == desk' = [desk EXCEPT ![c] = [task EXCEPT !.step = @ + 1]]

-----------------------------------------------------------------------------
(* Accounts *)

\* create: a first profile makes the account, and is missing when its own
\* creation fails; another category joins the account.
CreateAgent(a) ==
  /\ a \notin profile /\ MayRun("create")
  /\ \/ a[1] \notin account
     \/ \E p \in profile : p[1] = a[1]
  /\ account' = account \cup {a[1]}
  /\ profile' \in {profile \cup {a}, profile}
  /\ UNCHANGED <<assigned, isAssigned, serves, wallet, topUps, errors, desk>>

Sales == {a \in profile : a[2] = "SALES"}

-----------------------------------------------------------------------------
(* Devices *)

Holders(d) == {a \in Agents \cup {Nobody} : <<d, a>> \in assigned}

\* Mutant of Free: only an assignment to the same agent is in the way.
FreeOf(d, a) == <<d, a>> \notin assigned

Free(d, a) == Holders(d) = {}

\* assignDevice
BeginAssign(c, d, a) == a \in Sales /\ Free(d, a) /\ Begins(c, "assign", a, a, {d})

\* An active row that is there already fails the insertion.
Assign(d, a) ==
  IF <<d, a>> \in assigned THEN UNCHANGED <<assigned, isAssigned>>
  ELSE assigned' = assigned \cup {<<d, a>>} /\ isAssigned' = isAssigned \cup {d}

AssignDevice(c) ==
  /\ Running(c, "assign", 1)
  /\ \E d \in desk[c].things : Assign(d, desk[c].agent)
  /\ Ends(c)
  /\ UNCHANGED <<account, profile, serves, wallet, topUps, errors>>

\* reassignDevice: the row it read ends, and another begins.
BeginReassign(c, d, a, b) ==
  /\ <<d, a>> \in assigned /\ b \in Sales /\ <<d, b>> \notin assigned
  /\ Begins(c, "reassign", a, b, {d})

ReassignDevice(c) ==
  LET b == desk[c].to IN
  /\ Running(c, "reassign", 1)
  /\ \E d \in desk[c].things :
       IF <<d, b>> \in assigned THEN UNCHANGED <<assigned, isAssigned>>
       ELSE /\ assigned' = (assigned \ {<<d, desk[c].agent>>}) \cup {<<d, b>>}
            /\ isAssigned' = isAssigned \cup {d}
  /\ Ends(c)
  /\ UNCHANGED <<account, profile, serves, wallet, topUps, errors>>

\* bulkAssignDevices, to an agent of any category: the devices that are free
\* when it looks, all of them in ATOMIC mode, in a transaction each.
BeginBulk(c, D, a) ==
  /\ a \in profile
  /\ \E mode \in {"ATOMIC", "PARTIAL"} :
       /\ mode = "ATOMIC" => \A d \in D : Free(d, a)
       /\ Begins(c, "bulk", a, a, {d \in D : Free(d, a)})

\* A transaction that fails is counted, and the batch goes on.
BulkAssignOne(c) ==
  /\ Running(c, "bulk", 1)
  /\ \E d \in desk[c].things :
       /\ Assign(d, desk[c].agent) \/ UNCHANGED <<assigned, isAssigned>>
       /\ desk' = [desk EXCEPT ![c].things = @ \ {d}]
  /\ UNCHANGED <<account, profile, serves, wallet, topUps, errors>>

BulkAssignEnds(c) ==
  /\ Running(c, "bulk", 1) /\ desk[c].things = {}
  /\ Ends(c)
  /\ UNCHANGED <<account, profile, assigned, isAssigned, serves, wallet, topUps, errors>>

\* unassignDevice, also called when a sale is undone.
BeginUnassign(c, d, a) ==
  /\ <<d, a>> \in assigned /\ a \in profile
  /\ Begins(c, "unassign", a, a, {d})

\* Mutant of Unflag: the device stays flagged.
KeepFlag(d) == isAssigned

Unflag(d) == isAssigned \ {d}

UnassignDevice(c) ==
  /\ Running(c, "unassign", 1)
  /\ \E d \in desk[c].things : assigned' = assigned \ {<<d, desk[c].agent>>} /\ isAssigned' = Unflag(d)
  /\ Ends(c)
  /\ UNCHANGED <<account, profile, serves, wallet, topUps, errors>>

-----------------------------------------------------------------------------
(* Customers *)

AssignCustomer(cu, a) ==
  /\ a \in profile /\ <<cu, a>> \notin serves
  /\ MayRun("moveCustomers")
  /\ serves' = serves \cup {<<cu, a>>}
  /\ UNCHANGED <<account, profile, assigned, isAssigned, wallet, topUps, errors, desk>>

UnassignCustomer(cu, a) ==
  /\ <<cu, a>> \in serves
  /\ MayRun("moveCustomers")
  /\ serves' = serves \ {<<cu, a>>}
  /\ UNCHANGED <<account, profile, assigned, isAssigned, wallet, topUps, errors, desk>>

\* reassignCustomersToNewAgent: one customer of the agent's is enough, and
\* the others named move too, from whoever has them; those the other agent
\* has already stay with both.
BeginMoveCustomers(c, a, b, C) ==
  /\ a \in profile /\ b \in profile \ {a}
  /\ \E cu \in C : <<cu, a>> \in serves
  /\ Begins(c, "moveCustomers", a, b, {cu \in C : <<cu, b>> \notin serves})

\* Mutant of Handed: the other agent's rows are not inserted.
HandedNone(C, a, b) == serves \ (C \X {a})

Handed(C, a, b) == (serves \ (C \X {a})) \cup (C \X {b})

\* One transaction, which the unique index fails.
ReassignCustomersToNewAgent(c) ==
  LET C == desk[c].things  b == desk[c].to IN
  /\ Running(c, "moveCustomers", 1)
  /\ IF b \notin profile \/ (C \X {b}) \cap serves # {} THEN UNCHANGED serves
     ELSE serves' = Handed(C, desk[c].agent, b)
  /\ Ends(c)
  /\ UNCHANGED <<account, profile, assigned, isAssigned, wallet, topUps, errors>>

-----------------------------------------------------------------------------
(* Wallets *)

Balance(a) == IF a \in DOMAIN wallet THEN wallet[a] ELSE 0
Set(a, n) == [x \in DOMAIN wallet \cup {a} |-> IF x = a THEN n ELSE wallet[x]]

TopUp(a) ==
  /\ MayRun("topUp") /\ a \in profile /\ topUps < MaxTopUps
  /\ wallet' = Set(a, Balance(a) + 1)
  /\ topUps' = topUps + 1
  /\ UNCHANGED <<account, profile, assigned, isAssigned, serves, errors, desk>>

-----------------------------------------------------------------------------
(* Merging duplicates: one transfer after another, each caught when it fails *)

Others(a) == {p \in profile : p[1] = a[1] /\ p # a}

\* collapseDuplicateAgentRecords
BeginMerge(c, a, D) ==
  /\ a \in profile /\ D # {} /\ D \subseteq profile \ {a} /\ \A d \in D : d[2] = a[2]
  /\ Careful => \E d \in D : D = {d} /\ Others(d) = {}
  /\ Takes(c, "merge", a, a, {cu \in Customers : <<cu, a>> \notin serves /\ \E d \in D : <<cu, d>> \in serves}, D, 0)
  /\ UNCHANGED <<account, profile, assigned, isAssigned, serves, wallet, topUps, errors>>

Merging(c, step) == Running(c, "merge", step)

Inherits(a, C, D) == (serves \ (Customers \X D)) \cup {<<cu, a>> : cu \in {x \in C : \E d \in D : <<x, d>> \in serves}}

\* transferAgentCustomers: the rows that are not moved are deleted.
TransferAgentCustomers(c) ==
  LET D == desk[c].dups IN
  /\ Merging(c, 1)
  /\ \/ serves' = Inherits(desk[c].agent, desk[c].things, D) /\ UNCHANGED errors
     \/ serves' = serves \ (Customers \X D) /\ errors' = TRUE
  /\ Goes(c, desk[c])
  /\ UNCHANGED <<account, profile, assigned, isAssigned, wallet, topUps>>

\* transferWallets reads the survivor's balance,
ReadWallet(c) ==
  /\ Merging(c, 2)
  /\ Goes(c, [desk[c] EXCEPT !.saw = Balance(desk[c].agent)])
  /\ UNCHANGED <<account, profile, assigned, isAssigned, serves, wallet, topUps, errors>>

\* Mutant of Sum: the duplicate's balance replaces the survivor's.
SumOf(saw, balance) == balance

Sum(saw, balance) == saw + balance

\* Mutant of Without: the wallets of the duplicates stay.
WithoutNone(D) == wallet

Without(D) == [x \in DOMAIN wallet \ D |-> wallet[x]]

\* adds that of each duplicate to it, so that only the last addition is kept,
\* and deletes their wallets.
TransferWallets(c) ==
  LET D == desk[c].dups  a == desk[c].agent  W == D \cap DOMAIN wallet IN
  /\ Merging(c, 3)
  /\ \/ /\ IF W = {} THEN wallet' = Without(D)
           ELSE \E d \in W : wallet' = [x \in (DOMAIN wallet \ D) \cup {a} |->
                                         IF x = a THEN Sum(desk[c].saw, wallet[d]) ELSE wallet[x]]
        /\ UNCHANGED errors
     \/ wallet' = Without(D) /\ errors' = TRUE
  /\ Goes(c, desk[c])
  /\ UNCHANGED <<account, profile, assigned, isAssigned, serves, topUps>>

\* Mutant of Takeover: the devices stay with the duplicates.
TakeoverNone(a, D) == assigned

Takeover(a, D) == {<<r[1], IF r[2] \in D THEN a ELSE r[2]>> : r \in assigned}

TransferDeviceAssignments(c) ==
  /\ Merging(c, 4)
  /\ \/ assigned' = Takeover(desk[c].agent, desk[c].dups) /\ UNCHANGED errors
     \/ UNCHANGED assigned /\ errors' = TRUE
  /\ Goes(c, desk[c])
  /\ UNCHANGED <<account, profile, isAssigned, serves, wallet, topUps>>

\* Mutant of Going: every agent of the category goes.
GoingAll(D) == {a \in profile : \E d \in D : a[2] = d[2]}

Going(D) == {a \in profile : \E d \in D : a[1] = d[1]}

\* deleteDuplicateAgents deletes their users, and the schema's cascades every
\* agent of those users with customers and wallet; assignments lose the agent.
DeleteDuplicateAgents(c) ==
  LET U == {d[1] : d \in desk[c].dups}
      G == Going(desk[c].dups) IN
  /\ Merging(c, 5)
  /\ \/ /\ account' = account \ U
        /\ profile' = profile \ G
        /\ serves' = serves \ (Customers \X G)
        /\ wallet' = Without(G)
        /\ assigned' = {<<r[1], IF r[2] \in G THEN Nobody ELSE r[2]>> : r \in assigned}
        /\ UNCHANGED errors
     \/ errors' = TRUE /\ UNCHANGED <<account, profile, serves, wallet, assigned>>
  /\ Ends(c)
  /\ UNCHANGED <<isAssigned, topUps>>

-----------------------------------------------------------------------------

Next ==
  \/ \E a \in Agents : CreateAgent(a) \/ TopUp(a)
  \/ \E cu \in Customers, a \in Agents : AssignCustomer(cu, a) \/ UnassignCustomer(cu, a)
  \/ \E c \in Clerks :
       \/ AssignDevice(c) \/ ReassignDevice(c) \/ BulkAssignOne(c) \/ BulkAssignEnds(c) \/ UnassignDevice(c)
       \/ ReassignCustomersToNewAgent(c)
       \/ TransferAgentCustomers(c) \/ ReadWallet(c) \/ TransferWallets(c)
       \/ TransferDeviceAssignments(c) \/ DeleteDuplicateAgents(c)
       \/ \E a \in Agents :
            \/ \E d \in Devices : BeginAssign(c, d, a) \/ BeginUnassign(c, d, a)
            \/ \E d \in Devices, b \in Agents : BeginReassign(c, d, a, b)
            \/ \E D \in SUBSET Devices : BeginBulk(c, D, a)
            \/ \E b \in Agents, C \in SUBSET Customers : BeginMoveCustomers(c, a, b, C)
            \/ \E D \in SUBSET Agents : BeginMerge(c, a, D)

Spec == Init /\ [][Next]_vars

-----------------------------------------------------------------------------
(* Properties *)

\* The assignments of devices agree: a device has at most one active one (the
\* conflict assignDevice answers with), the flag that lists of unassigned devices
\* go by says whether it has one, and its agent exists, unless a merge answered
\* with errors.
AssignmentsAgree ==
  /\ TypeOK
  /\ \A d \in Devices : Cardinality(Holders(d)) <= 1 /\ (d \in isAssigned <=> Holders(d) # {})
  /\ errors \/ \A r \in assigned : r[2] \in profile

Quiet == \A c \in Clerks : desk[c] = Idle

\* No money of an agent is lost in a merge, unless it answers with errors.
MoneyKept == Quiet /\ ~errors => SumFunction(wallet) = topUps

\* Nobody is lost by accident: a customer loses the last agent only when
\* somebody takes it away, not by a move or by a merge that answers without
\* errors, and an agent goes only when a merge names it.
NobodyIsLost ==
  [][/\ \A cu \in Customers :
          (\E a \in Agents : <<cu, a>> \in serves) /\ (\A a \in Agents : <<cu, a>> \notin serves')
            => errors' \/ \E a \in Agents : UnassignCustomer(cu, a)
     /\ \A a \in profile \ profile' : \E c \in Clerks : desk[c].op = "merge" /\ a \in desk[c].dups]_vars

=============================================================================
