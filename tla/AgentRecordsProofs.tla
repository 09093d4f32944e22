------------------------- MODULE AgentRecordsProofs ------------------------
(***************************************************************************)
(* AgentRecords, for any agents, devices, customers and numbers of         *)
(* requests: while requests for devices do not overlap, and a merge runs   *)
(* alone and names duplicates without another profile, a device has one    *)
(* holder, who exists, and a truthful flag, and nobody is lost.            *)
(***************************************************************************)
EXTENDS AgentRecords, SumTheorems, TLAPS

DeviceOp == {"assign", "reassign", "bulk", "unassign"}

RecordsApart ==
  /\ \A x, y \in DeviceOp : {x, y} \notin Overlap
  /\ \A x \in Op : {"merge", x} \notin Overlap

Holder == Agents \cup {Nobody}
Busy(c) == desk[c] # Idle

-----------------------------------------------------------------------------
(* The invariant *)

OneHolder == \A d \in Devices : \A a, b \in Holder : <<d, a>> \in assigned /\ <<d, b>> \in assigned => a = b

Flagged == \A d \in Devices : d \in isAssigned <=> \E a \in Holder : <<d, a>> \in assigned

HoldersExist == errors \/ \A r \in assigned : r[2] \in profile

Alone == \A j, k \in Clerks : j # k /\ Busy(j) /\ Busy(k) => {desk[j].op, desk[k].op} \in Overlap

\* What a request has read still holds.
StillFree(t) ==
  /\ t.agent \in profile /\ t.things \subseteq Devices
  /\ \A d \in t.things : \A a \in Holder : <<d, a>> \notin assigned

StillHeld(t) ==
  /\ t.to \in profile /\ t.things \subseteq Devices
  /\ \A d \in t.things : <<d, t.agent>> \in assigned

\* A merge: whom it names, the customers that still are the duplicates', which
\* it inherits if they are not its own, and from the second step on none is;
\* before the deletion no device is theirs, unless a step failed.
StillMerging(t) ==
  /\ t.agent \in profile /\ t.things \subseteq Customers /\ t.step \in 1 .. 5
  /\ \A d \in t.dups : d \in profile /\ d # t.agent /\ Others(d) = {}
  /\ \A cu \in Customers : \A d \in t.dups :
       <<cu, d>> \in serves => t.step = 1 /\ (<<cu, t.agent>> \in serves \/ cu \in t.things)
  /\ t.step = 5 => errors \/ \A r \in assigned : r[2] \notin t.dups

Fine(t) ==
  /\ t.op \in {"assign", "bulk"} => StillFree(t)
  /\ t.op \in {"reassign", "unassign"} => StillHeld(t)
  /\ t.op = "merge" => StillMerging(t)
  /\ t.op = "moveCustomers" => t.things \subseteq Customers

AgentsInv ==
  /\ TypeOK /\ OneHolder /\ Flagged /\ HoldersExist /\ Alone
  /\ \A k \in Clerks : Fine(desk[k])

-----------------------------------------------------------------------------
(* Requests *)

LEMMA DeskType ==
  ASSUME TypeOK, NEW k \in Clerks
  PROVE  /\ desk[k] \in Task \cup {Idle}
         /\ Busy(k) <=> desk[k].op \in Op
         /\ Busy(k) => desk[k] \in Task
         /\ ~Busy(k) <=> desk[k].op = "none"
BY DEF TypeOK, Busy, Idle, Task, Op

LEMMA BoundIsNat == MaxTopUps \in Nat
BY AgentAssumption DEF AgentAssumption

LEMMA IdleIsFine == Fine(Idle)
BY DEF Fine, Idle

\* Beside a request for a device there is no other, and no merge; beside a
\* merge there is nothing.
LEMMA ApartMeans ==
  ASSUME RecordsApart, TypeOK, Alone, NEW j \in Clerks, NEW k \in Clerks, j # k
  PROVE  /\ desk[k].op \in DeviceOp => desk[j].op \notin DeviceOp \cup {"merge"}
         /\ desk[k].op = "merge" => desk[j] = Idle
<1>1. /\ Busy(j) <=> desk[j].op \in Op
      /\ Busy(k) <=> desk[k].op \in Op
  BY DeskType
<1>2. Busy(j) /\ Busy(k) => {desk[k].op, desk[j].op} \in Overlap
  BY DEF Alone
<1>3. Busy(j) /\ Busy(k) => {desk[j].op, desk[k].op} \in Overlap
  BY DEF Alone
<1>4. desk[k].op = "merge" => ~Busy(j)
  BY <1>1, <1>2 DEF RecordsApart, Op
<1>5. desk[j].op = "merge" => ~Busy(k)
  BY <1>1, <1>3 DEF RecordsApart, Op
<1>6. desk[k].op \in DeviceOp => desk[j].op \notin DeviceOp
  BY <1>1, <1>2 DEF RecordsApart, Op, DeviceOp
<1> QED
  BY <1>1, <1>4, <1>5, <1>6 DEF Busy, DeviceOp, Op

LEMMA MayRunMeans ==
  ASSUME RecordsApart, TypeOK, NEW op \in Op, MayRun(op), NEW k \in Clerks
  PROVE  /\ desk[k].op # "merge"
         /\ op = "merge" => desk[k] = Idle
         /\ op \in DeviceOp => desk[k].op \notin DeviceOp
<1>1. Busy(k) => desk[k].op \in Op /\ {op, desk[k].op} \in Overlap
  BY DeskType DEF MayRun, Busy
<1>2. ~Busy(k) => desk[k] = Idle /\ desk[k].op = "none"
  BY DeskType DEF Busy
<1>3. Busy(k) => desk[k].op # "merge"
  <2> SUFFICES ASSUME Busy(k), desk[k].op = "merge"
               PROVE  FALSE
    OBVIOUS
  <2>1. {op, "merge"} = {"merge", op}
    OBVIOUS
  <2> QED
    BY <1>1, <2>1 DEF RecordsApart
<1> QED
  BY <1>1, <1>2, <1>3 DEF RecordsApart, DeviceOp

\* A request that begins, ends or goes on: only its own desk changes.
LEMMA DeskKeeps ==
  ASSUME TypeOK, Alone, NEW c \in Clerks, NEW t \in Task \cup {Idle},
         desk' = [desk EXCEPT ![c] = t],
         t # Idle => Busy(c) /\ t.op = desk[c].op
  PROVE  /\ Alone' /\ desk' \in [Clerks -> Task \cup {Idle}]
         /\ desk'[c] = t /\ \A j \in Clerks : j # c => desk'[j] = desk[j]
<1>1. /\ desk' \in [Clerks -> Task \cup {Idle}]
      /\ desk'[c] = t /\ \A j \in Clerks : j # c => desk'[j] = desk[j]
  BY DEF TypeOK
<1>2. Alone'
  BY <1>1 DEF Alone, Busy
<1> QED
  BY <1>1, <1>2

LEMMA BeginKeeps ==
  ASSUME AgentsInv, NEW c \in Clerks, NEW op \in Op, NEW a \in Agents, NEW b \in Agents,
         NEW things \in SUBSET (Devices \cup Customers), NEW dups \in SUBSET Agents,
         Takes(c, op, a, b, things, dups, 0),
         UNCHANGED <<account, profile, assigned, isAssigned, serves, wallet, topUps, errors>>,
         Fine([op |-> op, step |-> 1, agent |-> a, to |-> b, things |-> things, dups |-> dups, saw |-> 0])
  PROVE  AgentsInv'
<1> DEFINE t == [op |-> op, step |-> 1, agent |-> a, to |-> b, things |-> things, dups |-> dups, saw |-> 0]
<1>0. Fine(t) /\ desk' = [desk EXCEPT ![c] = t] /\ t.op = op
  BY DEF Takes
<1>1. t \in Task
  BY DEF Task
<1> HIDE DEF t
<1>2. desk \in [Clerks -> Task \cup {Idle}]
  BY DEF AgentsInv, TypeOK
<1>3. desk'[c] = t /\ \A j \in Clerks : j # c => desk'[j] = desk[j]
  BY <1>0, <1>2
<1>4. TypeOK'
  BY <1>0, <1>1, <1>2 DEF AgentsInv, TypeOK
<1>5. Alone'
  <2> SUFFICES ASSUME NEW j \in Clerks, NEW k \in Clerks, j # k, Busy(j)', Busy(k)'
               PROVE  {desk'[j].op, desk'[k].op} \in Overlap
    BY DEF Alone
  <2>1. \A i \in Clerks : Busy(i) => {op, desk[i].op} \in Overlap
    BY DEF Takes, MayRun, Busy
  <2>2. CASE j = c
    BY <2>1, <2>2, <1>0, <1>3 DEF Busy
  <2>3. CASE k = c
    <3>1. {desk'[j].op, desk'[k].op} = {op, desk[j].op} /\ Busy(j)
      BY <2>3, <1>0, <1>3 DEF Busy
    <3> QED
      BY <3>1, <2>1
  <2>4. CASE j # c /\ k # c
    BY <2>4, <1>3 DEF AgentsInv, Alone, Busy
  <2> QED
    BY <2>2, <2>3, <2>4
<1>6. \A k \in Clerks : Fine(desk[k])'
  <2> SUFFICES ASSUME NEW k \in Clerks
               PROVE  Fine(desk[k])'
    OBVIOUS
  <2>1. Fine(desk'[k])
    BY <1>0, <1>3 DEF AgentsInv
  <2> QED
    BY <2>1 DEF Fine, StillFree, StillHeld, StillMerging, Others
<1>7. OneHolder' /\ Flagged' /\ HoldersExist'
  BY DEF AgentsInv, OneHolder, Flagged, HoldersExist
<1> QED
  BY <1>4, <1>5, <1>6, <1>7 DEF AgentsInv

-----------------------------------------------------------------------------
(* Devices *)

\* A request for a device writes: the others have read nothing of devices.
LEMMA DeviceWriteKeeps ==
  ASSUME AgentsInv, RecordsApart, NEW c \in Clerks, desk[c].op \in DeviceOp,
         NEW t \in Task \cup {Idle}, desk' = [desk EXCEPT ![c] = t],
         t # Idle => /\ t.op = "bulk" /\ desk[c].op = "bulk" /\ t.agent \in profile /\ t.things \subseteq Devices
                     /\ \A d \in t.things : \A a \in Holder : <<d, a>> \notin assigned',
         UNCHANGED <<account, profile, serves, wallet, topUps, errors>>,
         assigned' \subseteq Devices \X Holder, isAssigned' \subseteq Devices,
         OneHolder', Flagged', HoldersExist'
  PROVE  AgentsInv'
<1>1. Busy(c) /\ desk[c].op \in Op
  BY DeskType DEF AgentsInv, DeviceOp, Op
<1>2. /\ Alone' /\ desk' \in [Clerks -> Task \cup {Idle}]
      /\ desk'[c] = t /\ \A j \in Clerks : j # c => desk'[j] = desk[j]
  BY <1>1, DeskKeeps DEF AgentsInv
<1>3. TypeOK'
  BY <1>2 DEF AgentsInv, TypeOK, Holder
<1>4. ASSUME NEW k \in Clerks
      PROVE  Fine(desk[k])'
  <2>1. CASE k = c /\ t = Idle
    BY <2>1, <1>2 DEF Fine, Idle
  <2>2. CASE k = c /\ t # Idle
    BY <2>2, <1>2 DEF Fine, StillFree
  <2>3. CASE k # c
    <3>1. desk[k].op \notin DeviceOp \cup {"merge"}
      BY <2>3, ApartMeans DEF AgentsInv
    <3>2. desk'[k] = desk[k] /\ Fine(desk[k])
      BY <2>3, <1>2 DEF AgentsInv
    <3> QED
      BY <3>1, <3>2 DEF Fine, DeviceOp
  <2> QED
    BY <2>1, <2>2, <2>3
<1> QED
  BY <1>2, <1>3, <1>4 DEF AgentsInv

\* A free device gets an agent that exists.
LEMMA AssignOne ==
  ASSUME AgentsInv, NEW d \in Devices, NEW a \in Agents, a \in profile, Assign(d, a), UNCHANGED <<profile, errors>>,
         \A b \in Holder : <<d, b>> \notin assigned
  PROVE  /\ assigned' = assigned \cup {<<d, a>>} /\ isAssigned' = isAssigned \cup {d}
         /\ assigned' \subseteq Devices \X Holder /\ isAssigned' \subseteq Devices
         /\ OneHolder' /\ Flagged' /\ HoldersExist'
<1>1. assigned' = assigned \cup {<<d, a>>} /\ isAssigned' = isAssigned \cup {d}
  BY DEF Assign, Holder
<1>2. assigned \subseteq Devices \X Holder /\ isAssigned \subseteq Devices
  BY DEF AgentsInv, TypeOK, Holder
<1>3. assigned' \subseteq Devices \X Holder /\ isAssigned' \subseteq Devices
  BY <1>1, <1>2 DEF Holder
<1>4. OneHolder'
  BY <1>1 DEF AgentsInv, OneHolder
<1>5. Flagged'
  BY <1>1 DEF AgentsInv, Flagged, Holder
<1>6. HoldersExist'
  BY <1>1 DEF AgentsInv, HoldersExist
<1> QED
  BY <1>1, <1>3, <1>4, <1>5, <1>6

LEMMA AssignDeviceKeeps ==
  ASSUME AgentsInv, RecordsApart, NEW c \in Clerks, AssignDevice(c)
  PROVE  AgentsInv'
<1>1. /\ desk[c].op = "assign" /\ desk' = [desk EXCEPT ![c] = Idle]
      /\ UNCHANGED <<account, profile, serves, wallet, topUps, errors>>
  BY DEF AssignDevice, Running, Ends
<1>2. desk[c] \in Task /\ StillFree(desk[c])
  BY <1>1, DeskType DEF AgentsInv, Fine, Op
<1>3. PICK d \in desk[c].things : Assign(d, desk[c].agent)
  BY DEF AssignDevice
<1>4. /\ assigned' \subseteq Devices \X Holder /\ isAssigned' \subseteq Devices
      /\ OneHolder' /\ Flagged' /\ HoldersExist'
  <2>1. d \in Devices /\ desk[c].agent \in Agents /\ desk[c].agent \in profile
        /\ \A b \in Holder : <<d, b>> \notin assigned
    BY <1>2, <1>3 DEF StillFree, Task
  <2> QED
    BY <1>1, <1>3, <2>1, AssignOne
<1> QED
  BY <1>1, <1>4, DeviceWriteKeeps DEF DeviceOp

LEMMA BulkAssignKeeps ==
  ASSUME AgentsInv, RecordsApart, NEW c \in Clerks, BulkAssignOne(c)
  PROVE  AgentsInv'
<1>1. /\ desk[c].op = "bulk"
      /\ UNCHANGED <<account, profile, serves, wallet, topUps, errors>>
  BY DEF BulkAssignOne, Running
<1>2. desk[c] \in Task /\ StillFree(desk[c])
  BY <1>1, DeskType DEF AgentsInv, Fine, Op
<1>3. PICK d \in desk[c].things :
        /\ Assign(d, desk[c].agent) \/ UNCHANGED <<assigned, isAssigned>>
        /\ desk' = [desk EXCEPT ![c].things = @ \ {d}]
  BY DEF BulkAssignOne
<1>4. PICK t \in Task : t = [desk[c] EXCEPT !.things = @ \ {d}]
  BY <1>2 DEF Task
<1>5. /\ t.op = "bulk" /\ t.agent = desk[c].agent /\ t.things = desk[c].things \ {d}
      /\ desk' = [desk EXCEPT ![c] = t]
  BY <1>1, <1>2, <1>3, <1>4 DEF Task
<1>6. d \in Devices /\ desk[c].agent \in Agents /\ desk[c].agent \in profile
      /\ \A e \in desk[c].things : \A b \in Holder : <<e, b>> \notin assigned
  BY <1>2, <1>3 DEF StillFree, Task
<1>7. CASE Assign(d, desk[c].agent)
  <2>1. /\ assigned' = assigned \cup {<<d, desk[c].agent>>}
        /\ assigned' \subseteq Devices \X Holder /\ isAssigned' \subseteq Devices
        /\ OneHolder' /\ Flagged' /\ HoldersExist'
    BY <1>1, <1>3, <1>6, <1>7, AssignOne
  <2>2. t.things \subseteq Devices /\ \A e \in t.things : \A b \in Holder : <<e, b>> \notin assigned'
    BY <1>2, <1>5, <1>6, <2>1 DEF StillFree
  <2> QED
    BY <1>1, <1>5, <1>6, <2>1, <2>2, DeviceWriteKeeps DEF DeviceOp
<1>8. CASE UNCHANGED <<assigned, isAssigned>>
  <2>1. /\ assigned' \subseteq Devices \X Holder /\ isAssigned' \subseteq Devices
        /\ OneHolder' /\ Flagged' /\ HoldersExist'
    BY <1>1, <1>8 DEF AgentsInv, TypeOK, Holder, OneHolder, Flagged, HoldersExist
  <2>2. t.things \subseteq Devices /\ \A e \in t.things : \A b \in Holder : <<e, b>> \notin assigned'
    BY <1>2, <1>5, <1>6, <1>8 DEF StillFree
  <2> QED
    BY <1>1, <1>5, <1>6, <2>1, <2>2, DeviceWriteKeeps DEF DeviceOp
<1> QED
  BY <1>3, <1>7, <1>8

LEMMA BulkAssignEndsKeeps ==
  ASSUME AgentsInv, RecordsApart, NEW c \in Clerks, BulkAssignEnds(c)
  PROVE  AgentsInv'
<1>1. /\ desk[c].op = "bulk" /\ desk' = [desk EXCEPT ![c] = Idle]
      /\ UNCHANGED <<account, profile, assigned, isAssigned, serves, wallet, topUps, errors>>
  BY DEF BulkAssignEnds, Running, Ends
<1>2. /\ assigned' \subseteq Devices \X Holder /\ isAssigned' \subseteq Devices
      /\ OneHolder' /\ Flagged' /\ HoldersExist'
  BY <1>1 DEF AgentsInv, TypeOK, Holder, OneHolder, Flagged, HoldersExist
<1> QED
  BY <1>1, <1>2, DeviceWriteKeeps DEF DeviceOp

LEMMA ReassignDeviceKeeps ==
  ASSUME AgentsInv, RecordsApart, NEW c \in Clerks, ReassignDevice(c)
  PROVE  AgentsInv'
<1>1. /\ desk[c].op = "reassign" /\ desk' = [desk EXCEPT ![c] = Idle]
      /\ UNCHANGED <<account, profile, serves, wallet, topUps, errors>>
  BY DEF ReassignDevice, Running, Ends
<1>2. desk[c] \in Task /\ StillHeld(desk[c])
  BY <1>1, DeskType DEF AgentsInv, Fine, Op
<1>3. PICK d \in desk[c].things :
        IF <<d, desk[c].to>> \in assigned THEN UNCHANGED <<assigned, isAssigned>>
        ELSE /\ assigned' = (assigned \ {<<d, desk[c].agent>>}) \cup {<<d, desk[c].to>>}
             /\ isAssigned' = isAssigned \cup {d}
  BY DEF ReassignDevice
<1>4. /\ d \in Devices /\ desk[c].agent \in Agents /\ desk[c].to \in Agents /\ desk[c].to \in profile
      /\ <<d, desk[c].agent>> \in assigned
  BY <1>2, <1>3 DEF StillHeld, Task
<1>5. assigned \subseteq Devices \X Holder /\ isAssigned \subseteq Devices
  BY DEF AgentsInv, TypeOK, Holder
<1>6. CASE UNCHANGED <<assigned, isAssigned>>
  <2>1. OneHolder' /\ Flagged' /\ HoldersExist'
    BY <1>1, <1>6 DEF AgentsInv, OneHolder, Flagged, HoldersExist
  <2> QED
    BY <1>1, <1>5, <1>6, <2>1, DeviceWriteKeeps DEF DeviceOp
<1>7. CASE /\ assigned' = (assigned \ {<<d, desk[c].agent>>}) \cup {<<d, desk[c].to>>}
           /\ isAssigned' = isAssigned \cup {d}
  <2>1. assigned' \subseteq Devices \X Holder /\ isAssigned' \subseteq Devices
    BY <1>4, <1>5, <1>7 DEF Holder
  <2>2. \A a \in Holder : <<d, a>> \in assigned => a = desk[c].agent
    BY <1>4 DEF AgentsInv, OneHolder, Holder
  <2>3. OneHolder'
    BY <1>7, <2>2 DEF AgentsInv, OneHolder
  <2>4. Flagged'
    <3> SUFFICES ASSUME NEW e \in Devices
                 PROVE  e \in isAssigned' <=> \E a \in Holder : <<e, a>> \in assigned'
      BY DEF Flagged
    <3>1. CASE e = d
      BY <3>1, <1>4, <1>7 DEF Holder
    <3>2. CASE e # d
      <4>1. \A a \in Holder : <<e, a>> \in assigned' <=> <<e, a>> \in assigned
        BY <3>2, <1>7
      <4> QED
        BY <4>1, <3>2, <1>7 DEF AgentsInv, Flagged
    <3> QED
      BY <3>1, <3>2
  <2>5. HoldersExist'
    BY <1>1, <1>4, <1>7 DEF AgentsInv, HoldersExist
  <2> QED
    BY <1>1, <2>1, <2>3, <2>4, <2>5, DeviceWriteKeeps DEF DeviceOp
<1> QED
  BY <1>3, <1>6, <1>7

LEMMA UnassignDeviceKeeps ==
  ASSUME AgentsInv, RecordsApart, NEW c \in Clerks, UnassignDevice(c)
  PROVE  AgentsInv'
<1>1. /\ desk[c].op = "unassign" /\ desk' = [desk EXCEPT ![c] = Idle]
      /\ UNCHANGED <<account, profile, serves, wallet, topUps, errors>>
  BY DEF UnassignDevice, Running, Ends
<1>2. desk[c] \in Task /\ StillHeld(desk[c])
  BY <1>1, DeskType DEF AgentsInv, Fine, Op
<1>3. PICK d \in desk[c].things : assigned' = assigned \ {<<d, desk[c].agent>>} /\ isAssigned' = isAssigned \ {d}
  BY DEF UnassignDevice, Unflag
<1>4. d \in Devices /\ desk[c].agent \in Holder /\ <<d, desk[c].agent>> \in assigned
  BY <1>2, <1>3 DEF StillHeld, Task, Holder
<1>5. assigned' \subseteq Devices \X Holder /\ isAssigned' \subseteq Devices
  BY <1>3 DEF AgentsInv, TypeOK, Holder
<1>6. OneHolder'
  BY <1>3 DEF AgentsInv, OneHolder
<1>7. Flagged'
  <2> SUFFICES ASSUME NEW e \in Devices
               PROVE  e \in isAssigned' <=> \E a \in Holder : <<e, a>> \in assigned'
    BY DEF Flagged
  <2>1. CASE e = d
    <3>1. \A a \in Holder : <<d, a>> \in assigned => a = desk[c].agent
      BY <1>4 DEF AgentsInv, OneHolder
    <3> QED
      BY <2>1, <3>1, <1>3
  <2>2. CASE e # d
    <3>1. \A a \in Holder : <<e, a>> \in assigned' <=> <<e, a>> \in assigned
      BY <2>2, <1>3
    <3> QED
      BY <3>1, <2>2, <1>3 DEF AgentsInv, Flagged
  <2> QED
    BY <2>1, <2>2
<1>8. HoldersExist'
  BY <1>1, <1>3 DEF AgentsInv, HoldersExist
<1> QED
  BY <1>1, <1>5, <1>6, <1>7, <1>8, DeviceWriteKeeps DEF DeviceOp

-----------------------------------------------------------------------------
(* Accounts, customers and wallets: never beside a merge *)

LEMMA ElsewhereKeeps ==
  ASSUME AgentsInv, RecordsApart, \A k \in Clerks : desk[k].op # "merge",
         TypeOK', profile \subseteq profile', UNCHANGED <<assigned, isAssigned, errors, desk>>
  PROVE  AgentsInv'
<1>1. OneHolder' /\ Flagged' /\ HoldersExist' /\ Alone'
  BY DEF AgentsInv, OneHolder, Flagged, HoldersExist, Alone, Busy
<1>2. ASSUME NEW k \in Clerks
      PROVE  Fine(desk[k])'
  BY DEF AgentsInv, Fine, StillFree, StillHeld
<1> QED
  BY <1>1, <1>2 DEF AgentsInv

LEMMA CreateAgentKeeps ==
  ASSUME AgentsInv, RecordsApart, NEW a \in Agents, CreateAgent(a)
  PROVE  AgentsInv'
<1>1. \A k \in Clerks : desk[k].op # "merge"
  BY MayRunMeans DEF AgentsInv, CreateAgent, Op
<1>2. /\ account' = account \cup {a[1]} /\ profile' \in {profile \cup {a}, profile}
      /\ UNCHANGED <<assigned, isAssigned, serves, wallet, topUps, errors, desk>>
  BY DEF CreateAgent
<1>3. TypeOK'
  BY <1>2 DEF AgentsInv, TypeOK
<1> QED
  BY <1>1, <1>2, <1>3, ElsewhereKeeps

LEMMA TopUpKeeps ==
  ASSUME AgentsInv, RecordsApart, NEW a \in Agents, TopUp(a)
  PROVE  AgentsInv'
<1>1. \A k \in Clerks : desk[k].op # "merge"
  BY MayRunMeans DEF AgentsInv, TopUp, Op
<1>2. /\ a \in profile /\ topUps < MaxTopUps /\ wallet' = Set(a, Balance(a) + 1) /\ topUps' = topUps + 1
      /\ UNCHANGED <<account, profile, assigned, isAssigned, serves, errors, desk>>
  BY DEF TopUp
<1>3. TypeOK'
  <2>1. Balance(a) \in Nat
    BY DEF Balance, AgentsInv, TypeOK
  <2>2. DOMAIN wallet' \subseteq profile /\ \A x \in DOMAIN wallet' : wallet'[x] \in Nat
    BY <1>2, <2>1 DEF Set, AgentsInv, TypeOK
  <2>3. topUps' \in 0 .. MaxTopUps
    BY <1>2, BoundIsNat DEF AgentsInv, TypeOK
  <2> QED
    BY <1>2, <2>2, <2>3 DEF AgentsInv, TypeOK
<1> QED
  BY <1>1, <1>2, <1>3, ElsewhereKeeps

LEMMA CustomerKeeps ==
  ASSUME AgentsInv, RecordsApart, NEW cu \in Customers, NEW a \in Agents,
         AssignCustomer(cu, a) \/ UnassignCustomer(cu, a)
  PROVE  AgentsInv'
<1>1. \A k \in Clerks : desk[k].op # "merge"
  BY MayRunMeans DEF AgentsInv, AssignCustomer, UnassignCustomer, Op
<1>2. /\ (serves' = serves \cup {<<cu, a>>} /\ a \in profile) \/ serves' = serves \ {<<cu, a>>}
      /\ UNCHANGED <<account, profile, assigned, isAssigned, wallet, topUps, errors, desk>>
  BY DEF AssignCustomer, UnassignCustomer
<1>3. TypeOK'
  BY <1>2 DEF AgentsInv, TypeOK
<1> QED
  BY <1>1, <1>2, <1>3, ElsewhereKeeps

LEMMA MoveCustomersKeeps ==
  ASSUME AgentsInv, RecordsApart, NEW c \in Clerks, ReassignCustomersToNewAgent(c)
  PROVE  AgentsInv'
<1>1. /\ desk[c].op = "moveCustomers" /\ desk' = [desk EXCEPT ![c] = Idle]
      /\ UNCHANGED <<account, profile, assigned, isAssigned, wallet, topUps, errors>>
      /\ \/ UNCHANGED serves
         \/ desk[c].to \in profile /\ serves' = Handed(desk[c].things, desk[c].agent, desk[c].to)
  BY DEF ReassignCustomersToNewAgent, Running, Ends
<1>2. desk[c] \in Task /\ Busy(c) /\ desk[c].things \subseteq Customers
  BY <1>1, DeskType DEF AgentsInv, Fine, Op
<1>3. /\ Alone' /\ desk' \in [Clerks -> Task \cup {Idle}]
      /\ desk'[c] = Idle /\ \A j \in Clerks : j # c => desk'[j] = desk[j]
  BY <1>1, DeskKeeps DEF AgentsInv
<1>4. TypeOK'
  <2>1. serves' \subseteq Customers \X profile
    BY <1>1, <1>2 DEF AgentsInv, TypeOK, Handed
  <2> QED
    BY <1>1, <1>3, <2>1 DEF AgentsInv, TypeOK
<1>5. ASSUME NEW k \in Clerks
      PROVE  Fine(desk[k])'
  <2>1. CASE k = c
    BY <2>1, <1>3 DEF Fine, Idle
  <2>2. CASE k # c
    <3>1. desk[k].op # "merge"
      BY <2>2, <1>1, <1>2, ApartMeans DEF AgentsInv, Busy
    <3> QED
      BY <3>1, <2>2, <1>1, <1>3 DEF AgentsInv, Fine, StillFree, StillHeld
  <2> QED
    BY <2>1, <2>2
<1>6. OneHolder' /\ Flagged' /\ HoldersExist'
  BY <1>1 DEF AgentsInv, OneHolder, Flagged, HoldersExist
<1> QED
  BY <1>3, <1>4, <1>5, <1>6 DEF AgentsInv

-----------------------------------------------------------------------------
(* The merge *)

LEMMA MergeFacts ==
  ASSUME AgentsInv, RecordsApart, NEW c \in Clerks, desk[c].op = "merge"
  PROVE  /\ desk[c] \in Task /\ StillMerging(desk[c]) /\ Busy(c)
         /\ \A j \in Clerks : j # c => desk[j] = Idle
         /\ desk[c].agent \in Agents /\ desk[c].dups \subseteq Agents
<1>1. desk[c] \in Task /\ Busy(c)
  BY DeskType DEF AgentsInv, Op
<1>2. StillMerging(desk[c])
  BY DEF AgentsInv, Fine
<1>3. \A j \in Clerks : j # c => desk[j] = Idle
  BY ApartMeans DEF AgentsInv
<1> QED
  BY <1>1, <1>2, <1>3 DEF Task

LEMMA NextTask ==
  ASSUME NEW u \in Task
  PROVE  /\ [u EXCEPT !.step = @ + 1] \in Task
         /\ LET t == [u EXCEPT !.step = @ + 1] IN
              /\ t.op = u.op /\ t.step = u.step + 1 /\ t.agent = u.agent
              /\ t.things = u.things /\ t.dups = u.dups /\ t.saw = u.saw
BY DEF Task

LEMMA SeenTask ==
  ASSUME NEW u \in Task, NEW n \in Nat
  PROVE  /\ [u EXCEPT !.saw = n] \in Task
         /\ LET t == [u EXCEPT !.saw = n] IN
              /\ t.op = u.op /\ t.step = u.step /\ t.agent = u.agent
              /\ t.things = u.things /\ t.dups = u.dups
BY DEF Task

\* A step before the deletion: its desk moves on, the rest is idle.
LEMMA MergeStepKeeps ==
  ASSUME AgentsInv, RecordsApart, NEW c \in Clerks, desk[c].op = "merge", desk[c].step \in 1 .. 4,
         NEW u \in Task, u.op = "merge", u.step = desk[c].step, u.agent = desk[c].agent,
         u.things = desk[c].things, u.dups = desk[c].dups, Goes(c, u),
         UNCHANGED <<account, profile, isAssigned, topUps>>,
         serves' \subseteq Customers \X profile,
         DOMAIN wallet' \subseteq profile, \A a \in DOMAIN wallet' : wallet'[a] \in Nat,
         assigned' \subseteq Devices \X Holder, errors' \in BOOLEAN,
         OneHolder', Flagged', HoldersExist',
         \A cu \in Customers : \A d \in desk[c].dups : <<cu, d>> \notin serves',
         desk[c].step = 4 => errors' \/ \A r \in assigned' : r[2] \notin desk[c].dups
  PROVE  AgentsInv'
<1> DEFINE t == [u EXCEPT !.step = @ + 1]
<1>1. /\ desk[c] \in Task /\ StillMerging(desk[c]) /\ Busy(c)
      /\ \A j \in Clerks : j # c => desk[j] = Idle
  BY MergeFacts
<1>2. /\ t \in Task /\ t.op = "merge" /\ t.step = desk[c].step + 1 /\ t.agent = desk[c].agent
      /\ t.things = desk[c].things /\ t.dups = desk[c].dups
  BY NextTask
<1>3. desk' = [desk EXCEPT ![c] = t]
  BY DEF Goes
<1> HIDE DEF t
<1>4. /\ Alone' /\ desk' \in [Clerks -> Task \cup {Idle}]
      /\ desk'[c] = t /\ \A j \in Clerks : j # c => desk'[j] = desk[j]
  BY <1>1, <1>2, <1>3, DeskKeeps DEF AgentsInv
<1>5. TypeOK'
  BY <1>4 DEF AgentsInv, TypeOK, Holder
<1>6. StillMerging(desk[c])'
  <2>1. desk[c].step \in 1 .. 4 /\ t.step \in 2 .. 5 /\ (t.step = 5 <=> desk[c].step = 4)
    BY <1>2
  <2>2. t.agent \in profile' /\ t.things \subseteq Customers
    BY <1>1, <1>2 DEF StillMerging
  <2>3. \A d \in t.dups : d \in profile' /\ d # t.agent /\ Others(d)' = {}
    BY <1>1, <1>2 DEF StillMerging, Others
  <2>4. \A cu \in Customers : \A d \in t.dups : <<cu, d>> \notin serves'
    BY <1>2
  <2>5. t.step = 5 => errors' \/ \A r \in assigned' : r[2] \notin t.dups
    BY <1>2, <2>1
  <2> QED
    BY <2>1, <2>2, <2>3, <2>4, <2>5, <1>4 DEF StillMerging, Others
<1>7. ASSUME NEW k \in Clerks
      PROVE  Fine(desk[k])'
  <2>1. CASE k # c
    BY <2>1, <1>1, <1>4 DEF Fine, Idle
  <2>2. CASE k = c
    BY <2>2, <1>2, <1>4, <1>6 DEF Fine
  <2> QED
    BY <2>1, <2>2
<1> QED
  BY <1>4, <1>5, <1>7 DEF AgentsInv

\* What the devices of a state and the agents say stays as it is.
LEMMA DevicesStay ==
  ASSUME AgentsInv, UNCHANGED <<profile, assigned, isAssigned>>, errors' = errors \/ errors' = TRUE
  PROVE  /\ OneHolder' /\ Flagged' /\ HoldersExist'
         /\ assigned' \subseteq Devices \X Holder /\ errors' \in BOOLEAN
BY DEF AgentsInv, TypeOK, OneHolder, Flagged, HoldersExist, Holder

LEMMA WalletsStay ==
  ASSUME AgentsInv, UNCHANGED <<profile, wallet>>
  PROVE  DOMAIN wallet' \subseteq profile /\ \A a \in DOMAIN wallet' : wallet'[a] \in Nat
BY DEF AgentsInv, TypeOK

\* After the first step no customer is a duplicate's.
LEMMA CustomersStay ==
  ASSUME AgentsInv, NEW t, StillMerging(t), t.step # 1, UNCHANGED serves
  PROVE  /\ serves' \subseteq Customers \X profile
         /\ \A cu \in Customers : \A d \in t.dups : <<cu, d>> \notin serves'
BY DEF AgentsInv, TypeOK, StillMerging

LEMMA TransferAgentCustomersKeeps ==
  ASSUME AgentsInv, RecordsApart, NEW c \in Clerks, TransferAgentCustomers(c)
  PROVE  AgentsInv'
<1>1. /\ desk[c].op = "merge" /\ desk[c].step = 1 /\ Goes(c, desk[c])
      /\ UNCHANGED <<account, profile, assigned, isAssigned, wallet, topUps>>
      /\ errors' = errors \/ errors' = TRUE
      /\ \/ serves' = Inherits(desk[c].agent, desk[c].things, desk[c].dups)
         \/ serves' = serves \ (Customers \X desk[c].dups)
  BY DEF TransferAgentCustomers, Merging, Running
<1>2. /\ desk[c] \in Task /\ StillMerging(desk[c])
  BY <1>1, MergeFacts
<1>3. /\ serves \subseteq Customers \X profile /\ desk[c].agent \in profile /\ desk[c].things \subseteq Customers
      /\ desk[c].agent \notin desk[c].dups
  BY <1>2 DEF AgentsInv, TypeOK, StillMerging
<1>4. serves' \subseteq Customers \X profile
  <2>1. CASE serves' = Inherits(desk[c].agent, desk[c].things, desk[c].dups)
    BY <1>3, <2>1 DEF Inherits
  <2> QED
    BY <1>1, <1>3, <2>1
<1>5. \A cu \in Customers : \A d \in desk[c].dups : <<cu, d>> \notin serves'
  <2> SUFFICES ASSUME NEW cu \in Customers, NEW d \in desk[c].dups, <<cu, d>> \in serves'
               PROVE  FALSE
    OBVIOUS
  <2>1. <<cu, d>> \notin serves \ (Customers \X desk[c].dups)
    OBVIOUS
  <2> QED
    BY <1>1, <1>3, <2>1 DEF Inherits
<1>6. /\ OneHolder' /\ Flagged' /\ HoldersExist'
      /\ assigned' \subseteq Devices \X Holder /\ errors' \in BOOLEAN
  BY <1>1, DevicesStay
<1>7. DOMAIN wallet' \subseteq profile /\ \A a \in DOMAIN wallet' : wallet'[a] \in Nat
  BY <1>1, WalletsStay
<1>8. UNCHANGED <<account, profile, isAssigned, topUps>>
  BY <1>1
<1> QED
  BY <1>1, <1>2, <1>4, <1>5, <1>6, <1>7, <1>8, MergeStepKeeps

LEMMA ReadWalletKeeps ==
  ASSUME AgentsInv, RecordsApart, NEW c \in Clerks, ReadWallet(c)
  PROVE  AgentsInv'
<1> DEFINE u == [desk[c] EXCEPT !.saw = Balance(desk[c].agent)]
<1>1. /\ desk[c].op = "merge" /\ desk[c].step = 2 /\ Goes(c, u)
      /\ UNCHANGED <<account, profile, assigned, isAssigned, serves, wallet, topUps, errors>>
  BY DEF ReadWallet, Merging, Running
<1>2. /\ desk[c] \in Task /\ StillMerging(desk[c])
  BY <1>1, MergeFacts
<1>3. Balance(desk[c].agent) \in Nat
  BY DEF AgentsInv, TypeOK, Balance
<1>4. /\ u \in Task /\ u.op = "merge" /\ u.step = desk[c].step /\ u.agent = desk[c].agent
      /\ u.things = desk[c].things /\ u.dups = desk[c].dups
  BY <1>1, <1>2, <1>3, SeenTask
<1> HIDE DEF u
<1>5. /\ serves' \subseteq Customers \X profile
      /\ \A cu \in Customers : \A d \in desk[c].dups : <<cu, d>> \notin serves'
  BY <1>1, <1>2, CustomersStay
<1> QED
  BY <1>1, <1>4, <1>5, MergeStepKeeps, DevicesStay, WalletsStay

LEMMA TransferWalletsKeeps ==
  ASSUME AgentsInv, RecordsApart, NEW c \in Clerks, TransferWallets(c)
  PROVE  AgentsInv'
<1> DEFINE W == desk[c].dups \cap DOMAIN wallet
<1>1. /\ desk[c].op = "merge" /\ desk[c].step = 3 /\ Goes(c, desk[c])
      /\ UNCHANGED <<account, profile, assigned, isAssigned, serves, topUps>>
      /\ errors' = errors \/ errors' = TRUE
      /\ \/ wallet' = Without(desk[c].dups)
         \/ \E d \in W : wallet' = [x \in (DOMAIN wallet \ desk[c].dups) \cup {desk[c].agent} |->
                                     IF x = desk[c].agent THEN Sum(desk[c].saw, wallet[d]) ELSE wallet[x]]
  BY DEF TransferWallets, Merging, Running
<1>2. /\ desk[c] \in Task /\ StillMerging(desk[c])
  BY <1>1, MergeFacts
<1>3. desk[c].agent \in profile /\ desk[c].saw \in Nat
  BY <1>2 DEF StillMerging, Task
<1>4. /\ serves' \subseteq Customers \X profile
      /\ \A cu \in Customers : \A d \in desk[c].dups : <<cu, d>> \notin serves'
  BY <1>1, <1>2, CustomersStay
<1>5. DOMAIN wallet' \subseteq profile /\ \A a \in DOMAIN wallet' : wallet'[a] \in Nat
  <2>1. DOMAIN wallet \subseteq profile /\ \A a \in DOMAIN wallet : wallet[a] \in Nat
    BY DEF AgentsInv, TypeOK
  <2>2. CASE wallet' = Without(desk[c].dups)
    BY <2>1, <2>2 DEF Without
  <2>3. CASE \E d \in W : wallet' = [x \in (DOMAIN wallet \ desk[c].dups) \cup {desk[c].agent} |->
                           IF x = desk[c].agent THEN Sum(desk[c].saw, wallet[d]) ELSE wallet[x]]
    <3>1. PICK d \in W : wallet' = [x \in (DOMAIN wallet \ desk[c].dups) \cup {desk[c].agent} |->
                           IF x = desk[c].agent THEN Sum(desk[c].saw, wallet[d]) ELSE wallet[x]]
      BY <2>3
    <3>2. Sum(desk[c].saw, wallet[d]) \in Nat
      BY <1>3, <2>1 DEF Sum
    <3> QED
      BY <1>3, <2>1, <3>1, <3>2
  <2> QED
    BY <1>1, <2>2, <2>3
<1>6. /\ OneHolder' /\ Flagged' /\ HoldersExist'
      /\ assigned' \subseteq Devices \X Holder /\ errors' \in BOOLEAN
  BY <1>1, DevicesStay
<1>7. UNCHANGED <<account, profile, isAssigned, topUps>>
  BY <1>1
<1> HIDE DEF W
<1> QED
  BY <1>1, <1>2, <1>4, <1>5, <1>6, <1>7, MergeStepKeeps

\* The rows of D get another agent: a device keeps as many as it had.
LEMMA Renamed ==
  ASSUME AgentsInv, NEW D, NEW e \in Holder, UNCHANGED isAssigned,
         assigned' = {<<r[1], IF r[2] \in D THEN e ELSE r[2]>> : r \in assigned}
  PROVE  /\ assigned' \subseteq Devices \X Holder /\ OneHolder' /\ Flagged'
         /\ \A s \in assigned' : \E r \in assigned : s[2] = IF r[2] \in D THEN e ELSE r[2]
<1> DEFINE new(a) == IF a \in D THEN e ELSE a
<1>1. assigned \subseteq Devices \X Holder /\ assigned' = {<<r[1], new(r[2])>> : r \in assigned}
  BY DEF AgentsInv, TypeOK, Holder
<1>2. \A a \in Holder : new(a) \in Holder
  OBVIOUS
<1>3. \A s \in assigned' : \E r \in assigned : s[2] = new(r[2])
  BY <1>1
<1> HIDE DEF new
<1>4. \A d \in Devices, b \in Holder : <<d, b>> \in assigned' => \E a \in Holder : <<d, a>> \in assigned /\ b = new(a)
  <2> SUFFICES ASSUME NEW d \in Devices, NEW b \in Holder, <<d, b>> \in assigned'
               PROVE  \E a \in Holder : <<d, a>> \in assigned /\ b = new(a)
    OBVIOUS
  <2>1. PICK r \in assigned : <<d, b>> = <<r[1], new(r[2])>>
    BY <1>1
  <2>2. r = <<r[1], r[2]>> /\ r[2] \in Holder
    BY <1>1
  <2>3. d = r[1] /\ b = new(r[2])
    BY <2>1
  <2>4. <<d, r[2]>> \in assigned
    BY <2>2, <2>3
  <2> QED
    BY <2>2, <2>3, <2>4
<1>5. \A d \in Devices, a \in Holder : <<d, a>> \in assigned => <<d, new(a)>> \in assigned'
  <2> SUFFICES ASSUME NEW d \in Devices, NEW a \in Holder, <<d, a>> \in assigned
               PROVE  <<d, new(a)>> \in assigned'
    OBVIOUS
  <2>1. PICK r \in assigned : r = <<d, a>>
    OBVIOUS
  <2>2. <<r[1], new(r[2])>> \in assigned'
    BY <1>1
  <2>3. r[1] = d /\ r[2] = a
    BY <2>1
  <2> QED
    BY <2>2, <2>3
<1>6. assigned' \subseteq Devices \X Holder
  BY <1>1, <1>2
<1>7. OneHolder'
  <2> SUFFICES ASSUME NEW d \in Devices, NEW a \in Holder, NEW b \in Holder,
                      <<d, a>> \in assigned', <<d, b>> \in assigned'
               PROVE  a = b
    BY DEF OneHolder
  <2>1. PICK x \in Holder : <<d, x>> \in assigned /\ a = new(x)
    BY <1>4
  <2>2. PICK y \in Holder : <<d, y>> \in assigned /\ b = new(y)
    BY <1>4
  <2>3. x = y
    BY <2>1, <2>2 DEF AgentsInv, OneHolder
  <2> QED
    BY <2>1, <2>2, <2>3
<1>8. Flagged'
  BY <1>2, <1>4, <1>5 DEF AgentsInv, Flagged
<1> QED
  BY <1>3, <1>6, <1>7, <1>8 DEF new

LEMMA TransferDevicesKeeps ==
  ASSUME AgentsInv, RecordsApart, NEW c \in Clerks, TransferDeviceAssignments(c)
  PROVE  AgentsInv'
<1>1. /\ desk[c].op = "merge" /\ desk[c].step = 4 /\ Goes(c, desk[c])
      /\ UNCHANGED <<account, profile, isAssigned, serves, wallet, topUps>>
      /\ \/ assigned' = Takeover(desk[c].agent, desk[c].dups) /\ UNCHANGED errors
         \/ UNCHANGED assigned /\ errors' = TRUE
  BY DEF TransferDeviceAssignments, Merging, Running
<1>2. /\ desk[c] \in Task /\ StillMerging(desk[c]) /\ desk[c].agent \in Holder
  BY <1>1, MergeFacts DEF Holder
<1>3. /\ serves' \subseteq Customers \X profile
      /\ \A cu \in Customers : \A d \in desk[c].dups : <<cu, d>> \notin serves'
  BY <1>1, <1>2, CustomersStay
<1>4. CASE UNCHANGED assigned /\ errors' = TRUE
  BY <1>1, <1>2, <1>3, <1>4, MergeStepKeeps, DevicesStay, WalletsStay
<1>5. CASE assigned' = Takeover(desk[c].agent, desk[c].dups) /\ UNCHANGED errors
  <2>1. desk[c].agent \in profile /\ desk[c].agent \notin desk[c].dups
    BY <1>2 DEF StillMerging
  <2>2. assigned' = {<<r[1], IF r[2] \in desk[c].dups THEN desk[c].agent ELSE r[2]>> : r \in assigned}
    BY <1>5 DEF Takeover
  <2>3. /\ assigned' \subseteq Devices \X Holder /\ OneHolder' /\ Flagged'
        /\ \A s \in assigned' : \E r \in assigned : s[2] = IF r[2] \in desk[c].dups THEN desk[c].agent ELSE r[2]
    <3> DEFINE D == desk[c].dups  e == desk[c].agent
    <3>1. e \in Holder /\ UNCHANGED isAssigned
          /\ assigned' = {<<r[1], IF r[2] \in D THEN e ELSE r[2]>> : r \in assigned}
      BY <1>1, <1>2, <2>2
    <3> HIDE DEF D, e
    <3>2. /\ assigned' \subseteq Devices \X Holder /\ OneHolder' /\ Flagged'
          /\ \A s \in assigned' : \E r \in assigned : s[2] = IF r[2] \in D THEN e ELSE r[2]
      BY <3>1, Renamed
    <3> QED
      BY <3>2 DEF D, e
  <2>4. HoldersExist'
    BY <1>1, <1>5, <2>1, <2>3 DEF AgentsInv, HoldersExist
  <2>5. \A r \in assigned' : r[2] \notin desk[c].dups
    BY <2>1, <2>3
  <2>6. errors' \in BOOLEAN
    BY <1>5 DEF AgentsInv, TypeOK
  <2>7. DOMAIN wallet' \subseteq profile /\ \A a \in DOMAIN wallet' : wallet'[a] \in Nat
    BY <1>1, WalletsStay
  <2>8. UNCHANGED <<account, profile, isAssigned, topUps>>
    BY <1>1
  <2> QED
    BY <1>1, <1>2, <1>3, <2>3, <2>4, <2>5, <2>6, <2>7, <2>8, MergeStepKeeps
<1> QED
  BY <1>1, <1>4, <1>5

\* Only the duplicates go, and nothing is theirs any more.
LEMMA GoingMeans ==
  ASSUME NEW t, StillMerging(t)
  PROVE  Going(t.dups) = t.dups
BY DEF StillMerging, Going, Others

LEMMA DeleteDuplicateAgentsKeeps ==
  ASSUME AgentsInv, RecordsApart, NEW c \in Clerks, DeleteDuplicateAgents(c)
  PROVE  AgentsInv'
<1> DEFINE D == desk[c].dups
<1>1. /\ desk[c].op = "merge" /\ desk[c].step = 5 /\ desk' = [desk EXCEPT ![c] = Idle]
      /\ UNCHANGED <<isAssigned, topUps>>
  BY DEF DeleteDuplicateAgents, Merging, Running, Ends
<1>2. /\ desk[c] \in Task /\ StillMerging(desk[c]) /\ Busy(c) /\ \A j \in Clerks : j # c => desk[j] = Idle
  BY <1>1, MergeFacts
<1>3. /\ Alone' /\ desk' \in [Clerks -> Task \cup {Idle}]
      /\ \A j \in Clerks : desk'[j] = Idle
  BY <1>1, <1>2, DeskKeeps DEF AgentsInv
<1>4. \A k \in Clerks : Fine(desk[k])'
  BY <1>3 DEF Fine, Idle
<1>5. Going(D) = D
  BY <1>2, GoingMeans
<1>6. \/ errors' = TRUE /\ UNCHANGED <<account, profile, serves, wallet, assigned>>
      \/ /\ account' \subseteq account /\ profile' = profile \ D /\ serves' = serves \ (Customers \X D)
         /\ wallet' = Without(D) /\ UNCHANGED errors
         /\ assigned' = {<<r[1], IF r[2] \in D THEN Nobody ELSE r[2]>> : r \in assigned}
  BY <1>5 DEF DeleteDuplicateAgents
<1>7. CASE errors' = TRUE /\ UNCHANGED <<account, profile, serves, wallet, assigned>>
  <2>1. TypeOK'
    BY <1>1, <1>3, <1>7 DEF AgentsInv, TypeOK
  <2> QED
    BY <1>1, <1>3, <1>4, <1>7, <2>1, DevicesStay DEF AgentsInv
<1>8. CASE /\ account' \subseteq account /\ profile' = profile \ D /\ serves' = serves \ (Customers \X D)
           /\ wallet' = Without(D) /\ UNCHANGED errors
         /\ assigned' = {<<r[1], IF r[2] \in D THEN Nobody ELSE r[2]>> : r \in assigned}
  <2>1. Nobody \in Holder
    BY DEF Holder
  <2>2. /\ assigned' \subseteq Devices \X Holder /\ OneHolder' /\ Flagged'
        /\ \A s \in assigned' : \E r \in assigned : s[2] = IF r[2] \in D THEN Nobody ELSE r[2]
    BY <1>1, <1>8, <2>1, Renamed
  <2>6. HoldersExist'
    <3>1. errors \/ \A r \in assigned : r[2] \in profile /\ r[2] \notin D
      BY <1>1, <1>2 DEF AgentsInv, HoldersExist, StillMerging
    <3> QED
      BY <1>8, <2>2, <3>1 DEF HoldersExist
  <2>7. serves' \subseteq Customers \X profile'
    BY <1>8 DEF AgentsInv, TypeOK
  <2>8. DOMAIN wallet' \subseteq profile' /\ \A a \in DOMAIN wallet' : wallet'[a] \in Nat
    BY <1>8 DEF AgentsInv, TypeOK, Without
  <2>9. TypeOK'
    BY <1>1, <1>3, <1>8, <2>2, <2>7, <2>8 DEF AgentsInv, TypeOK, Holder
  <2> QED
    BY <1>3, <1>4, <2>2, <2>6, <2>9 DEF AgentsInv
<1> QED
  BY <1>6, <1>7, <1>8

-----------------------------------------------------------------------------
(* Beginnings *)

\* A request that has read devices or customers, or names duplicates to merge.
LEMMA BeginningKeeps ==
  ASSUME AgentsInv, RecordsApart, NEW c \in Clerks, NEW a \in Agents,
         \/ \E d \in Devices : BeginAssign(c, d, a) \/ BeginUnassign(c, d, a)
         \/ \E d \in Devices, b \in Agents : BeginReassign(c, d, a, b)
         \/ \E D \in SUBSET Devices : BeginBulk(c, D, a)
         \/ \E b \in Agents, C \in SUBSET Customers : BeginMoveCustomers(c, a, b, C)
  PROVE  AgentsInv'
<1> DEFINE task(op, b, things) ==
      [op |-> op, step |-> 1, agent |-> a, to |-> b, things |-> things, dups |-> {}, saw |-> 0]
<1>1. ASSUME NEW op \in Op, NEW b \in Agents, NEW things \in SUBSET (Devices \cup Customers),
             Begins(c, op, a, b, things), Fine(task(op, b, things))
      PROVE  AgentsInv'
  <2>1. {} \in SUBSET Agents
    OBVIOUS
  <2> QED
    BY <1>1, <2>1, BeginKeeps DEF Begins
<1>2. ASSUME NEW d \in Devices, BeginAssign(c, d, a)
      PROVE  AgentsInv'
  <2>1. a \in profile /\ \A x \in Holder : <<d, x>> \notin assigned
    BY <1>2 DEF BeginAssign, Sales, Free, Holders, Holder
  <2>2. Fine(task("assign", a, {d}))
    BY <2>1 DEF Fine, StillFree
  <2> QED
    BY <1>1, <1>2, <2>2 DEF BeginAssign, Op
<1>3. ASSUME NEW d \in Devices, BeginUnassign(c, d, a)
      PROVE  AgentsInv'
  <2>1. Fine(task("unassign", a, {d}))
    BY <1>3 DEF BeginUnassign, Fine, StillHeld
  <2> QED
    BY <1>1, <1>3, <2>1 DEF BeginUnassign, Op
<1>4. ASSUME NEW d \in Devices, NEW b \in Agents, BeginReassign(c, d, a, b)
      PROVE  AgentsInv'
  <2>1. Fine(task("reassign", b, {d}))
    BY <1>4 DEF BeginReassign, Sales, Fine, StillHeld
  <2> QED
    <3>1. Begins(c, "reassign", a, b, {d}) /\ "reassign" \in Op /\ {d} \in SUBSET (Devices \cup Customers)
      BY <1>4 DEF BeginReassign, Op
    <3> HIDE DEF task
    <3> QED
      BY <1>1, <2>1, <3>1
<1>5. ASSUME NEW D \in SUBSET Devices, BeginBulk(c, D, a)
      PROVE  AgentsInv'
  <2> DEFINE F == {d \in D : Free(d, a)}
  <2>1. a \in profile /\ Begins(c, "bulk", a, a, F)
    BY <1>5 DEF BeginBulk
  <2>2. F \subseteq Devices /\ \A d \in F : \A x \in Holder : <<d, x>> \notin assigned
    BY DEF Free, Holders, Holder
  <2> HIDE DEF F
  <2>3. Fine(task("bulk", a, F))
    BY <2>1, <2>2 DEF Fine, StillFree
  <2>4. F \in SUBSET (Devices \cup Customers) /\ "bulk" \in Op
    BY <2>2 DEF Op
  <2> QED
    BY <1>1, <2>1, <2>3, <2>4
<1>6. ASSUME NEW b \in Agents, NEW C \in SUBSET Customers, BeginMoveCustomers(c, a, b, C)
      PROVE  AgentsInv'
  <2> DEFINE M == {cu \in C : <<cu, b>> \notin serves}
  <2>1. Begins(c, "moveCustomers", a, b, M) /\ M \subseteq Customers
    BY <1>6 DEF BeginMoveCustomers
  <2> HIDE DEF M
  <2>2. Fine(task("moveCustomers", b, M))
    BY <2>1 DEF Fine
  <2>3. M \in SUBSET (Devices \cup Customers) /\ "moveCustomers" \in Op
    BY <2>1 DEF Op
  <2> QED
    BY <1>1, <2>1, <2>2, <2>3
<1> QED
  BY <1>2, <1>3, <1>4, <1>5, <1>6

LEMMA BeginMergeKeeps ==
  ASSUME AgentsInv, RecordsApart, Careful, NEW c \in Clerks, NEW a \in Agents, NEW D \in SUBSET Agents,
         BeginMerge(c, a, D)
  PROVE  AgentsInv'
<1> DEFINE C == {cu \in Customers : <<cu, a>> \notin serves /\ \E d \in D : <<cu, d>> \in serves}
<1> DEFINE t == [op |-> "merge", step |-> 1, agent |-> a, to |-> a, things |-> C, dups |-> D, saw |-> 0]
<1>1. /\ a \in profile /\ D \subseteq profile \ {a} /\ \A d \in D : Others(d) = {}
      /\ Takes(c, "merge", a, a, C, D, 0)
      /\ UNCHANGED <<account, profile, assigned, isAssigned, serves, wallet, topUps, errors>>
  BY DEF BeginMerge
<1>2. /\ C \subseteq Customers
      /\ \A cu \in Customers : \A d \in D : <<cu, d>> \in serves => <<cu, a>> \in serves \/ cu \in C
  OBVIOUS
<1> HIDE DEF C
<1>3. StillMerging(t)
  BY <1>1, <1>2 DEF StillMerging
<1>4. Fine(t)
  BY <1>3 DEF Fine
<1>5. C \in SUBSET (Devices \cup Customers) /\ "merge" \in Op
  BY <1>2 DEF Op
<1> QED
  BY <1>1, <1>4, <1>5, BeginKeeps

-----------------------------------------------------------------------------
(* The invariant is one *)

LEMMA AgentsInit ==
  ASSUME Init
  PROVE  AgentsInv
<1>1. \A k \in Clerks : desk[k] = Idle /\ Fine(desk[k])
  BY IdleIsFine DEF Init
<1>2. DOMAIN wallet = {}
  BY DEF Init
<1>3. TypeOK
  <2>1. topUps \in 0 .. MaxTopUps /\ errors \in BOOLEAN
    <3>1. topUps = 0
      BY DEF Init
    <3>2. errors \in BOOLEAN
      BY DEF Init
    <3> QED
      BY <3>1, <3>2, BoundIsNat
  <2>2. desk \in [Clerks -> Task \cup {Idle}]
    BY DEF Init
  <2> QED
    BY <1>2, <2>1, <2>2 DEF Init, TypeOK
<1> QED
  BY <1>1, <1>3 DEF AgentsInv, Init, OneHolder, Flagged, HoldersExist, Alone, Busy

LEMMA AgentsStep ==
  ASSUME RecordsApart, Careful, AgentsInv, [Next]_vars
  PROVE  AgentsInv'
<1>1. CASE \E a \in Agents : CreateAgent(a) \/ TopUp(a)
  BY <1>1, CreateAgentKeeps, TopUpKeeps
<1>2. CASE \E cu \in Customers, a \in Agents : AssignCustomer(cu, a) \/ UnassignCustomer(cu, a)
  BY <1>2, CustomerKeeps
<1>3. ASSUME NEW c \in Clerks,
             AssignDevice(c) \/ ReassignDevice(c) \/ BulkAssignOne(c) \/ BulkAssignEnds(c) \/ UnassignDevice(c)
      PROVE  AgentsInv'
  BY <1>3, AssignDeviceKeeps, ReassignDeviceKeeps, BulkAssignKeeps, BulkAssignEndsKeeps, UnassignDeviceKeeps
<1>4. ASSUME NEW c \in Clerks,
             \/ ReassignCustomersToNewAgent(c)
             \/ TransferAgentCustomers(c) \/ ReadWallet(c) \/ TransferWallets(c)
             \/ TransferDeviceAssignments(c) \/ DeleteDuplicateAgents(c)
      PROVE  AgentsInv'
  BY <1>4, MoveCustomersKeeps, TransferAgentCustomersKeeps, ReadWalletKeeps, TransferWalletsKeeps,
     TransferDevicesKeeps, DeleteDuplicateAgentsKeeps
<1>5. ASSUME NEW c \in Clerks, NEW a \in Agents,
             \/ \E d \in Devices : BeginAssign(c, d, a) \/ BeginUnassign(c, d, a)
             \/ \E d \in Devices, b \in Agents : BeginReassign(c, d, a, b)
             \/ \E D \in SUBSET Devices : BeginBulk(c, D, a)
             \/ \E b \in Agents, C \in SUBSET Customers : BeginMoveCustomers(c, a, b, C)
      PROVE  AgentsInv'
  BY <1>5, BeginningKeeps
<1>6. ASSUME NEW c \in Clerks, NEW a \in Agents, \E D \in SUBSET Agents : BeginMerge(c, a, D)
      PROVE  AgentsInv'
  BY <1>6, BeginMergeKeeps
<1>7. CASE UNCHANGED vars
  <2>1. UNCHANGED <<account, profile, assigned, isAssigned, serves, wallet, topUps, errors, desk>>
    BY <1>7 DEF vars
  <2>2. TypeOK' /\ OneHolder' /\ Flagged' /\ HoldersExist' /\ Alone'
    BY <2>1 DEF AgentsInv, TypeOK, OneHolder, Flagged, HoldersExist, Alone, Busy
  <2>3. ASSUME NEW k \in Clerks
        PROVE  Fine(desk[k])'
    BY <2>1 DEF AgentsInv, Fine, StillFree, StillHeld, StillMerging, Others
  <2> QED
    BY <2>2, <2>3 DEF AgentsInv
<1> QED
  BY <1>1, <1>2, <1>3, <1>4, <1>5, <1>6, <1>7 DEF Next

LEMMA AgentsHold ==
  ASSUME RecordsApart, Careful
  PROVE  Spec => []AgentsInv
<1>1. Init => AgentsInv
  BY AgentsInit
<1>2. AgentsInv /\ [Next]_vars => AgentsInv'
  BY AgentsStep
<1> QED
  BY <1>1, <1>2, PTL DEF Spec

\* At most one holder, counted.
LEMMA HolderCount ==
  ASSUME AgentsInv, NEW d \in Devices
  PROVE  Cardinality(Holders(d)) <= 1 /\ (d \in isAssigned <=> Holders(d) # {})
<1>1. \A a, b \in Holders(d) : a = b
  BY DEF AgentsInv, OneHolder, Holders, Holder
<1>2. d \in isAssigned <=> Holders(d) # {}
  BY DEF AgentsInv, Flagged, Holders, Holder
<1>3. CASE Holders(d) = {}
  BY <1>2, <1>3, FS_EmptySet
<1>4. CASE Holders(d) # {}
  <2>1. PICK a \in Holders(d) : Holders(d) = {a}
    BY <1>1, <1>4
  <2>2. Cardinality(Holders(d)) = 1
    BY <2>1, FS_Singleton
  <2> QED
    BY <1>2, <2>2
<1> QED
  BY <1>3, <1>4

\* Requests for devices that do not overlap, and merges that run alone and name
\* duplicates without another profile, leave every device with at most one
\* holder, who exists, and a flag that tells the truth.
THEOREM AssignmentsHold ==
  ASSUME RecordsApart, Careful
  PROVE  Spec => []AssignmentsAgree
<1>1. AgentsInv => AssignmentsAgree
  BY HolderCount DEF AssignmentsAgree, AgentsInv, HoldersExist
<1> QED
  BY <1>1, AgentsHold, PTL

-----------------------------------------------------------------------------
(* Nobody is lost *)

LostBy(cu) == (\E a \in Agents : <<cu, a>> \in serves) /\ \A a \in Agents : <<cu, a>> \notin serves'

\* What one step must not do.
LosesNobody ==
  /\ \A cu \in Customers : LostBy(cu) => errors' \/ \E a \in Agents : UnassignCustomer(cu, a)
  /\ \A a \in profile \ profile' : \E c \in Clerks : desk[c].op = "merge" /\ a \in desk[c].dups

\* A step that takes no row and no agent away loses nobody.
LEMMA GrowingLosesNobody ==
  ASSUME serves \subseteq serves', profile \subseteq profile'
  PROVE  LosesNobody
BY DEF LosesNobody, LostBy

LEMMA MoveLosesNobody ==
  ASSUME AgentsInv, NEW c \in Clerks, ReassignCustomersToNewAgent(c)
  PROVE  LosesNobody
<1>1. /\ desk[c].op = "moveCustomers" /\ UNCHANGED profile
      /\ \/ UNCHANGED serves
         \/ serves' = Handed(desk[c].things, desk[c].agent, desk[c].to)
  BY DEF ReassignCustomersToNewAgent, Running
<1>2. desk[c] \in Task
  BY <1>1, DeskType DEF AgentsInv, Op
<1>3. desk[c].to \in Agents
  BY <1>2 DEF Task
<1>4. CASE UNCHANGED serves
  BY <1>1, <1>4, GrowingLosesNobody
<1>5. CASE serves' = Handed(desk[c].things, desk[c].agent, desk[c].to)
  <2>1. \A cu \in Customers : ~LostBy(cu)
    <3> SUFFICES ASSUME NEW cu \in Customers, NEW a \in Agents, <<cu, a>> \in serves
                 PROVE  \E b \in Agents : <<cu, b>> \in serves'
      BY DEF LostBy
    <3>1. CASE cu \in desk[c].things
      BY <1>3, <1>5, <3>1 DEF Handed
    <3>2. CASE cu \notin desk[c].things
      BY <1>5, <3>2 DEF Handed
    <3> QED
      BY <3>1, <3>2
  <2> QED
    BY <1>1, <2>1 DEF LosesNobody
<1> QED
  BY <1>1, <1>4, <1>5

LEMMA InheritingLosesNobody ==
  ASSUME AgentsInv, RecordsApart, NEW c \in Clerks, TransferAgentCustomers(c)
  PROVE  LosesNobody
<1>1. /\ desk[c].op = "merge" /\ desk[c].step = 1 /\ UNCHANGED profile
      /\ \/ serves' = Inherits(desk[c].agent, desk[c].things, desk[c].dups)
         \/ errors' = TRUE
  BY DEF TransferAgentCustomers, Merging, Running
<1>2. StillMerging(desk[c]) /\ desk[c].agent \in Agents
  BY <1>1, MergeFacts
<1>3. CASE errors' = TRUE
  BY <1>1, <1>3 DEF LosesNobody
<1>4. CASE serves' = Inherits(desk[c].agent, desk[c].things, desk[c].dups)
  <2>1. \A cu \in Customers : ~LostBy(cu)
    <3> SUFFICES ASSUME NEW cu \in Customers, NEW a \in Agents, <<cu, a>> \in serves
                 PROVE  \E b \in Agents : <<cu, b>> \in serves'
      BY DEF LostBy
    <3>1. CASE a \notin desk[c].dups
      BY <1>4, <3>1 DEF Inherits
    <3>2. CASE a \in desk[c].dups
      <4>1. <<cu, desk[c].agent>> \in serves \/ cu \in desk[c].things
        BY <1>2, <3>2 DEF StillMerging
      <4>2. desk[c].agent \notin desk[c].dups
        BY <1>2 DEF StillMerging
      <4>3. <<cu, desk[c].agent>> \in serves'
        BY <1>4, <3>2, <4>1, <4>2 DEF Inherits
      <4> QED
        BY <1>2, <4>3
    <3> QED
      BY <3>1, <3>2
  <2> QED
    BY <1>1, <2>1 DEF LosesNobody
<1> QED
  BY <1>1, <1>3, <1>4

LEMMA DeletionLosesNobody ==
  ASSUME AgentsInv, RecordsApart, NEW c \in Clerks, DeleteDuplicateAgents(c)
  PROVE  LosesNobody
<1>1. /\ desk[c].op = "merge" /\ desk[c].step = 5
      /\ \/ UNCHANGED <<profile, serves>>
         \/ /\ profile' = profile \ Going(desk[c].dups)
            /\ serves' = serves \ (Customers \X Going(desk[c].dups))
  BY DEF DeleteDuplicateAgents, Merging, Running
<1>2. StillMerging(desk[c])
  BY <1>1, MergeFacts
<1>3. Going(desk[c].dups) = desk[c].dups
  BY <1>2, GoingMeans
<1>4. serves \subseteq serves'
  BY <1>1, <1>2, <1>3 DEF StillMerging
<1>5. \A a \in profile \ profile' : a \in desk[c].dups
  BY <1>1, <1>3
<1> QED
  BY <1>1, <1>4, <1>5 DEF LosesNobody, LostBy

LEMMA StepLosesNobody ==
  ASSUME RecordsApart, AgentsInv, Next
  PROVE  LosesNobody
<1>1. CASE \E a \in Agents : CreateAgent(a) \/ TopUp(a)
  BY <1>1, GrowingLosesNobody DEF CreateAgent, TopUp
<1>2. ASSUME NEW cu \in Customers, NEW a \in Agents, AssignCustomer(cu, a)
      PROVE  LosesNobody
  BY <1>2, GrowingLosesNobody DEF AssignCustomer
<1>3. ASSUME NEW cu \in Customers, NEW a \in Agents, UnassignCustomer(cu, a)
      PROVE  LosesNobody
  <2>1. serves' = serves \ {<<cu, a>>} /\ UNCHANGED profile
    BY <1>3 DEF UnassignCustomer
  <2>2. \A cv \in Customers : LostBy(cv) => cv = cu
    BY <2>1 DEF LostBy
  <2> QED
    BY <1>3, <2>1, <2>2 DEF LosesNobody
<1>4. ASSUME NEW c \in Clerks,
             \/ AssignDevice(c) \/ ReassignDevice(c) \/ BulkAssignOne(c) \/ BulkAssignEnds(c) \/ UnassignDevice(c)
             \/ ReadWallet(c) \/ TransferWallets(c) \/ TransferDeviceAssignments(c)
      PROVE  LosesNobody
  <2>1. UNCHANGED <<profile, serves>>
    BY <1>4 DEF AssignDevice, ReassignDevice, BulkAssignOne, BulkAssignEnds, UnassignDevice,
       ReadWallet, TransferWallets, TransferDeviceAssignments
  <2> QED
    BY <2>1, GrowingLosesNobody
<1>5. ASSUME NEW c \in Clerks,
             ReassignCustomersToNewAgent(c) \/ TransferAgentCustomers(c) \/ DeleteDuplicateAgents(c)
      PROVE  LosesNobody
  BY <1>5, MoveLosesNobody, InheritingLosesNobody, DeletionLosesNobody
<1>6. ASSUME NEW c \in Clerks, NEW a \in Agents,
             \/ \E d \in Devices : BeginAssign(c, d, a) \/ BeginUnassign(c, d, a)
             \/ \E d \in Devices, b \in Agents : BeginReassign(c, d, a, b)
             \/ \E D \in SUBSET Devices : BeginBulk(c, D, a)
             \/ \E b \in Agents, C \in SUBSET Customers : BeginMoveCustomers(c, a, b, C)
             \/ \E D \in SUBSET Agents : BeginMerge(c, a, D)
      PROVE  LosesNobody
  <2>1. UNCHANGED <<profile, serves>>
    BY <1>6 DEF BeginAssign, BeginUnassign, BeginReassign, BeginBulk, BeginMoveCustomers, BeginMerge, Begins
  <2> QED
    BY <2>1, GrowingLosesNobody
<1> QED
  BY <1>1, <1>2, <1>3, <1>4, <1>5, <1>6 DEF Next

\* Under the same assumptions, a customer loses the last agent only when somebody
\* takes it away, or in a merge that answers with errors; and only the agents a
\* merge names as duplicates are deleted.
THEOREM NobodyIsLostHolds ==
  ASSUME RecordsApart, Careful
  PROVE  Spec => NobodyIsLost
<1>1. AgentsInv /\ [Next]_vars =>
        [/\ \A cu \in Customers :
               (\E a \in Agents : <<cu, a>> \in serves) /\ (\A a \in Agents : <<cu, a>> \notin serves')
                 => errors' \/ \E a \in Agents : UnassignCustomer(cu, a)
         /\ \A a \in profile \ profile' : \E c \in Clerks : desk[c].op = "merge" /\ a \in desk[c].dups]_vars
  BY StepLosesNobody DEF LosesNobody, LostBy
<1> QED
  BY <1>1, AgentsHold, PTL DEF Spec, NobodyIsLost

-----------------------------------------------------------------------------
(* Money *)

\* Every wallet holds its part of what was paid in, unless a merge had errors;
\* a merge has the balance it read, and then no duplicate has a wallet.
WalletsAddUp == IsFiniteSet(DOMAIN wallet) /\ (errors \/ SumFunction(wallet) = topUps)

MergesMoney(t) ==
  t.op = "merge" =>
    /\ \E d \in Agents : t.dups = {d}
    /\ t.step = 3 => t.saw = Balance(t.agent)
    /\ t.step \in {4, 5} => errors \/ t.dups \cap DOMAIN wallet = {}

MoneyInv == WalletsAddUp /\ \A k \in Clerks : MergesMoney(desk[k])

LEMMA WalletType ==
  ASSUME AgentsInv
  PROVE  /\ \A a \in DOMAIN wallet : wallet[a] \in Int
         /\ SumFunction(wallet) = SumFunctionOnSet(wallet, DOMAIN wallet)
BY DEF AgentsInv, TypeOK, SumFunction

\* The sum is over the values, whatever the function is called.
LEMMA SetAddsUp ==
  ASSUME AgentsInv, WalletsAddUp, NEW a, NEW n \in Int
  PROVE  /\ IsFiniteSet(DOMAIN Set(a, n))
         /\ SumFunction(Set(a, n)) = SumFunction(wallet) - Balance(a) + n
<1> DEFINE D == DOMAIN wallet
           w == Set(a, n)
<1>1. DOMAIN w = D \cup {a} /\ w[a] = n /\ \A x \in D \ {a} : w[x] = wallet[x] /\ wallet[x] \in Int
  BY WalletType DEF Set
<1>2. IsFiniteSet(D) /\ IsFiniteSet(D \cup {a})
  BY FS_AddElement DEF WalletsAddUp
<1>3. SumFunction(w) = SumFunctionOnSet(w, D \cup {a})
  BY <1>1 DEF SumFunction
<1>4. CASE a \in D
  <2>1. D \cup {a} = D /\ Balance(a) = wallet[a]
    BY <1>4 DEF Balance
  <2> HIDE DEF w, D
  <2>2. SumFunctionOnSet(w, D) = SumFunctionOnSet(wallet, D) - wallet[a] + w[a]
    <3>1. \A x \in D : wallet[x] \in Int
      BY WalletType DEF D
    <3> QED
      BY <1>1, <1>2, <1>4, <3>1, SumChange
  <2>3. SumFunction(wallet) = SumFunctionOnSet(wallet, D)
    BY WalletType DEF D
  <2>4. SumFunction(w) = SumFunction(wallet) - Balance(a) + n
    BY <1>1, <1>3, <2>1, <2>2, <2>3
  <2> QED
    BY <1>1, <1>2, <2>4 DEF w
<1>5. CASE a \notin D
  <2>1. Balance(a) = 0
    BY <1>5 DEF Balance
  <2> HIDE DEF w, D
  <2>2. SumFunctionOnSet(w, D \cup {a}) = w[a] + SumFunctionOnSet(w, D)
    <3>1. \A x \in D \cup {a} : w[x] \in Int
      BY <1>1, <1>5
    <3> QED
      BY <1>2, <1>5, <3>1, SumAdd
  <2>3. SumFunctionOnSet(w, D) = SumFunctionOnSet(wallet, D)
    <3>1. \A x \in D : w[x] = wallet[x]
      BY <1>1, <1>5
    <3> QED
      BY <1>2, <3>1, SumSame
  <2>4. SumFunction(wallet) = SumFunctionOnSet(wallet, D) /\ SumFunctionOnSet(wallet, D) \in Int
    BY <1>2, WalletType, SumType DEF D
  <2>5. SumFunction(w) = SumFunction(wallet) - Balance(a) + n
    BY <1>1, <1>3, <2>1, <2>2, <2>3, <2>4
  <2> QED
    BY <1>1, <1>2, <2>5 DEF w
<1> QED
  BY <1>4, <1>5

\* Without the duplicates' wallets: their part is missing.
LEMMA WithoutAddsUp ==
  ASSUME AgentsInv, WalletsAddUp, NEW d
  PROVE  /\ IsFiniteSet(DOMAIN Without({d}))
         /\ SumFunction(Without({d})) = SumFunction(wallet) - Balance(d)
<1> DEFINE D == DOMAIN wallet
           w == Without({d})
<1>1. DOMAIN w = D \ {d} /\ \A x \in D \ {d} : w[x] = wallet[x]
  BY DEF Without
<1>2. IsFiniteSet(D) /\ IsFiniteSet(D \ {d})
  BY FS_RemoveElement DEF WalletsAddUp
<1>3. SumFunction(w) = SumFunctionOnSet(w, D \ {d}) /\ \A x \in D : wallet[x] \in Int
  BY <1>1, WalletType DEF SumFunction
<1>4. SumFunction(wallet) = SumFunctionOnSet(wallet, D)
  BY WalletType
<1> HIDE DEF w, D
<1>5. SumFunctionOnSet(w, D \ {d}) = SumFunctionOnSet(wallet, D \ {d})
  BY <1>1, <1>2, SumSame
<1>6. SumFunctionOnSet(wallet, D \ {d}) \in Int
  <2>1. \A x \in D \ {d} : wallet[x] \in Int
    BY <1>3
  <2> QED
    BY <1>2, <2>1, SumType
<1>7. CASE d \in D
  <2>1. SumFunctionOnSet(wallet, D) = wallet[d] + SumFunctionOnSet(wallet, D \ {d})
    BY <1>2, <1>3, <1>7, SumRemove
  <2>2. Balance(d) = wallet[d] /\ wallet[d] \in Int
    BY <1>3, <1>7 DEF Balance, D
  <2>3. SumFunction(w) = SumFunction(wallet) - Balance(d)
    BY <1>3, <1>4, <1>5, <1>6, <2>1, <2>2
  <2> QED
    BY <1>1, <1>2, <2>3 DEF w
<1>8. CASE d \notin D
  <2>1. D \ {d} = D /\ Balance(d) = 0
    BY <1>8 DEF Balance, D
  <2>2. SumFunction(w) = SumFunction(wallet) - Balance(d)
    BY <1>3, <1>4, <1>5, <1>6, <2>1
  <2> QED
    BY <1>1, <1>2, <2>2 DEF w
<1> QED
  BY <1>7, <1>8

\* A request changes its desk, and no money.
LEMMA DeskKeepsMoney ==
  ASSUME AgentsInv, MoneyInv, UNCHANGED <<wallet, topUps>>, errors' = errors \/ errors' = TRUE,
         NEW c \in Clerks, NEW t, desk' = [desk EXCEPT ![c] = t], MergesMoney(t)'
  PROVE  MoneyInv'
<1>1. desk'[c] = t /\ \A j \in Clerks : j # c => desk'[j] = desk[j]
  BY DEF AgentsInv, TypeOK
<1>2. ASSUME NEW k \in Clerks
      PROVE  MergesMoney(desk[k])'
  <2>1. CASE k = c
    BY <1>1, <2>1 DEF MergesMoney, Balance
  <2>2. CASE k # c
    <3>1. desk'[k] = desk[k] /\ MergesMoney(desk[k])
      BY <1>1, <2>2 DEF MoneyInv
    <3> QED
      BY <3>1 DEF MergesMoney, Balance
  <2> QED
    BY <2>1, <2>2
<1>3. WalletsAddUp'
  BY DEF MoneyInv, WalletsAddUp
<1> QED
  BY <1>2, <1>3 DEF MoneyInv

\* Without a merge, who tops up a wallet adds to the sum.
LEMMA TopUpKeepsMoney ==
  ASSUME AgentsInv, RecordsApart, MoneyInv, NEW a \in Agents, TopUp(a)
  PROVE  MoneyInv'
<1>1. \A k \in Clerks : desk[k].op # "merge"
  BY MayRunMeans DEF AgentsInv, TopUp, Op
<1>2. /\ wallet' = Set(a, Balance(a) + 1) /\ topUps' = topUps + 1 /\ UNCHANGED <<errors, desk>>
  BY DEF TopUp
<1>3. Balance(a) \in Int /\ topUps \in Int
  BY BoundIsNat DEF AgentsInv, TypeOK, Balance
<1>4. /\ IsFiniteSet(DOMAIN wallet')
      /\ SumFunction(wallet') = SumFunction(wallet) - Balance(a) + (Balance(a) + 1)
  BY <1>2, <1>3, SetAddsUp DEF MoneyInv
<1>5. errors \/ SumFunction(wallet) = topUps
  BY DEF MoneyInv, WalletsAddUp
<1>6. ~errors => SumFunction(wallet') = topUps'
  BY <1>2, <1>3, <1>4, <1>5
<1>7. WalletsAddUp'
  BY <1>2, <1>4, <1>6 DEF WalletsAddUp
<1> QED
  BY <1>1, <1>2, <1>7 DEF MoneyInv, MergesMoney

\* The step of a merge goes on; before the last transfers nothing is known.
LEMMA MergeGoes ==
  ASSUME AgentsInv, RecordsApart, NEW c \in Clerks, desk[c].op = "merge", Goes(c, desk[c])
  PROVE  \E t \in Task : /\ desk' = [desk EXCEPT ![c] = t]
                         /\ t.op = "merge" /\ t.step = desk[c].step + 1 /\ t.agent = desk[c].agent
                         /\ t.dups = desk[c].dups /\ t.saw = desk[c].saw
<1>1. desk[c] \in Task
  BY MergeFacts
<1>2. PICK t : t = [desk[c] EXCEPT !.step = @ + 1]
  OBVIOUS
<1>3. /\ t \in Task /\ t.op = desk[c].op /\ t.step = desk[c].step + 1 /\ t.agent = desk[c].agent
      /\ t.dups = desk[c].dups /\ t.saw = desk[c].saw
  BY <1>1, <1>2, NextTask
<1>4. desk' = [desk EXCEPT ![c] = t]
  BY <1>2 DEF Goes
<1> QED
  BY <1>3, <1>4

LEMMA ReadWalletKeepsMoney ==
  ASSUME AgentsInv, RecordsApart, MoneyInv, NEW c \in Clerks, ReadWallet(c)
  PROVE  MoneyInv'
<1>1. PICK u : u = [desk[c] EXCEPT !.saw = Balance(desk[c].agent)]
  OBVIOUS
<1>2. PICK t : t = [u EXCEPT !.step = @ + 1]
  OBVIOUS
<1>3. /\ desk[c].op = "merge" /\ desk[c].step = 2 /\ desk' = [desk EXCEPT ![c] = t]
      /\ UNCHANGED <<wallet, topUps, errors>>
  BY <1>1, <1>2 DEF ReadWallet, Merging, Running, Goes
<1>4. desk[c] \in Task /\ Balance(desk[c].agent) \in Nat
  BY <1>3, MergeFacts DEF AgentsInv, TypeOK, Balance
<1>5. /\ u \in Task /\ u.op = "merge" /\ u.step = 2 /\ u.agent = desk[c].agent
      /\ u.dups = desk[c].dups /\ u.saw = Balance(desk[c].agent)
  BY <1>1, <1>3, <1>4, SeenTask DEF Task
<1>6. t.step = 3 /\ t.agent = desk[c].agent /\ t.dups = desk[c].dups /\ t.saw = Balance(desk[c].agent)
  BY <1>2, <1>5, NextTask
<1>7. \E d \in Agents : desk[c].dups = {d}
  BY <1>3 DEF MoneyInv, MergesMoney
<1>8. t.saw = Balance(t.agent)'
  BY <1>3, <1>6 DEF Balance
<1>9. MergesMoney(t)'
  BY <1>6, <1>7, <1>8 DEF MergesMoney
<1> QED
  BY <1>3, <1>9, DeskKeepsMoney

LEMMA TransferWalletsKeepsMoney ==
  ASSUME AgentsInv, RecordsApart, MoneyInv, NEW c \in Clerks, TransferWallets(c)
  PROVE  MoneyInv'
<1>1. desk[c].op = "merge" /\ desk[c].step = 3 /\ Goes(c, desk[c]) /\ topUps' = topUps
  BY DEF TransferWallets, Merging, Running
<1>2. /\ desk[c] \in Task /\ StillMerging(desk[c]) /\ \A j \in Clerks : j # c => desk[j] = Idle
  BY <1>1, MergeFacts
<1>3. PICK d \in Agents : desk[c].dups = {d}
  BY <1>1 DEF MoneyInv, MergesMoney
<1> DEFINE a == desk[c].agent
<1>4. a # d /\ desk[c].saw = Balance(a)
  BY <1>1, <1>2, <1>3 DEF StillMerging, MoneyInv, MergesMoney
<1>5. PICK t \in Task : /\ desk' = [desk EXCEPT ![c] = t]
                        /\ t.op = "merge" /\ t.step = 4 /\ t.dups = {d}
  BY <1>1, <1>3, MergeGoes
<1>6. /\ IsFiniteSet(DOMAIN Without({d}))
      /\ SumFunction(Without({d})) = SumFunction(wallet) - Balance(d)
      /\ IsFiniteSet(DOMAIN wallet)
  BY WithoutAddsUp DEF MoneyInv, WalletsAddUp
<1>7. /\ IsFiniteSet(DOMAIN wallet') /\ d \notin DOMAIN wallet'
      /\ errors' \/ (errors' = errors /\ SumFunction(wallet') = SumFunction(wallet))
  <2>1. SumFunction(wallet) \in Int
    BY <1>6, WalletType, SumType
  <2>2. CASE wallet' = Without({d}) /\ errors' = TRUE
    BY <1>6, <2>2 DEF Without
  <2>3. CASE d \notin DOMAIN wallet /\ wallet' = Without({d}) /\ UNCHANGED errors
    <3>1. Balance(d) = 0
      BY <2>3 DEF Balance
    <3>2. SumFunction(wallet') = SumFunction(wallet)
      BY <1>6, <2>1, <2>3, <3>1
    <3>3. d \notin DOMAIN wallet' /\ IsFiniteSet(DOMAIN wallet')
      BY <1>6, <2>3 DEF Without
    <3> QED
      BY <2>3, <3>2, <3>3
  <2>4. CASE /\ d \in DOMAIN wallet /\ UNCHANGED errors
             /\ wallet' = [x \in (DOMAIN wallet \ {d}) \cup {a} |->
                             IF x = a THEN Sum(desk[c].saw, wallet[d]) ELSE wallet[x]]
    <3> DEFINE w == Set(a, Balance(a) + wallet[d])
    <3>1. Balance(d) = wallet[d] /\ wallet[d] \in Int /\ Balance(a) \in Int
      BY <2>4, WalletType DEF Balance
    <3>2. /\ DOMAIN wallet' = DOMAIN w \ {d} /\ d \in DOMAIN w /\ w[d] = wallet[d]
          /\ \A x \in DOMAIN w \ {d} : wallet'[x] = w[x]
      BY <1>4, <2>4 DEF Set, Sum
    <3>3. /\ IsFiniteSet(DOMAIN w)
          /\ SumFunction(w) = SumFunction(wallet) - Balance(a) + (Balance(a) + wallet[d])
      BY <3>1, SetAddsUp DEF MoneyInv
    <3>4. \A x \in DOMAIN w : w[x] \in Int
      BY <3>1, WalletType DEF Set
    <3> HIDE DEF w
    <3>5. IsFiniteSet(DOMAIN wallet')
      BY <3>2, <3>3, FS_RemoveElement
    <3>6. SumFunction(w) = w[d] + SumFunctionOnSet(w, DOMAIN w \ {d})
      <4>1. SumFunctionOnSet(w, DOMAIN w) = w[d] + SumFunctionOnSet(w, DOMAIN w \ {d})
        BY <3>2, <3>3, <3>4, SumRemove
      <4> QED
        BY <4>1 DEF SumFunction
    <3>7. SumFunction(wallet') = SumFunctionOnSet(w, DOMAIN w \ {d}) /\ SumFunction(wallet') \in Int
      <4>1. SumFunctionOnSet(wallet', DOMAIN w \ {d}) = SumFunctionOnSet(w, DOMAIN w \ {d})
        BY <3>2, <3>5, SumSame
      <4>2. SumFunctionOnSet(w, DOMAIN w \ {d}) \in Int
        BY <3>2, <3>4, <3>5, SumType
      <4> QED
        BY <3>2, <4>1, <4>2 DEF SumFunction
    <3>8. SumFunction(wallet') = SumFunction(wallet)
      BY <2>1, <3>1, <3>2, <3>3, <3>6, <3>7
    <3> QED
      BY <2>4, <3>2, <3>5, <3>8
  <2> QED
    BY <1>3, <2>2, <2>3, <2>4 DEF TransferWallets
<1>8. WalletsAddUp'
  BY <1>1, <1>7 DEF MoneyInv, WalletsAddUp
<1>9. ASSUME NEW k \in Clerks
      PROVE  MergesMoney(desk[k])'
  <2>1. CASE k = c
    <3>1. desk'[k] = t
      BY <1>5, <2>1 DEF AgentsInv, TypeOK
    <3> QED
      BY <1>5, <1>7, <3>1 DEF MergesMoney
  <2>2. CASE k # c
    <3>1. desk'[k] = Idle
      BY <1>2, <1>5, <2>2 DEF AgentsInv, TypeOK
    <3> QED
      BY <3>1 DEF MergesMoney, Idle
  <2> QED
    BY <2>1, <2>2
<1> QED
  BY <1>8, <1>9 DEF MoneyInv

\* The transfers that move no money.
LEMMA OtherTransfersKeepMoney ==
  ASSUME AgentsInv, RecordsApart, MoneyInv, NEW c \in Clerks,
         TransferAgentCustomers(c) \/ TransferDeviceAssignments(c)
  PROVE  MoneyInv'
<1>1. /\ desk[c].op = "merge" /\ desk[c].step \in {1, 4} /\ Goes(c, desk[c])
      /\ UNCHANGED <<wallet, topUps>> /\ (errors' = errors \/ errors' = TRUE)
  BY DEF TransferAgentCustomers, TransferDeviceAssignments, Merging, Running
<1>2. PICK t \in Task : /\ desk' = [desk EXCEPT ![c] = t]
                        /\ t.op = "merge" /\ t.step = desk[c].step + 1 /\ t.dups = desk[c].dups
  BY <1>1, MergeGoes
<1>3. (\E d \in Agents : t.dups = {d}) /\ t.step \in {2, 5}
      /\ (t.step = 5 => errors \/ t.dups \cap DOMAIN wallet = {})
  BY <1>1, <1>2 DEF MoneyInv, MergesMoney
<1>4. MergesMoney(t)'
  BY <1>1, <1>3 DEF MergesMoney
<1> QED
  BY <1>1, <1>2, <1>4, DeskKeepsMoney

\* The duplicate that goes has no wallet any more.
LEMMA DeletionKeepsMoney ==
  ASSUME AgentsInv, RecordsApart, MoneyInv, NEW c \in Clerks, DeleteDuplicateAgents(c)
  PROVE  MoneyInv'
<1>1. /\ desk[c].op = "merge" /\ desk[c].step = 5 /\ desk' = [desk EXCEPT ![c] = Idle] /\ topUps' = topUps
  BY DEF DeleteDuplicateAgents, Merging, Running, Ends
<1>2. StillMerging(desk[c])
  BY <1>1, MergeFacts
<1>3. Going(desk[c].dups) = desk[c].dups
  BY <1>2, GoingMeans
<1>4. PICK d \in Agents : desk[c].dups = {d}
  BY <1>1 DEF MoneyInv, MergesMoney
<1>5. \/ errors' = TRUE /\ wallet' = wallet
      \/ errors' = errors /\ wallet' = Without({d})
  BY <1>3, <1>4 DEF DeleteDuplicateAgents
<1>6. CASE errors' = TRUE /\ wallet' = wallet
  <2>1. MergesMoney(Idle)'
    BY DEF MergesMoney, Idle
  <2> QED
    BY <1>1, <1>6, <2>1, DeskKeepsMoney
<1>7. CASE errors' = errors /\ wallet' = Without({d})
  <2>1. errors \/ d \notin DOMAIN wallet
    BY <1>1, <1>4 DEF MoneyInv, MergesMoney
  <2>2. /\ IsFiniteSet(DOMAIN wallet')
        /\ SumFunction(wallet') = SumFunction(wallet) - Balance(d)
    BY <1>7, WithoutAddsUp DEF MoneyInv
  <2>3. ~errors => SumFunction(wallet') = topUps
    <3> SUFFICES ASSUME ~errors PROVE SumFunction(wallet') = topUps
      OBVIOUS
    <3>1. Balance(d) = 0
      BY <2>1 DEF Balance
    <3>2. SumFunction(wallet) = topUps /\ topUps \in Int
      BY BoundIsNat DEF MoneyInv, WalletsAddUp, AgentsInv, TypeOK
    <3> QED
      BY <2>2, <3>1, <3>2
  <2>4. WalletsAddUp'
    BY <1>1, <1>7, <2>2, <2>3 DEF WalletsAddUp
  <2>5. \A k \in Clerks : desk'[k] = Idle
    BY <1>1, MergeFacts DEF AgentsInv, TypeOK
  <2> QED
    BY <2>4, <2>5 DEF MoneyInv, MergesMoney, Idle
<1> QED
  BY <1>5, <1>6, <1>7

\* A request that is no merge begins, goes on or ends, or nobody's desk changes.
LEMMA NoMergeKeepsMoney ==
  ASSUME AgentsInv, MoneyInv, UNCHANGED <<wallet, topUps, errors>>,
         \/ UNCHANGED desk
         \/ \E c \in Clerks, t \in Task \cup {Idle} : t.op # "merge" /\ desk' = [desk EXCEPT ![c] = t]
  PROVE  MoneyInv'
<1>1. CASE UNCHANGED desk
  BY <1>1 DEF MoneyInv, WalletsAddUp, MergesMoney, Balance
<1>2. ASSUME NEW c \in Clerks, NEW t \in Task \cup {Idle}, t.op # "merge", desk' = [desk EXCEPT ![c] = t]
      PROVE  MoneyInv'
  <2>1. MergesMoney(t)'
    BY <1>2 DEF MergesMoney
  <2> QED
    BY <1>2, <2>1, DeskKeepsMoney
<1> QED
  BY <1>1, <1>2

LEMMA BeginningKeepsMoney ==
  ASSUME AgentsInv, MoneyInv, NEW c \in Clerks, NEW a \in Agents,
         \/ \E d \in Devices : BeginAssign(c, d, a) \/ BeginUnassign(c, d, a)
         \/ \E d \in Devices, b \in Agents : BeginReassign(c, d, a, b)
         \/ \E D \in SUBSET Devices : BeginBulk(c, D, a)
         \/ \E b \in Agents, C \in SUBSET Customers : BeginMoveCustomers(c, a, b, C)
  PROVE  MoneyInv'
<1>1. ASSUME NEW op \in Op \ {"merge"}, NEW b, NEW things, Begins(c, op, a, b, things)
      PROVE  MoneyInv'
  <2>1. PICK t : t = [op |-> op, step |-> 1, agent |-> a, to |-> b, things |-> things, dups |-> {}, saw |-> 0]
    OBVIOUS
  <2>2. /\ t.op # "merge" /\ desk' = [desk EXCEPT ![c] = t]
        /\ UNCHANGED <<wallet, topUps, errors>>
    BY <1>1, <2>1 DEF Begins, Takes
  <2>3. MergesMoney(t)'
    BY <2>2 DEF MergesMoney
  <2> QED
    BY <2>2, <2>3, DeskKeepsMoney
<1> QED
  BY <1>1 DEF BeginAssign, BeginUnassign, BeginReassign, BeginBulk, BeginMoveCustomers, Op

LEMMA BeginMergeKeepsMoney ==
  ASSUME AgentsInv, Careful, MoneyInv, NEW c \in Clerks, NEW a \in Agents, NEW D \in SUBSET Agents,
         BeginMerge(c, a, D)
  PROVE  MoneyInv'
<1>1. PICK C : C = {cu \in Customers : <<cu, a>> \notin serves /\ \E d \in D : <<cu, d>> \in serves}
  OBVIOUS
<1>2. PICK t : t = [op |-> "merge", step |-> 1, agent |-> a, to |-> a, things |-> C, dups |-> D, saw |-> 0]
  OBVIOUS
<1>3. desk' = [desk EXCEPT ![c] = t] /\ UNCHANGED <<wallet, topUps, errors>>
  BY <1>1, <1>2 DEF BeginMerge, Takes
<1>4. (\E d \in Agents : t.dups = {d}) /\ t.step = 1
  BY <1>2 DEF BeginMerge
<1>5. MergesMoney(t)'
  BY <1>4 DEF MergesMoney
<1> QED
  BY <1>3, <1>5, DeskKeepsMoney

LEMMA RequestKeepsMoney ==
  ASSUME AgentsInv, MoneyInv, NEW c \in Clerks,
         \/ AssignDevice(c) \/ ReassignDevice(c) \/ BulkAssignOne(c) \/ BulkAssignEnds(c) \/ UnassignDevice(c)
         \/ ReassignCustomersToNewAgent(c)
  PROVE  MoneyInv'
<1>1. UNCHANGED <<wallet, topUps, errors>>
  BY DEF AssignDevice, ReassignDevice, BulkAssignOne, BulkAssignEnds, UnassignDevice,
         ReassignCustomersToNewAgent
<1>2. CASE BulkAssignOne(c)
  <2>1. desk[c].op = "bulk" /\ desk[c] \in Task
    BY <1>2, DeskType DEF BulkAssignOne, Running, AgentsInv, Op
  <2>2. PICK d : desk' = [desk EXCEPT ![c].things = @ \ {d}]
    BY <1>2 DEF BulkAssignOne
  <2>3. PICK t : t = [desk[c] EXCEPT !.things = @ \ {d}]
    OBVIOUS
  <2>4. t \in Task /\ t.op = "bulk" /\ desk' = [desk EXCEPT ![c] = t]
    BY <2>1, <2>2, <2>3 DEF Task
  <2> QED
    BY <1>1, <2>4, NoMergeKeepsMoney
<1>3. CASE desk' = [desk EXCEPT ![c] = Idle]
  BY <1>1, <1>3, NoMergeKeepsMoney DEF Idle
<1> QED
  BY <1>2, <1>3 DEF AssignDevice, ReassignDevice, BulkAssignEnds, UnassignDevice,
     ReassignCustomersToNewAgent, Ends

LEMMA MoneyStep ==
  ASSUME RecordsApart, Careful, AgentsInv, MoneyInv, [Next]_vars
  PROVE  MoneyInv'
<1>1. ASSUME NEW a \in Agents, CreateAgent(a)
      PROVE  MoneyInv'
  BY <1>1, NoMergeKeepsMoney DEF CreateAgent
<1>2. ASSUME NEW cu \in Customers, NEW a \in Agents, AssignCustomer(cu, a) \/ UnassignCustomer(cu, a)
      PROVE  MoneyInv'
  BY <1>2, NoMergeKeepsMoney DEF AssignCustomer, UnassignCustomer
<1>3. ASSUME NEW c \in Clerks,
             \/ TransferAgentCustomers(c) \/ ReadWallet(c) \/ TransferWallets(c)
             \/ TransferDeviceAssignments(c) \/ DeleteDuplicateAgents(c)
      PROVE  MoneyInv'
  BY <1>3, OtherTransfersKeepMoney, ReadWalletKeepsMoney, TransferWalletsKeepsMoney, DeletionKeepsMoney
<1>4. CASE UNCHANGED vars
  BY <1>4, NoMergeKeepsMoney DEF vars
<1> QED
  BY <1>1, <1>2, <1>3, <1>4, TopUpKeepsMoney, BeginningKeepsMoney, BeginMergeKeepsMoney,
     RequestKeepsMoney DEF Next

LEMMA MoneyInit ==
  ASSUME Init
  PROVE  MoneyInv
<1>1. DOMAIN wallet = {} /\ topUps = 0 /\ \A k \in Clerks : desk[k] = Idle
  BY DEF Init
<1>2. SumFunction(wallet) = 0 /\ IsFiniteSet({})
  BY <1>1, SumEmpty, FS_EmptySet DEF SumFunction
<1> QED
  BY <1>1, <1>2 DEF MoneyInv, WalletsAddUp, MergesMoney, Idle

\* Money paid into wallets is where it was paid, or with the survivor of a merge,
\* unless the merge answered with errors: merges run alone and name one
\* duplicate, the only profile of its account.
THEOREM MoneyIsKept ==
  ASSUME RecordsApart, Careful
  PROVE  Spec => []MoneyKept
<1>1. Init => AgentsInv /\ MoneyInv
  BY AgentsInit, MoneyInit
<1>2. AgentsInv /\ MoneyInv /\ [Next]_vars => AgentsInv' /\ MoneyInv'
  BY AgentsStep, MoneyStep
<1>3. MoneyInv => MoneyKept
  BY DEF MoneyInv, WalletsAddUp, MoneyKept
<1> QED
  BY <1>1, <1>2, <1>3, PTL DEF Spec

=============================================================================
