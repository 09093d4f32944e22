-------------------------- MODULE FieldWorkProofs --------------------------
(***************************************************************************)
(* Proofs about FieldWork for any sales, devices, tasks and requests: that *)
(* nothing in the field goes back, that an open task has its sale, and     *)
(* that an installation yields one code.                                   *)
(*                                                                         *)
(* They hold while the handlers that write what the others read run apart  *)
(* (HandlersApart): no lock in the code keeps them so, and each finds its  *)
(* row first and writes it by the id alone.  revertTasksAccepted, payments *)
(* and the synchronisation may overlap with any handler of tasks.          *)
(***************************************************************************)
EXTENDS FieldWork, TLAPS

TaskWriters == {"accept", "reject", "complete", "install", "undo"}
StatusWriters == {"status", "install", "sync", "mark", "file"}

HandlersApart ==
  /\ \A a, b \in TaskWriters : {a, b} \notin Overlap
  /\ {"create", "undo"} \notin Overlap
  /\ \A a \in StatusWriters : {"status", a} \notin Overlap

\* A restoration file names no earlier status than the device's.
FilesForward == CsvStatus \subseteq {"", "installed"}

-----------------------------------------------------------------------------
(* Types: what a request has read fits the operation it runs. *)

WorkFits ==
  \A r \in Requests :
    /\ work[r].op = "status" => work[r].to \in Status
    /\ work[r].op \in {"accept", "reject", "complete", "install"} => work[r].task \in Tasks
    /\ work[r].op \in {"create", "install", "undo"} =>
         work[r].sale \in Sales /\ sale[work[r].sale] # "none"
    /\ work[r].op = "install" =>
         work[r].devices \subseteq DevicesOf[work[r].sale] /\ work[r].now \subseteq DevicesOf[work[r].sale]

\* The sale of a task has been made.
TasksFit == \A t \in Tasks : task[t].sale \in Sales => sale[task[t].sale] # "none"

FieldTypes == TypeOK /\ WorkFits /\ TasksFit

LEMMA IdleFits == Idle \in WorkType
  BY DEF Idle, WorkType, Stage, TaskStatus

LEMMA TypesAtFirst == Init => FieldTypes
<1> SUFFICES ASSUME Init PROVE FieldTypes
  OBVIOUS
<1>1. 0 \in 0 .. MaxReruns /\ 0 \in 0 .. MaxMailFailures /\ 0 \in 0 .. MaxFailures
  BY DeviceLimits, TasksAssumption
<1>2. DeviceTypeOK
  <2>1. sale \in [Sales -> {"none", "unpaid", "paid", "undone"}]
    BY DEF Init
  <2>2. status \in [Devices -> Status]
    BY DEF Init, DeviceInit, Status
  <2>3. codes \in [Devices -> Nat] /\ reruns \in [Devices -> 0 .. MaxReruns]
    BY <1>1 DEF Init, DeviceInit
  <2> QED
    BY <1>1, <2>1, <2>2, <2>3 DEF Init, DeviceInit, DeviceTypeOK
<1>3. TaskTypeOK
  <2>1. NoRow \in TaskRow
    BY DEF NoRow, TaskRow, TaskStatus
  <2> QED
    BY <1>1, <2>1, IdleFits DEF Init, TaskInit, TaskTypeOK
<1>4. WorkFits
  BY DEF Init, TaskInit, WorkFits, Idle
<1>5. TasksFit
  BY TasksAssumption DEF Init, TaskInit, TasksFit, NoRow
<1> QED
  BY <1>2, <1>3, <1>4, <1>5 DEF FieldTypes, TypeOK

\* A request that begins with w, which fits, or moves on to it.
WorkOf(w) ==
  /\ w \in WorkType
  /\ w.op = "status" => w.to \in Status
  /\ w.op \in {"accept", "reject", "complete", "install"} => w.task \in Tasks
  /\ w.op \in {"create", "install", "undo"} => w.sale \in Sales /\ sale[w.sale] # "none"
  /\ w.op = "install" => w.devices \subseteq DevicesOf[w.sale] /\ w.now \subseteq DevicesOf[w.sale]

LEMMA WorkChanges ==
  ASSUME FieldTypes, NEW r \in Requests, NEW w, WorkOf(w), work' = [work EXCEPT ![r] = w],
         \A s \in Sales : sale[s] # "none" => sale'[s] # "none"
  PROVE  work' \in [Requests -> WorkType] /\ WorkFits'
  BY DEF FieldTypes, TypeOK, TaskTypeOK, WorkOf, WorkFits

LEMMA WorkStays ==
  ASSUME FieldTypes, UNCHANGED work,
         \A s \in Sales : sale[s] # "none" => sale'[s] # "none"
  PROVE  work' \in [Requests -> WorkType] /\ WorkFits'
  BY DEF FieldTypes, TypeOK, TaskTypeOK, WorkFits

LEMMA IdleWork == WorkOf(Idle)
  BY IdleFits DEF WorkOf, Idle

\* Beginning: what each operation has read fits it.
LEMMA CreateFits ==
  ASSUME NEW s \in Sales, Live(s)
  PROVE  WorkOf([[Idle EXCEPT !.stage = "writing", !.sale = s] EXCEPT !.op = "create"])
  BY DEF WorkOf, Idle, WorkType, Stage, TaskStatus, Op, Live

LEMMA AnswerFits ==
  ASSUME NEW op \in {"accept", "reject", "complete"}, NEW t \in Tasks
  PROVE  WorkOf([[Idle EXCEPT !.stage = "writing", !.task = t] EXCEPT !.op = op])
  BY DEF WorkOf, Idle, WorkType, Stage, TaskStatus, Op

LEMMA InstallFits ==
  ASSUME FieldTypes, NEW t \in Tasks, DevicesLeft(t) # {}
  PROVE  WorkOf([[Idle EXCEPT !.stage = "device", !.task = t, !.sale = task[t].sale,
                              !.devices = DevicesLeft(t)] EXCEPT !.op = "install"])
<1>1. task[t].sale \in Sales /\ DevicesLeft(t) = DevicesOf[task[t].sale]
  BY DEF DevicesLeft
<1>2. sale[task[t].sale] # "none" /\ DevicesLeft(t) \subseteq Devices
  BY <1>1, DevicesAssumption DEF FieldTypes, TasksFit
<1> QED
  BY <1>1, <1>2 DEF WorkOf, Idle, WorkType, Stage, TaskStatus, Op

LEMMA PaymentFits ==
  ASSUME NEW s \in Sales, NEW st \in TaskStatus
  PROVE  WorkOf([[Idle EXCEPT !.stage = "writing", !.devices = DevicesOf[s], !.to = st]
                 EXCEPT !.op = "mark"])
  BY DevicesAssumption DEF WorkOf, Idle, WorkType, Stage, Op

LEMMA StatusFits ==
  ASSUME NEW d \in Devices, NEW to \in Status
  PROVE  WorkOf([[Idle EXCEPT !.stage = "writing", !.devices = {d}, !.to = to]
                 EXCEPT !.op = "status"])
  BY DEF WorkOf, Idle, WorkType, Stage, Op

LEMMA SyncFits ==
  ASSUME NEW found \in SUBSET Devices
  PROVE  WorkOf([[Idle EXCEPT !.stage = "writing", !.devices = found] EXCEPT !.op = "sync"])
  BY DEF WorkOf, Idle, WorkType, Stage, Op, TaskStatus

LEMMA UndoFits ==
  ASSUME NEW s \in Sales, Live(s)
  PROVE  WorkOf([[Idle EXCEPT !.stage = "writing", !.sale = s, !.tasks = TasksOf(s)]
                 EXCEPT !.op = "undo"])
  BY DEF WorkOf, Idle, WorkType, Stage, Op, TaskStatus, TasksOf, Live

\* Moving on.
LEMMA MoveFits ==
  ASSUME FieldTypes, NEW r \in Requests, NEW stage \in Stage
  PROVE  WorkOf([work[r] EXCEPT !.stage = stage])
  BY DEF FieldTypes, TypeOK, TaskTypeOK, WorkFits, WorkOf, WorkType

\* Jobs: a retried job is a job, and so is a consumed one.
LEMMA RetryFits ==
  ASSUME DeviceTypeOK, NEW j \in deviceJobs, Retry(j) \/ Consume(j)
  PROVE  deviceJobs' \subseteq DeviceJob /\ deadJobs' \subseteq DeviceJob
<1>1. CASE Consume(j)
  BY <1>1 DEF DeviceTypeOK, Consume
<1>2. CASE Retry(j) /\ j.attempts > 1
  <2>1. [j EXCEPT !.attempts = @ - 1] \in DeviceJob
    BY <1>2, DeviceLimits DEF DeviceTypeOK, DeviceJob
  <2> QED
    BY <1>2, <2>1 DEF DeviceTypeOK, Retry
<1>3. CASE Retry(j) /\ ~(j.attempts > 1)
  BY <1>3 DEF DeviceTypeOK, Retry
<1> QED
  BY <1>1, <1>2, <1>3

LEMMA StoreFits ==
  ASSUME DeviceTypeOK, NEW d \in Devices, Store(d)
  PROVE  codes' \in [Devices -> Nat]
  BY DEF DeviceTypeOK, Store
\* Sales are made once, paid, and stay reversed.
SaleMovesOn ==
  /\ sale' \in [Sales -> {"none", "unpaid", "paid", "undone"}]
  /\ \A s \in Sales : /\ sale[s] # "none" => sale'[s] # "none"
                      /\ sale[s] = "undone" => sale'[s] = "undone"

LEMMA SaleStays == FieldTypes /\ UNCHANGED sale => SaleMovesOn
  BY DEF FieldTypes, TypeOK, DeviceTypeOK, SaleMovesOn

LEMMA PaymentMovesSale ==
  ASSUME FieldTypes, NEW r \in Requests, NEW s \in Sales, BeginPayment(r, s)
  PROVE  SaleMovesOn
  BY DEF FieldTypes, TypeOK, DeviceTypeOK, SaleMovesOn, BeginPayment, Live

LEMMA RequestMovesSale ==
  ASSUME FieldTypes, NEW r \in Requests, Request(r)
  PROVE  SaleMovesOn
<1>1. CASE \E s \in Sales : BeginPayment(r, s)
  BY <1>1, PaymentMovesSale
<1>2. CASE ~\E s \in Sales : BeginPayment(r, s)
  <2>1. UNCHANGED sale
    BY <1>2 DEF Request, TaskRequest, BeginCreateTask, BeginAnswer, BeginComplete, BeginInstall,
                BeginUndo, BeginStatus, BeginSync
  <2> QED
    BY <2>1, SaleStays
<1> QED
  BY <1>1, <1>2

LEMMA StepMovesSale ==
  ASSUME FieldTypes, NEW r \in Requests, Step(r)
  PROVE  SaleMovesOn
<1>1. CASE UndoSale(r)
  BY <1>1 DEF FieldTypes, TypeOK, DeviceTypeOK, SaleMovesOn, UndoSale, Live
<1>2. CASE ~UndoSale(r)
  <2>1. UNCHANGED sale
    BY <1>2 DEF Step, TaskStep, CreateTask, WriteAnswer, RefuseInstalled, CheckDevice,
                LocateDevice, QueueDeviceJob, CloseInstall, CompleteInstall,
                WritePayment, WriteStatus, WriteSync
  <2> QED
    BY <2>1, SaleStays
<1> QED
  BY <1>1, <1>2

LEMMA SaleMoves == FieldTypes /\ [Next]_vars => SaleMovesOn
<1> SUFFICES ASSUME FieldTypes, [Next]_vars PROVE SaleMovesOn
  OBVIOUS
<1>1. ASSUME NEW s \in Sales, CreateSale(s) PROVE SaleMovesOn
  BY <1>1 DEF FieldTypes, TypeOK, DeviceTypeOK, SaleMovesOn, CreateSale
<1>2. ASSUME NEW r \in Requests, Abandon(r) PROVE SaleMovesOn
  BY <1>2, SaleStays DEF Abandon
<1>3. ASSUME NEW t \in Tasks, NEW i \in Installers, AssignInstallerTask(t, i) PROVE SaleMovesOn
  BY <1>3, SaleStays DEF AssignInstallerTask
<1>4. CASE RevertTasksAccepted
  BY <1>4, SaleStays DEF RevertTasksAccepted
<1>5. ASSUME NEW d \in Devices, FromFile(d) PROVE SaleMovesOn
  BY <1>5, SaleStays DEF FromFile
<1>6. CASE Worker
  BY <1>6, SaleStays DEF Worker
<1>7. CASE Operator
  BY <1>7, SaleStays DEF Operator, RerunGeneration
<1>8. CASE UNCHANGED vars
  BY <1>8, SaleStays DEF vars
<1> QED
  BY <1>1, <1>2, <1>3, <1>4, <1>5, <1>6, <1>7, <1>8, RequestMovesSale, StepMovesSale DEF Next

-----------------------------------------------------------------------------

\* What a request that begins leaves alone, and what it starts.
Begun(r) ==
  /\ UNCHANGED <<deviceVars, task, failures>>
  /\ \E op \in Op, w \in WorkType : Begins(r, op, w) /\ WorkOf([w EXCEPT !.op = op])

LEMMA RequestBegins ==
  ASSUME FieldTypes, NEW r \in Requests, Request(r)
  PROVE  Begun(r)
<1>2. ASSUME NEW s \in Sales, BeginCreateTask(r, s) PROVE Begun(r)
  <2> DEFINE w == [Idle EXCEPT !.stage = "writing", !.sale = s]
  <2>1. w \in WorkType
    BY DEF Idle, WorkType, Stage, TaskStatus
  <2> QED
    BY <1>2, <2>1, CreateFits DEF Begun, BeginCreateTask, Op
<1>3. ASSUME NEW op \in {"accept", "reject"}, NEW t \in Tasks, NEW i \in Installers,
             BeginAnswer(r, op, t, i)
      PROVE  Begun(r)
  <2> DEFINE w == [Idle EXCEPT !.stage = "writing", !.task = t]
  <2>1. w \in WorkType
    BY DEF Idle, WorkType, Stage, TaskStatus
  <2> QED
    BY <1>3, <2>1, AnswerFits DEF Begun, BeginAnswer, Op
<1>4. ASSUME NEW t \in Tasks, NEW i \in Installers, BeginComplete(r, t, i) PROVE Begun(r)
  <2> DEFINE w == [Idle EXCEPT !.stage = "writing", !.task = t]
  <2>1. w \in WorkType
    BY DEF Idle, WorkType, Stage, TaskStatus
  <2> QED
    BY <1>4, <2>1, AnswerFits DEF Begun, BeginComplete, Op
<1>5. ASSUME NEW t \in Tasks, NEW i \in Installers, BeginInstall(r, t, i) PROVE Begun(r)
  <2> DEFINE w == [Idle EXCEPT !.stage = "device", !.task = t, !.sale = task[t].sale,
                               !.devices = DevicesLeft(t)]
  <2>1. w \in WorkType
    BY <1>5, DevicesAssumption
    DEF Idle, WorkType, Stage, TaskStatus, DevicesLeft, FieldTypes, TypeOK, TaskTypeOK, TaskRow
  <2> QED
    BY <1>5, <2>1, InstallFits DEF Begun, BeginInstall, Op
<1>6. ASSUME NEW s \in Sales, BeginPayment(r, s) PROVE Begun(r)
  <2>1. PICK st \in (IF TasksOf(s) = {} THEN {"none"} ELSE {task[t].status : t \in TasksOf(s)}) :
          Begins(r, "mark", [Idle EXCEPT !.stage = "writing", !.devices = DevicesOf[s], !.to = st])
    BY <1>6 DEF BeginPayment
  <2>2. st \in TaskStatus
    BY <2>1 DEF TasksOf, FieldTypes, TypeOK, TaskTypeOK, TaskRow, TaskStatus
  <2> DEFINE w == [Idle EXCEPT !.stage = "writing", !.devices = DevicesOf[s], !.to = st]
  <2>3. w \in WorkType
    BY <2>2, DevicesAssumption DEF Idle, WorkType, Stage
  <2>4. WorkOf([w EXCEPT !.op = "mark"])
    BY <2>2, PaymentFits
  <2> QED
    BY <1>6, <2>1, <2>3, <2>4 DEF Begun, BeginPayment, Op
<1>7. ASSUME NEW s \in Sales, BeginUndo(r, s) PROVE Begun(r)
  <2> DEFINE w == [Idle EXCEPT !.stage = "writing", !.sale = s, !.tasks = TasksOf(s)]
  <2>1. w \in WorkType
    BY DEF Idle, WorkType, Stage, TaskStatus, TasksOf
  <2> QED
    BY <1>7, <2>1, UndoFits DEF Begun, BeginUndo, Op
<1>8. ASSUME NEW d \in Devices, NEW to \in Status, BeginStatus(r, d, to) PROVE Begun(r)
  <2> DEFINE w == [Idle EXCEPT !.stage = "writing", !.devices = {d}, !.to = to]
  <2>1. w \in WorkType
    BY DEF Idle, WorkType, Stage
  <2> QED
    BY <1>8, <2>1, StatusFits DEF Begun, BeginStatus, Op
<1>9. CASE BeginSync(r)
  <2> DEFINE found == UNION {DevicesOf[s] : s \in {o \in Sales : Live(o) /\
                        \E t \in TasksOf(o) : task[t].status = "COMPLETED"}}
             w == [Idle EXCEPT !.stage = "writing", !.devices = found]
  <2>1. found \in SUBSET Devices
    BY DevicesAssumption
  <2>2. Begins(r, "sync", w) /\ UNCHANGED <<sale, deviceVars, task, failures>>
    BY <1>9 DEF BeginSync
  <2> HIDE DEF found
  <2>3. w \in WorkType
    BY <2>1 DEF Idle, WorkType, Stage, TaskStatus
  <2> QED
    BY <2>1, <2>2, <2>3, SyncFits DEF Begun, Op
<1> QED
  BY <1>2, <1>3, <1>4, <1>5, <1>6, <1>7, <1>8, <1>9 DEF Request, TaskRequest
\* What a request that is under way does next: it moves on or ends.
MovesOn(r) ==
  \E w \in WorkType : /\ WorkOf(w)
                      /\ w = Idle \/ w.op = work[r].op
                      /\ work' = [work EXCEPT ![r] = w]

LEMMA EndMovesOn ==
  ASSUME NEW r \in Requests, Ends(r)
  PROVE  MovesOn(r)
  BY IdleFits, IdleWork DEF MovesOn, Ends

LEMMA StageMovesOn ==
  ASSUME FieldTypes, NEW r \in Requests, NEW stage \in Stage, Moves(r, stage)
  PROVE  MovesOn(r)
<1> DEFINE w == [work[r] EXCEPT !.stage = stage]
<1>1. WorkOf(w)
  BY MoveFits
<1>2. work' = [work EXCEPT ![r] = w] /\ w.op = work[r].op
  BY DEF Moves, FieldTypes, TypeOK, TaskTypeOK, WorkType
<1> QED
  BY <1>1, <1>2 DEF MovesOn, WorkOf

LEMMA StepMovesOn ==
  ASSUME FieldTypes, NEW r \in Requests, Step(r)
  PROVE  MovesOn(r)
<1> USE DEF FieldTypes, TypeOK, TaskTypeOK
<1>1. CASE Ends(r)
  BY <1>1, EndMovesOn
<1>2. ASSUME NEW d \in Devices, CheckDevice(r, d) PROVE MovesOn(r)
  <2> DEFINE w == [work[r] EXCEPT !.stage = "locating", !.devices = @ \ {d}, !.now = {d}]
  <2>1. WorkOf(w)
    <3>1. work[r] \in WorkType /\ work[r].op = "install" /\ d \in work[r].devices
      BY <1>2 DEF CheckDevice, At
    <3>2. w \in WorkType /\ w.op = "install" /\ w.task = work[r].task /\ w.sale = work[r].sale
          /\ w.devices = work[r].devices \ {d} /\ w.now = {d}
      BY <3>1 DEF WorkType, Stage
    <3> HIDE DEF w
    <3> QED
      BY <3>1, <3>2 DEF WorkOf, WorkFits
  <2>2. work' = [work EXCEPT ![r] = w] /\ w.op = work[r].op
    BY <1>2 DEF CheckDevice, WorkType
  <2> QED
    BY <2>1, <2>2 DEF MovesOn, WorkOf
<1>3. CASE QueueDeviceJob(r)
  <2> DEFINE next == IF work[r].devices = {} THEN "closing" ELSE "device"
             w == [work[r] EXCEPT !.stage = next, !.now = {}]
  <2>1. WorkOf(w)
    <3>1. work[r] \in WorkType /\ work[r].op = "install" /\ next \in Stage
      BY <1>3 DEF QueueDeviceJob, At, Stage
    <3> HIDE DEF next
    <3>2. w \in WorkType /\ w.op = "install" /\ w.task = work[r].task /\ w.sale = work[r].sale
          /\ w.devices = work[r].devices /\ w.now = {}
      BY <3>1 DEF WorkType
    <3> HIDE DEF w
    <3> QED
      BY <3>1, <3>2 DEF WorkOf, WorkFits
  <2>2. work' = [work EXCEPT ![r] = w] /\ w.op = work[r].op
    BY <1>3 DEF QueueDeviceJob, WorkType
  <2> QED
    BY <2>1, <2>2 DEF MovesOn, WorkOf
<1>4. CASE LocateDevice(r)
  BY <1>4, StageMovesOn DEF LocateDevice, Stage
<1>5. CASE CloseInstall(r)
  BY <1>5, StageMovesOn, EndMovesOn DEF CloseInstall, Stage
<1> QED
  BY <1>1, <1>2, <1>3, <1>4, <1>5
  DEF Step, TaskStep, CreateTask, WriteAnswer, RefuseInstalled, CompleteInstall,
      WritePayment, WriteStatus, WriteSync, UndoSale

\* So of a step either no request takes part, or one begins, moves on or ends.
LEMMA WorkSteps ==
  ASSUME FieldTypes, [Next]_vars
  PROVE  \/ UNCHANGED work
         \/ \E r \in Requests : Begun(r) \/ MovesOn(r)
<1>1. ASSUME NEW r \in Requests, Abandon(r) PROVE MovesOn(r)
  BY <1>1, EndMovesOn DEF Abandon
<1> QED
  BY <1>1, RequestBegins, StepMovesOn
  DEF Next, vars, taskVars, CreateSale, AssignInstallerTask, RevertTasksAccepted, FromFile, Worker, Operator

LEMMA WorkKept == FieldTypes /\ [Next]_vars => work' \in [Requests -> WorkType] /\ WorkFits'
<1> SUFFICES ASSUME FieldTypes, [Next]_vars PROVE work' \in [Requests -> WorkType] /\ WorkFits'
  OBVIOUS
<1>1. \A s \in Sales : sale[s] # "none" => sale'[s] # "none"
  BY SaleMoves DEF SaleMovesOn
<1>2. CASE UNCHANGED work
  BY <1>1, <1>2, WorkStays
<1>3. ASSUME NEW r \in Requests, MovesOn(r) PROVE work' \in [Requests -> WorkType] /\ WorkFits'
  BY <1>1, <1>3, WorkChanges DEF MovesOn
<1>4. ASSUME NEW r \in Requests, Begun(r) PROVE work' \in [Requests -> WorkType] /\ WorkFits'
  BY <1>1, <1>4, WorkChanges DEF Begun, Begins
<1> QED
  BY <1>2, <1>3, <1>4, WorkSteps
\* The devices' part.
LEMMA DevicesStay ==
  ASSUME DeviceTypeOK, UNCHANGED deviceVars, SaleMovesOn
  PROVE  DeviceTypeOK'
  BY DEF DeviceTypeOK, SaleMovesOn, deviceVars, tokens, deviceQueue

LEMMA JobTypes ==
  ASSUME FieldTypes, SaleMovesOn, NEW j \in deviceJobs, ProcessDeviceJob(j)
  PROVE  DeviceTypeOK'
<1> USE DEF FieldTypes, TypeOK
<1>1. j.device \in Devices
  BY DEF DeviceTypeOK, DeviceJob
<1>2. deviceJobs' \subseteq DeviceJob /\ deadJobs' \subseteq DeviceJob
  BY RetryFits DEF ProcessDeviceJob, SkipDeviceJob, GenerationFails, GenerateUnpaid,
                   GeneratePaid, RecordFailure
<1>3. codes' \in [Devices -> Nat]
  BY <1>1, StoreFits DEF DeviceTypeOK, ProcessDeviceJob, SkipDeviceJob, GenerationFails,
                         GenerateUnpaid, GeneratePaid, tokens
<1>4. sent' \subseteq Devices /\ reported' \subseteq Devices
  BY <1>1 DEF DeviceTypeOK, ProcessDeviceJob, SkipDeviceJob, GenerationFails,
              GenerateUnpaid, GeneratePaid, RecordFailure, tokens
<1>5. mailFailures' \in 0 .. MaxMailFailures
  BY DeviceLimits DEF DeviceTypeOK, ProcessDeviceJob, SkipDeviceJob, GenerationFails,
                      GenerateUnpaid, GeneratePaid
<1>6. UNCHANGED <<sale, status, located, reruns>>
  BY DEF ProcessDeviceJob, SkipDeviceJob, GenerationFails, GenerateUnpaid, GeneratePaid, tokens
<1> QED
  BY <1>2, <1>3, <1>4, <1>5, <1>6 DEF DeviceTypeOK

LEMMA RerunTypes ==
  ASSUME FieldTypes, NEW d \in Devices, NEW s \in Sales, RerunGeneration(d, s)
  PROVE  DeviceTypeOK'
<1> USE DEF FieldTypes, TypeOK
<1>1. reruns' \in [Devices -> 0 .. MaxReruns]
  BY DeviceLimits DEF DeviceTypeOK, RerunGeneration
<1>2. codes' \in [Devices -> Nat]
  BY StoreFits DEF DeviceTypeOK, RerunGeneration
<1>3. sent' \subseteq Devices
  BY DEF DeviceTypeOK, RerunGeneration
<1>4. mailFailures' \in 0 .. MaxMailFailures
  BY DeviceLimits DEF DeviceTypeOK, RerunGeneration
<1> QED
  BY <1>1, <1>2, <1>3, <1>4 DEF DeviceTypeOK, RerunGeneration, deviceQueue

LEMMA FileTypes ==
  ASSUME FieldTypes, NEW d \in Devices, FromFile(d)
  PROVE  DeviceTypeOK'
<1>1. status' \in [Devices -> Status]
  BY DevicesAssumption
  DEF FieldTypes, TypeOK, DeviceTypeOK, FromFile, LocateFromFile, RestoreFromCsv, Status
<1> QED
  BY <1>1 DEF FieldTypes, TypeOK, DeviceTypeOK, FromFile, LocateFromFile, RestoreFromCsv, tokens, deviceQueue

LEMMA StepTypes ==
  ASSUME FieldTypes, SaleMovesOn, NEW r \in Requests, Step(r)
  PROVE  DeviceTypeOK'
<1> USE DEF FieldTypes, TypeOK
<1>1. CASE QueueDeviceJob(r)
  <2>1. work[r].sale \in Sales /\ work[r].now \subseteq Devices
    BY <1>1 DEF QueueDeviceJob, At, WorkFits, TaskTypeOK, WorkType
  <2>2. ASSUME NEW d \in work[r].now
        PROVE  [device |-> d, sale |-> work[r].sale, paid |-> sale[work[r].sale] = "paid",
                attempts |-> DeviceAttempts] \in DeviceJob
    <3>1. DeviceAttempts \in 1 .. DeviceAttempts
      BY DeviceLimits
    <3>2. (sale[work[r].sale] = "paid") \in BOOLEAN
      OBVIOUS
    <3> QED
      BY <2>1, <2>2, <3>1, <3>2 DEF DeviceJob
  <2>3. deviceJobs' \subseteq DeviceJob
    BY <1>1, <2>2 DEF QueueDeviceJob, DeviceTypeOK
  <2> QED
    BY <1>1, <2>3 DEF QueueDeviceJob, DeviceTypeOK, tokens
<1>2. CASE LocateDevice(r) \/ WritePayment(r) \/ WriteStatus(r) \/ WriteSync(r)
  <2>1. status' \in [Devices -> Status]
    <3>1. CASE WriteStatus(r)
      BY <3>1 DEF WriteStatus, At, WorkFits, DeviceTypeOK
    <3>2. CASE LocateDevice(r) \/ WritePayment(r) \/ WriteSync(r)
      BY <3>2 DEF LocateDevice, WritePayment, WriteSync, StatusAfterPayment, StatusAfterSync,
                  DeviceTypeOK, Status
    <3> QED
      BY <1>2, <3>1, <3>2
  <2>2. located' \subseteq Devices
    BY <1>2 DEF LocateDevice, WritePayment, WriteStatus, WriteSync, DeviceTypeOK, TaskTypeOK, WorkType
  <2> QED
    BY <1>2, <2>1, <2>2 DEF LocateDevice, WritePayment, WriteStatus, WriteSync, DeviceTypeOK, tokens, deviceQueue
<1>3. CASE UndoSale(r)
  BY <1>3 DEF UndoSale, DeviceTypeOK, SaleMovesOn, deviceQueue
<1> QED
  BY <1>1, <1>2, <1>3, DevicesStay
  DEF Step, TaskStep, CreateTask, WriteAnswer, RefuseInstalled, CheckDevice, CloseInstall, CompleteInstall

LEMMA DeviceTypesKept == FieldTypes /\ [Next]_vars => DeviceTypeOK'
<1> SUFFICES ASSUME FieldTypes, [Next]_vars PROVE DeviceTypeOK'
  OBVIOUS
<1>1. SaleMovesOn /\ DeviceTypeOK
  BY SaleMoves DEF FieldTypes, TypeOK
<1>2. CASE UNCHANGED deviceVars
  BY <1>1, <1>2, DevicesStay
<1>3. CASE Worker
  BY <1>1, <1>3, JobTypes DEF Worker
<1>4. CASE Operator
  BY <1>4, RerunTypes DEF Operator
<1> QED
  BY <1>1, <1>2, <1>3, <1>4, FileTypes, StepTypes, RequestBegins
  DEF Next, vars, Begun, CreateSale, Abandon, AssignInstallerTask, RevertTasksAccepted

-----------------------------------------------------------------------------
(* The tasks' part. *)

LEMMA TasksKept ==
  ASSUME FieldTypes, [Next]_vars
  PROVE  task' \in [Tasks -> TaskRow] /\ TasksFit' /\ failures' \in 0 .. MaxFailures
<1> USE DEF FieldTypes, TypeOK, TaskTypeOK
<1>1. SaleMovesOn
  BY SaleMoves
<1>2. failures' \in 0 .. MaxFailures
  <2>1. ASSUME NEW r \in Requests, Abandon(r) PROVE failures' \in 0 .. MaxFailures
    BY <2>1, TasksAssumption DEF Abandon
  <2>2. UNCHANGED failures \/ \E r \in Requests : Abandon(r)
    BY RequestBegins
    DEF Next, vars, taskVars, Begun, CreateSale, AssignInstallerTask, RevertTasksAccepted, FromFile, Worker,
        Operator, Step, TaskStep, CreateTask, WriteAnswer, RefuseInstalled, CheckDevice, LocateDevice,
        QueueDeviceJob, CloseInstall, CompleteInstall, WritePayment, WriteStatus, WriteSync, UndoSale
  <2> QED
    BY <2>1, <2>2
<1> DEFINE Fit == task' \in [Tasks -> TaskRow] /\ TasksFit'
<1>3. ASSUME UNCHANGED task PROVE Fit
  BY <1>1, <1>3 DEF TasksFit, SaleMovesOn
<1>4. ASSUME NEW s \in Sales, CreateSale(s), NEW t \in Tasks,
             task' = [task EXCEPT ![t] = [status |-> "PENDING", sale |-> s, installer |-> Nobody]]
      PROVE  Fit
  <2>1. [status |-> "PENDING", sale |-> s, installer |-> Nobody] \in TaskRow
    BY DEF TaskRow, TaskStatus
  <2>2. sale'[s] = "unpaid"
    BY <1>4 DEF CreateSale, DeviceTypeOK
  <2> QED
    BY <1>1, <1>4, <2>1, <2>2 DEF TasksFit, SaleMovesOn
<1>5. ASSUME NEW r \in Requests, NEW t \in Tasks, CreateTask(r, t) PROVE Fit
  <2>1. work[r].sale \in Sales /\ sale[work[r].sale] # "none"
    BY <1>5 DEF CreateTask, At, WorkFits
  <2>2. [status |-> "PENDING", sale |-> work[r].sale, installer |-> Nobody] \in TaskRow
    BY <2>1 DEF TaskRow, TaskStatus
  <2> QED
    BY <1>1, <1>5, <2>1, <2>2 DEF TasksFit, SaleMovesOn, CreateTask
<1>6. ASSUME NEW t \in Tasks, NEW i \in Installers, AssignInstallerTask(t, i) PROVE Fit
  BY <1>1, <1>6 DEF TasksFit, SaleMovesOn, AssignInstallerTask, TaskRow
<1>7. ASSUME NEW r \in Requests, NEW t \in Tasks, NEW st \in TaskStatus,
             task' = [task EXCEPT ![t].status = st]
      PROVE  Fit
  BY <1>1, <1>7 DEF TasksFit, SaleMovesOn, TaskRow
<1>8. ASSUME NEW r \in Requests, WriteAnswer(r) \/ CompleteInstall(r) PROVE Fit
  <2>1. work[r].task \in Tasks /\ Answer(work[r].op) \in TaskStatus /\ "COMPLETED" \in TaskStatus
    BY <1>8 DEF WriteAnswer, CompleteInstall, At, WorkFits, Answer, TaskStatus
  <2> QED
    BY <1>7, <1>8, <2>1 DEF WriteAnswer, CompleteInstall
<1>9. ASSUME RevertTasksAccepted PROVE Fit
  BY <1>1, <1>9 DEF TasksFit, SaleMovesOn, RevertTasksAccepted, TaskRow, TaskStatus
<1>10. ASSUME NEW r \in Requests, UndoSale(r) PROVE Fit
  <2>1. task' = Undone(r)
    BY <1>10 DEF UndoSale
  <2>2. task' \in [Tasks -> TaskRow]
    BY <2>1 DEF Undone, TaskRow, TaskStatus
  <2>3. \A t \in Tasks : task'[t].sale \in {task[t].sale, NoSale}
    BY <2>1 DEF Undone, TaskRow
  <2> QED
    BY <1>1, <2>2, <2>3, TasksAssumption DEF TasksFit, SaleMovesOn
<1>11. ASSUME NEW s \in Sales, CreateSale(s) PROVE Fit
  BY <1>3, <1>4, <1>11 DEF CreateSale
<1>12. ASSUME NEW r \in Requests, Step(r) PROVE Fit
  BY <1>3, <1>5, <1>8, <1>10, <1>12
  DEF Step, TaskStep, RefuseInstalled, CheckDevice, LocateDevice, QueueDeviceJob, CloseInstall,
      WritePayment, WriteStatus, WriteSync
<1> QED
  BY <1>2, <1>3, <1>6, <1>9, <1>11, <1>12, RequestBegins
  DEF Next, vars, taskVars, Begun, Abandon, FromFile, Worker, Operator

LEMMA TypesKept == FieldTypes /\ [Next]_vars => FieldTypes'
  BY DeviceTypesKept, TasksKept, WorkKept DEF FieldTypes, TypeOK, TaskTypeOK
-----------------------------------------------------------------------------
(* Requests that would disturb each other do not run together. *)

OneAtATime ==
  \A q, r \in Requests :
    /\ work[q].op \in TaskWriters /\ work[r].op \in TaskWriters => q = r
    /\ ~(work[q].op = "create" /\ work[r].op = "undo")
    /\ work[q].op = "status" /\ work[r].op \in StatusWriters => q = r

LEMMA IdleRunsNothing == Idle.op = "none"
  BY DEF Idle

LEMMA BeginningIsAlone ==
  ASSUME HandlersApart, NEW op \in Op, MayRun(op), NEW q \in Requests
  PROVE  /\ op \in TaskWriters => work[q].op \notin TaskWriters
         /\ op = "create" => work[q].op # "undo"
         /\ op = "undo" => work[q].op # "create"
         /\ op = "status" => work[q].op \notin StatusWriters
         /\ op \in StatusWriters => work[q].op # "status"
<1>1. work[q].op = "none" \/ {op, work[q].op} \in Overlap
  BY IdleRunsNothing DEF MayRun
<1>2. {op, work[q].op} = {work[q].op, op}
  OBVIOUS
<1> QED
  BY <1>1, <1>2 DEF HandlersApart, TaskWriters, StatusWriters

LEMMA AloneKept ==
  ASSUME HandlersApart, FieldTypes, OneAtATime, [Next]_vars
  PROVE  OneAtATime'
<1>1. CASE UNCHANGED work
  BY <1>1 DEF OneAtATime
<1>2. ASSUME NEW r \in Requests, MovesOn(r) PROVE OneAtATime'
  <2>1. \A q \in Requests : work'[q].op = work[q].op \/ work'[q].op = "none"
    BY <1>2, IdleRunsNothing DEF MovesOn, FieldTypes, TypeOK, TaskTypeOK
  <2> QED
    BY <2>1 DEF OneAtATime, TaskWriters, StatusWriters
<1>3. ASSUME NEW r \in Requests, Begun(r) PROVE OneAtATime'
  <2>1. PICK op \in Op, w \in WorkType : Begins(r, op, w)
    BY <1>3 DEF Begun
  <2>2. \A q \in Requests : work'[q].op = IF q = r THEN op ELSE work[q].op
    BY <2>1 DEF Begins, FieldTypes, TypeOK, TaskTypeOK, WorkType
  <2>3. MayRun(op)
    BY <2>1 DEF Begins
  <2>4. SUFFICES ASSUME NEW q1 \in Requests, NEW q2 \in Requests
        PROVE  /\ work'[q1].op \in TaskWriters /\ work'[q2].op \in TaskWriters => q1 = q2
               /\ ~(work'[q1].op = "create" /\ work'[q2].op = "undo")
               /\ work'[q1].op = "status" /\ work'[q2].op \in StatusWriters => q1 = q2
    BY DEF OneAtATime
  <2>5. CASE q1 # r /\ q2 # r
    BY <2>2, <2>5 DEF OneAtATime
  <2>6. CASE q1 = r /\ q2 # r
    BY <2>2, <2>3, <2>6, BeginningIsAlone
  <2>7. CASE q1 # r /\ q2 = r
    BY <2>2, <2>3, <2>7, BeginningIsAlone
  <2>8. CASE q1 = r /\ q2 = r
    BY <2>2, <2>8
  <2> QED
    BY <2>5, <2>6, <2>7, <2>8
<1> QED
  BY <1>1, <1>2, <1>3, WorkSteps

-----------------------------------------------------------------------------
(* What a request has read of a task or a device is so when it writes. *)

TaskAsRead(w) ==
  /\ w.op \in {"accept", "reject", "complete"} \/ (w.op = "install" /\ w.stage = "completing")
       => task[w.task].status \in {"PENDING", "ACCEPTED"}
  /\ w.op = "undo" => TasksOf(w.sale) \subseteq w.tasks

StatusAsRead(w) ==
  w.op = "status" => \A d \in w.devices : status[d] = "installed" => w.to = "installed"

StillAsRead == \A r \in Requests : TaskAsRead(work[r]) /\ StatusAsRead(work[r])

OpenTasks ==
  \A t \in Tasks : task[t].status \in {"PENDING", "ACCEPTED"}
    => task[t].sale # NoSale /\ Live(task[t].sale)

TaskIInv == FieldTypes /\ OneAtATime /\ StillAsRead /\ OpenTasks

LEMMA TaskIInvAtFirst == Init => TaskIInv
<1> SUFFICES ASSUME Init PROVE TaskIInv
  OBVIOUS
<1>1. \A r \in Requests : work[r].op = "none" /\ work[r].stage = "idle"
  BY DEF Init, TaskInit, Idle
<1>2. \A t \in Tasks : task[t].status = "none"
  BY DEF Init, TaskInit, NoRow
<1> QED
  BY <1>1, <1>2, TypesAtFirst
  DEF TaskIInv, OneAtATime, StillAsRead, TaskAsRead, StatusAsRead, OpenTasks, TaskWriters, StatusWriters
SameTasks == \A t \in Tasks : task'[t].status = task[t].status /\ task'[t].sale = task[t].sale

LEMMA SameTasksRead ==
  ASSUME WorkFits', SameTasks, NEW q \in Requests, TaskAsRead(work'[q])
  PROVE  TaskAsRead(work[q])'
<1>1. work'[q].op \in {"accept", "reject", "complete", "install"} => work'[q].task \in Tasks
  BY DEF WorkFits
<1> QED
  BY <1>1 DEF SameTasks, TaskAsRead, TasksOf

\* What a beginning request has just read is so.
LEMMA BeginReads ==
  ASSUME FieldTypes, NEW r \in Requests, Request(r)
  PROVE  TaskAsRead(work'[r]) /\ StatusAsRead(work'[r])
<1> USE DEF FieldTypes, TypeOK, TaskTypeOK, Begins, TaskAsRead, StatusAsRead, WorkType
<1>1. ASSUME NEW s \in Sales, BeginCreateTask(r, s) PROVE work'[r].op = "create"
  BY <1>1 DEF BeginCreateTask, Idle
<1>2. ASSUME NEW op \in {"accept", "reject"}, NEW t \in Tasks, NEW i \in Installers,
             BeginAnswer(r, op, t, i)
      PROVE  work'[r].op = op /\ work'[r].task = t /\ task[t].status = "PENDING"
  BY <1>2 DEF BeginAnswer, Answerable, Idle
<1>3. ASSUME NEW t \in Tasks, NEW i \in Installers, BeginComplete(r, t, i)
      PROVE  work'[r].op = "complete" /\ work'[r].task = t /\ task[t].status = "ACCEPTED"
  BY <1>3 DEF BeginComplete, Completable, Idle
<1>4. ASSUME NEW t \in Tasks, NEW i \in Installers, BeginInstall(r, t, i)
      PROVE  work'[r].op = "install" /\ work'[r].stage = "device"
  BY <1>4 DEF BeginInstall, Idle
<1>5. ASSUME NEW s \in Sales, BeginPayment(r, s) PROVE work'[r].op = "mark"
  BY <1>5 DEF BeginPayment, Idle
<1>6. ASSUME NEW s \in Sales, BeginUndo(r, s)
      PROVE  work'[r].op = "undo" /\ work'[r].sale = s /\ work'[r].tasks = TasksOf(s)
  BY <1>6 DEF BeginUndo, Idle
<1>7. ASSUME NEW d \in Devices, NEW to \in Status, BeginStatus(r, d, to)
      PROVE  work'[r].op = "status" /\ work'[r].devices = {d} /\ status[d] # "installed"
  BY <1>7 DEF BeginStatus, Idle, TransitionAllowed
<1>8. CASE BeginSync(r)
  <2>1. work'[r].op = "sync"
    BY <1>8 DEF BeginSync, Idle
  <2> QED
    BY <2>1
<1> QED
  BY <1>1, <1>2, <1>3, <1>4, <1>5, <1>6, <1>7, <1>8 DEF Request, TaskRequest

\* A request that moves on or ends relies on nothing new, but for the status
\* it finds before it completes the task.
LEMMA MovesRead ==
  ASSUME FieldTypes, NEW r \in Requests, Step(r) \/ Abandon(r), TaskAsRead(work[r])
  PROVE  TaskAsRead(work'[r])
<1> USE DEF FieldTypes, TypeOK, TaskTypeOK, TaskAsRead, WorkType
<1>1. CASE Ends(r)
  BY <1>1, IdleRunsNothing DEF Ends
<1>2. CASE \E d \in Devices : CheckDevice(r, d)
  <2>1. work'[r].op = "install" /\ work'[r].stage = "locating"
    BY <1>2 DEF CheckDevice, At
  <2> QED
    BY <2>1
<1>3. CASE LocateDevice(r)
  <2>1. work'[r].op = "install" /\ work'[r].stage = "queueing"
    BY <1>3 DEF LocateDevice, Moves, At
  <2> QED
    BY <2>1
<1>4. CASE QueueDeviceJob(r)
  <2>1. work'[r].op = "install" /\ work'[r].stage \in {"device", "closing"}
    BY <1>4 DEF QueueDeviceJob, At
  <2> QED
    BY <2>1
<1>5. CASE CloseInstall(r) /\ ~Ends(r)
  <2>1. /\ work'[r].op = "install" /\ work'[r].task = work[r].task
        /\ task[work[r].task].status = "ACCEPTED"
    BY <1>5 DEF CloseInstall, Moves, At
  <2> QED
    BY <2>1
<1> QED
  BY <1>1, <1>2, <1>3, <1>4, <1>5
  DEF Step, TaskStep, CreateTask, WriteAnswer, RefuseInstalled, CompleteInstall, Abandon,
      WritePayment, WriteStatus, WriteSync, UndoSale
LEMMA OthersStay ==
  ASSUME NEW r \in Requests, MovesOn(r) \/ Begun(r), NEW q \in Requests, q # r, FieldTypes
  PROVE  work'[q] = work[q]
  BY DEF MovesOn, Begun, Begins, FieldTypes, TypeOK, TaskTypeOK

\* A task that has just been made was none's before.
LEMMA NewTaskRead ==
  ASSUME FieldTypes, NEW t \in Tasks, task[t].status = "none", NEW row,
         task' = [task EXCEPT ![t] = row],
         NEW q \in Requests, TaskAsRead(work[q]), UNCHANGED work[q],
         work[q].op = "undo" => work[q].sale # row.sale
  PROVE  TaskAsRead(work[q])'
<1>1. ASSUME work[q].op \in {"accept", "reject", "complete", "install"}, task[work[q].task].status # "none"
      PROVE  task'[work[q].task] = task[work[q].task]
  BY <1>1 DEF FieldTypes, TypeOK, TaskTypeOK, WorkFits
<1>2. ASSUME work[q].op = "undo" PROVE TasksOf(work[q].sale)' \subseteq work[q].tasks
  <2>1. ASSUME NEW u \in Tasks, task'[u].sale = work[q].sale PROVE task[u].sale = work[q].sale
    BY <1>2, <2>1 DEF FieldTypes, TypeOK, TaskTypeOK
  <2> QED
    BY <1>2, <2>1 DEF TaskAsRead, TasksOf
<1> QED
  BY <1>1, <1>2 DEF TaskAsRead

LEMMA TaskReadsKept ==
  ASSUME HandlersApart, TaskIInv, [Next]_vars, NEW q \in Requests
  PROVE  TaskAsRead(work[q])'
<1> USE DEF TaskIInv
<1>1. WorkFits' /\ TaskAsRead(work[q])
  BY WorkKept DEF StillAsRead
<1>2. TaskAsRead(work'[q]) \/ \E r \in Requests : Step(r) /\ r # q
  <2>1. ASSUME NEW r \in Requests, Request(r) PROVE TaskAsRead(work'[q])
    BY <1>1, <2>1, BeginReads, RequestBegins, OthersStay
  <2>2. ASSUME NEW r \in Requests, Step(r) \/ Abandon(r), r = q PROVE TaskAsRead(work'[q])
    BY <1>1, <2>2, MovesRead
  <2>3. ASSUME NEW r \in Requests, Abandon(r), r # q PROVE TaskAsRead(work'[q])
    <3>1. MovesOn(r)
      BY <2>3, EndMovesOn DEF Abandon
    <3> QED
      BY <1>1, <2>3, <3>1, OthersStay
  <2>4. UNCHANGED work => TaskAsRead(work'[q])
    BY <1>1
  <2> QED
    BY <2>1, <2>2, <2>3, <2>4
    DEF Next, vars, taskVars, CreateSale, AssignInstallerTask, RevertTasksAccepted, FromFile, Worker, Operator
<1>3. TaskAsRead(work'[q])
  <2>1. ASSUME NEW r \in Requests, Step(r), r # q PROVE TaskAsRead(work'[q])
    BY <1>1, <2>1, StepMovesOn, OthersStay
  <2> QED
    BY <1>2, <2>1
<1>4. CASE SameTasks
  BY <1>1, <1>3, <1>4, SameTasksRead
<1>5. CASE RevertTasksAccepted
  <2>1. \A t \in Tasks : /\ task'[t].sale = task[t].sale
                         /\ task[t].status \in {"PENDING", "ACCEPTED"}
                              => task'[t].status \in {"PENDING", "ACCEPTED"}
    BY <1>5 DEF RevertTasksAccepted, FieldTypes, TypeOK, TaskTypeOK, TaskRow
  <2>2. work'[q] = work[q]
    BY <1>5 DEF RevertTasksAccepted
  <2>3. work[q].op \in {"accept", "reject", "complete", "install"} => work[q].task \in Tasks
    BY DEF FieldTypes, WorkFits
  <2> QED
    BY <1>1, <2>1, <2>2, <2>3 DEF TaskAsRead, TasksOf
<1>6. ASSUME NEW r \in Requests, Step(r), WriteAnswer(r) \/ CompleteInstall(r) \/ UndoSale(r)
      PROVE  TaskAsRead(work[q])'
  <2>1. work[r].op \in TaskWriters /\ Ends(r)
    BY <1>6 DEF WriteAnswer, CompleteInstall, UndoSale, At, TaskWriters
  <2>2. work'[q].op \notin TaskWriters
    <3>1. CASE q = r
      BY <2>1, <3>1, IdleRunsNothing DEF Ends, FieldTypes, TypeOK, TaskTypeOK, TaskWriters
    <3>2. CASE q # r
      BY <1>6, <2>1, <3>2, StepMovesOn, OthersStay DEF OneAtATime
    <3> QED
      BY <3>1, <3>2
  <2> QED
    BY <2>2 DEF TaskAsRead, TaskWriters
<1>7. ASSUME NEW s \in Sales, CreateSale(s) PROVE TaskAsRead(work[q])'
  <2>1. CASE UNCHANGED task
    BY <1>4, <2>1 DEF SameTasks
  <2>2. ASSUME NEW t \in Tasks, task[t].status = "none",
               task' = [task EXCEPT ![t] = [status |-> "PENDING", sale |-> s, installer |-> Nobody]]
        PROVE  TaskAsRead(work[q])'
    <3>1. UNCHANGED work[q] /\ (work[q].op = "undo" => work[q].sale # s)
      BY <1>7 DEF CreateSale, FieldTypes, WorkFits
    <3> DEFINE row == [status |-> "PENDING", sale |-> s, installer |-> Nobody]
    <3>2. row.sale = s
      OBVIOUS
    <3>3. task' = [task EXCEPT ![t] = row]
      BY <2>2
    <3> HIDE DEF row
    <3> QED
      BY <1>1, <2>2, <3>1, <3>2, <3>3, NewTaskRead
  <2> QED
    BY <1>7, <2>1, <2>2 DEF CreateSale
<1>8. ASSUME NEW r \in Requests, NEW t \in Tasks, CreateTask(r, t), Step(r) PROVE TaskAsRead(work[q])'
  <2>1. CASE q = r
    <3>1. work'[q].op = "none"
      BY <1>8, <2>1, IdleRunsNothing DEF CreateTask, Ends, FieldTypes, TypeOK, TaskTypeOK
    <3> QED
      BY <3>1 DEF TaskAsRead
  <2>2. CASE q # r
    <3>1. UNCHANGED work[q]
      BY <1>8, <2>2, StepMovesOn, OthersStay
    <3>2. work[q].op # "undo"
      BY <1>8 DEF CreateTask, At, OneAtATime
    <3> QED
      BY <1>1, <1>8, <3>1, <3>2, NewTaskRead DEF CreateTask
  <2> QED
    BY <2>1, <2>2
<1>9. ASSUME NEW r \in Requests, Step(r) PROVE TaskAsRead(work[q])'
  <2>1. UNCHANGED task => SameTasks
    BY DEF SameTasks
  <2> QED
    BY <1>4, <1>6, <1>8, <1>9, <2>1
    DEF Step, TaskStep, RefuseInstalled, CheckDevice, LocateDevice, QueueDeviceJob, CloseInstall,
        WritePayment, WriteStatus, WriteSync
<1>10. ASSUME NEW t \in Tasks, NEW i \in Installers, AssignInstallerTask(t, i) PROVE SameTasks
  BY <1>10 DEF AssignInstallerTask, SameTasks, FieldTypes, TypeOK, TaskTypeOK, TaskRow
<1>11. UNCHANGED task => SameTasks
  BY DEF SameTasks
<1> QED
  BY <1>4, <1>5, <1>7, <1>9, <1>10, <1>11, RequestBegins
  DEF Next, vars, taskVars, Begun, Abandon, FromFile, Worker, Operator
LEMMA EditEnds ==
  ASSUME FieldTypes, NEW r \in Requests, Step(r) \/ Abandon(r)
  PROVE  work'[r].op # "status"
<1> USE DEF FieldTypes, TypeOK, TaskTypeOK
<1>1. CASE Ends(r)
  BY <1>1, IdleRunsNothing DEF Ends
<1>2. CASE work[r].op = "install"
  BY <1>2, StepMovesOn, EndMovesOn, IdleRunsNothing DEF MovesOn, Abandon
<1> QED
  BY <1>1, <1>2
  DEF Step, TaskStep, CreateTask, WriteAnswer, RefuseInstalled, CheckDevice, LocateDevice, QueueDeviceJob,
      CloseInstall, CompleteInstall, Abandon, WritePayment, WriteStatus, WriteSync, UndoSale, At

LEMMA StatusReadsKept ==
  ASSUME HandlersApart, TaskIInv, [Next]_vars, NEW q \in Requests
  PROVE  StatusAsRead(work[q])'
<1> USE DEF TaskIInv
<1>1. StatusAsRead(work[q])
  BY DEF StillAsRead
<1>2. ASSUME NEW r \in Requests, Step(r) PROVE StatusAsRead(work[q])'
  <2>1. CASE q = r
    BY <1>2, <2>1, EditEnds DEF StatusAsRead
  <2>2. CASE q # r /\ work[r].op \in StatusWriters
    BY <1>2, <2>2, StepMovesOn, OthersStay DEF StatusAsRead, OneAtATime
  <2>3. CASE q # r /\ work[r].op \notin StatusWriters
    <3>1. UNCHANGED status
      BY <1>2, <2>3
      DEF Step, TaskStep, CreateTask, WriteAnswer, RefuseInstalled, CheckDevice, LocateDevice, QueueDeviceJob,
          CloseInstall, CompleteInstall, WritePayment, WriteStatus, WriteSync, UndoSale, At, StatusWriters,
          deviceVars
    <3> QED
      BY <1>1, <1>2, <2>3, <3>1, StepMovesOn, OthersStay DEF StatusAsRead
  <2> QED
    BY <2>1, <2>2, <2>3
<1>3. ASSUME NEW r \in Requests, Request(r) PROVE StatusAsRead(work[q])'
  <2>1. UNCHANGED status /\ Begun(r)
    BY <1>3, RequestBegins DEF Begun, deviceVars
  <2>2. StatusAsRead(work'[q])
    BY <1>1, <1>3, <2>1, BeginReads, OthersStay
  <2> QED
    BY <2>1, <2>2 DEF StatusAsRead
<1>4. ASSUME NEW r \in Requests, Abandon(r) PROVE StatusAsRead(work[q])'
  <2>1. UNCHANGED status /\ MovesOn(r)
    BY <1>4, EndMovesOn DEF Abandon, deviceVars
  <2>2. CASE q = r
    BY <1>4, <2>2, EditEnds DEF StatusAsRead
  <2>3. CASE q # r
    BY <1>1, <2>1, <2>3, OthersStay DEF StatusAsRead
  <2> QED
    BY <2>2, <2>3
<1>5. ASSUME NEW d \in Devices, FromFile(d) PROVE StatusAsRead(work[q])'
  <2>1. work[q].op # "status" /\ UNCHANGED work
    BY <1>5, BeginningIsAlone DEF FromFile, StatusWriters, Op
  <2> QED
    BY <2>1 DEF StatusAsRead
<1>6. CASE UNCHANGED <<status, work>>
  BY <1>1, <1>6 DEF StatusAsRead
<1>7. Worker \/ Operator => UNCHANGED <<status, work>>
  BY DEF Worker, Operator, ProcessDeviceJob, SkipDeviceJob, GenerationFails, GenerateUnpaid, GeneratePaid,
         RerunGeneration
<1> QED
  BY <1>2, <1>3, <1>4, <1>5, <1>6, <1>7
  DEF Next, vars, taskVars, deviceVars, CreateSale, AssignInstallerTask, RevertTasksAccepted

\* An open task keeps its sale.
LEMMA OpenTasksKept ==
  ASSUME TaskIInv, [Next]_vars
  PROVE  OpenTasks'
<1> USE DEF TaskIInv, FieldTypes, TypeOK
<1>1. task \in [Tasks -> TaskRow] /\ sale \in [Sales -> {"none", "unpaid", "paid", "undone"}]
  BY DEF TaskTypeOK, DeviceTypeOK
<1> DEFINE LiveNext(s) == sale'[s] \in {"unpaid", "paid"}
           SalesStay == \A s \in Sales : Live(s) => LiveNext(s)
<1>2. ASSUME SalesStay, NEW t \in Tasks, NEW row \in TaskRow, task' = [task EXCEPT ![t] = row],
             row.status \in {"PENDING", "ACCEPTED"} => row.sale \in Sales /\ LiveNext(row.sale)
      PROVE  OpenTasks'
  <2>1. ASSUME NEW u \in Tasks, task'[u].status \in {"PENDING", "ACCEPTED"}
        PROVE  task'[u].sale # NoSale /\ LiveNext(task'[u].sale)
    <3>1. CASE u = t
      BY <1>1, <1>2, <2>1, <3>1, TasksAssumption
    <3>2. CASE u # t
      <4>1. task'[u] = task[u] /\ task[u].sale \in Sales \cup {NoSale}
        BY <1>1, <1>2, <3>2 DEF TaskRow
      <4> QED
        BY <1>2, <2>1, <4>1 DEF OpenTasks
    <3> QED
      BY <3>1, <3>2
  <2> QED
    BY <2>1 DEF OpenTasks, Live
<1>3. ASSUME SalesStay,
             \A t \in Tasks : /\ task'[t].sale = task[t].sale
                              /\ task'[t].status \in {"PENDING", "ACCEPTED"}
                                   => task[t].status \in {"PENDING", "ACCEPTED"}
      PROVE  OpenTasks'
  <2>1. \A t \in Tasks : task[t].sale \in Sales \cup {NoSale}
    BY <1>1 DEF TaskRow
  <2> QED
    BY <1>3, <2>1 DEF OpenTasks, Live
<1>4. SalesStay \/ \E r \in Requests : UndoSale(r)
  <2>1. UNCHANGED sale => SalesStay
    BY DEF Live
  <2>2. ASSUME NEW s \in Sales, CreateSale(s) PROVE SalesStay
    BY <1>1, <2>2 DEF CreateSale, Live
  <2>3. ASSUME NEW r \in Requests, NEW s \in Sales, BeginPayment(r, s) PROVE SalesStay
    BY <1>1, <2>1, <2>3 DEF BeginPayment, Live
  <2>4. ASSUME NEW r \in Requests, Request(r) PROVE SalesStay
    BY <2>1, <2>3, <2>4
    DEF Request, TaskRequest, BeginCreateTask, BeginAnswer, BeginComplete, BeginInstall, BeginUndo,
        BeginStatus, BeginSync
  <2>5. ASSUME NEW r \in Requests, Step(r), ~UndoSale(r) PROVE SalesStay
    BY <2>1, <2>5
    DEF Step, TaskStep, CreateTask, WriteAnswer, RefuseInstalled, CheckDevice, LocateDevice,
        QueueDeviceJob, CloseInstall, CompleteInstall, WritePayment, WriteStatus, WriteSync
  <2> HIDE DEF SalesStay
  <2> QED
    BY <2>1, <2>2, <2>4, <2>5
    DEF Next, vars, Abandon, AssignInstallerTask, RevertTasksAccepted, FromFile, Worker, Operator, RerunGeneration
<1>5. ASSUME SalesStay, UNCHANGED task PROVE OpenTasks'
  BY <1>3, <1>5
<1>6. ASSUME SalesStay, NEW s \in Sales, CreateSale(s) PROVE OpenTasks'
  <2>1. LiveNext(s)
    BY <1>1, <1>6 DEF CreateSale, Live
  <2>2. ASSUME NEW t \in Tasks,
               task' = [task EXCEPT ![t] = [status |-> "PENDING", sale |-> s, installer |-> Nobody]]
        PROVE  OpenTasks'
    <3> DEFINE row == [status |-> "PENDING", sale |-> s, installer |-> Nobody]
    <3>1. row \in TaskRow /\ row.sale = s
      BY DEF TaskRow, TaskStatus
    <3>2. task' = [task EXCEPT ![t] = row]
      BY <2>2
    <3> HIDE DEF row, SalesStay
    <3> QED
      BY <1>2, <1>6, <2>1, <3>1, <3>2
  <2> QED
    BY <1>5, <1>6, <2>2 DEF CreateSale
<1>7. ASSUME SalesStay, NEW r \in Requests, NEW t \in Tasks, CreateTask(r, t) PROVE OpenTasks'
  <2> DEFINE row == [status |-> "PENDING", sale |-> work[r].sale, installer |-> Nobody]
  <2>1. work[r].sale \in Sales /\ Live(work[r].sale)
    BY <1>7 DEF CreateTask, At, WorkFits
  <2>2. row \in TaskRow /\ row.sale = work[r].sale
    BY <2>1 DEF TaskRow, TaskStatus
  <2>3. task' = [task EXCEPT ![t] = row] /\ UNCHANGED sale
    BY <1>7 DEF CreateTask
  <2>4. LiveNext(work[r].sale)
    BY <2>1, <2>3 DEF Live
  <2> HIDE DEF row, SalesStay
  <2> QED
    BY <1>2, <1>7, <2>1, <2>2, <2>3, <2>4
<1>8. ASSUME SalesStay, NEW r \in Requests, WriteAnswer(r) \/ CompleteInstall(r) PROVE OpenTasks'
  <2>1. work[r].task \in Tasks /\ TaskAsRead(work[r])
    BY <1>8 DEF WriteAnswer, CompleteInstall, At, WorkFits, StillAsRead
  <2>2. task[work[r].task].status \in {"PENDING", "ACCEPTED"}
    BY <1>8, <2>1 DEF WriteAnswer, CompleteInstall, At, TaskAsRead
  <2>3. \A t \in Tasks : /\ task'[t].sale = task[t].sale
                         /\ t # work[r].task => task'[t].status = task[t].status
    BY <1>1, <1>8, <2>1 DEF WriteAnswer, CompleteInstall, TaskRow
  <2> QED
    BY <1>3, <1>8, <2>2, <2>3
<1>9. ASSUME SalesStay, RevertTasksAccepted PROVE OpenTasks'
  BY <1>1, <1>3, <1>9 DEF RevertTasksAccepted, TaskRow
<1>10. ASSUME SalesStay, NEW t \in Tasks, NEW i \in Installers, AssignInstallerTask(t, i) PROVE OpenTasks'
  BY <1>1, <1>3, <1>10 DEF AssignInstallerTask, TaskRow
<1>11. ASSUME NEW r \in Requests, UndoSale(r) PROVE OpenTasks'
  <2>1. /\ work[r].sale \in Sales /\ TasksOf(work[r].sale) \subseteq work[r].tasks
        /\ task' = Undone(r) /\ sale' = [sale EXCEPT ![work[r].sale] = "undone"]
    BY <1>11 DEF UndoSale, At, WorkFits, StillAsRead, TaskAsRead
  <2>2. ASSUME NEW t \in Tasks, task'[t].status \in {"PENDING", "ACCEPTED"}
        PROVE  task'[t].sale # NoSale /\ LiveNext(task'[t].sale)
    <3>1. t \notin work[r].tasks
      BY <1>1, <2>1, <2>2 DEF Undone, TaskRow
    <3>2. task[t].sale # work[r].sale
      BY <2>1, <3>1 DEF TasksOf
    <3>3. task'[t].sale = task[t].sale /\ task'[t].status = task[t].status
      BY <1>1, <2>1, <3>1, <3>2 DEF Undone, TaskRow
    <3>4. task[t].sale \in Sales /\ Live(task[t].sale)
      BY <1>1, <2>2, <3>3 DEF OpenTasks, TaskRow
    <3> QED
      BY <1>1, <2>1, <3>2, <3>3, <3>4, TasksAssumption DEF Live
  <2> QED
    BY <2>2 DEF OpenTasks, Live
<1> HIDE DEF SalesStay
<1>12. ASSUME SalesStay, NEW r \in Requests, Step(r) PROVE OpenTasks'
  BY <1>5, <1>7, <1>8, <1>11, <1>12
  DEF Step, TaskStep, RefuseInstalled, CheckDevice, LocateDevice, QueueDeviceJob, CloseInstall,
      WritePayment, WriteStatus, WriteSync
<1> QED
  BY <1>4, <1>5, <1>6, <1>9, <1>10, <1>11, <1>12, RequestBegins
  DEF Next, vars, taskVars, Begun, Abandon, FromFile, Worker, Operator

LEMMA TaskIInvKept == HandlersApart /\ TaskIInv /\ [Next]_vars => TaskIInv'
  BY TypesKept, AloneKept, TaskReadsKept, StatusReadsKept, OpenTasksKept DEF TaskIInv, StillAsRead

\* What an installer can still work on belongs to a sale that exists, if what
\* writes tasks runs apart: undoSaleCreation and the installers' answers write
\* by the id of a task they have read before.
THEOREM OpenTasksHaveSales ==
  ASSUME HandlersApart
  PROVE  Spec => []OpenTaskHasSale
<1>1. TaskIInv => OpenTaskHasSale
  BY DEF TaskIInv, FieldTypes, OpenTasks, OpenTaskHasSale
<1> QED
  BY <1>1, TaskIInvAtFirst, TaskIInvKept, HandlersApart, PTL DEF Spec
-----------------------------------------------------------------------------
(* Nothing goes back. *)

StatusGoesOn == \A d \in Devices : status[d] = "installed" => status'[d] = "installed"
TasksGoOn ==
  \A t \in Tasks : task[t].status \in {"REJECTED", "COMPLETED", "CANCELLED"}
    => task'[t].status \in {task[t].status, "CANCELLED"}

LEMMA StatusForward ==
  ASSUME FilesForward, TaskIInv, [Next]_vars
  PROVE  StatusGoesOn
<1> USE DEF TaskIInv, FieldTypes, TypeOK, DeviceTypeOK
<1>1. UNCHANGED status => StatusGoesOn
  BY DEF StatusGoesOn
<1>2. ASSUME NEW r \in Requests, WriteStatus(r) PROVE StatusGoesOn
  <2>1. StatusAsRead(work[r]) /\ work[r].op = "status"
    BY <1>2 DEF WriteStatus, At, StillAsRead
  <2> QED
    BY <1>2, <2>1 DEF WriteStatus, StatusAsRead, StatusGoesOn
<1>3. ASSUME NEW r \in Requests, Step(r) PROVE StatusGoesOn
  <2>1. LocateDevice(r) \/ WritePayment(r) \/ WriteSync(r) => StatusGoesOn
    BY DEF LocateDevice, WritePayment, WriteSync, StatusAfterPayment, StatusAfterSync, StatusGoesOn
  <2> QED
    BY <1>1, <1>2, <1>3, <2>1
    DEF Step, TaskStep, CreateTask, WriteAnswer, RefuseInstalled, CheckDevice, QueueDeviceJob, CloseInstall,
        CompleteInstall, UndoSale, deviceVars
<1>4. ASSUME NEW d \in Devices, FromFile(d) PROVE StatusGoesOn
  BY <1>4 DEF FromFile, LocateFromFile, RestoreFromCsv, FilesForward, StatusGoesOn
<1>5. Worker \/ Operator => UNCHANGED status
  BY DEF Worker, Operator, ProcessDeviceJob, SkipDeviceJob, GenerationFails, GenerateUnpaid, GeneratePaid,
         RerunGeneration
<1> QED
  BY <1>1, <1>3, <1>4, <1>5, RequestBegins
  DEF Next, vars, deviceVars, Begun, CreateSale, Abandon, AssignInstallerTask, RevertTasksAccepted

LEMMA TasksForward ==
  ASSUME TaskIInv, [Next]_vars
  PROVE  TasksGoOn
<1> USE DEF TaskIInv, FieldTypes, TypeOK, TaskTypeOK
<1>1. SameTasks => TasksGoOn
  BY DEF TasksGoOn, SameTasks
<1>2. UNCHANGED task => TasksGoOn
  BY DEF TasksGoOn
<1>3. ASSUME NEW s \in Sales, CreateSale(s) PROVE TasksGoOn
  BY <1>2, <1>3 DEF CreateSale, TasksGoOn
<1>4. ASSUME NEW r \in Requests, NEW t \in Tasks, CreateTask(r, t) PROVE TasksGoOn
  BY <1>4 DEF CreateTask, TasksGoOn
<1>5. ASSUME NEW r \in Requests, WriteAnswer(r) \/ CompleteInstall(r) PROVE TasksGoOn
  <2>1. work[r].task \in Tasks /\ task[work[r].task].status \in {"PENDING", "ACCEPTED"}
    BY <1>5 DEF WriteAnswer, CompleteInstall, At, WorkFits, StillAsRead, TaskAsRead
  <2> QED
    BY <1>5, <2>1 DEF WriteAnswer, CompleteInstall, TasksGoOn
<1>6. ASSUME NEW r \in Requests, UndoSale(r) PROVE TasksGoOn
  BY <1>6 DEF UndoSale, Undone, TasksGoOn, TaskRow
<1>7. RevertTasksAccepted => TasksGoOn
  BY DEF RevertTasksAccepted, TasksGoOn
<1>8. ASSUME NEW t \in Tasks, NEW i \in Installers, AssignInstallerTask(t, i) PROVE TasksGoOn
  BY <1>8 DEF AssignInstallerTask, TasksGoOn, TaskRow
<1>9. ASSUME NEW r \in Requests, Step(r) PROVE TasksGoOn
  BY <1>2, <1>4, <1>5, <1>6, <1>9
  DEF Step, TaskStep, RefuseInstalled, CheckDevice, LocateDevice, QueueDeviceJob, CloseInstall,
      WritePayment, WriteStatus, WriteSync
<1> QED
  BY <1>2, <1>3, <1>7, <1>8, <1>9, RequestBegins
  DEF Next, vars, taskVars, Begun, Abandon, FromFile, Worker, Operator

\* A device once installed stays so and a task once ended stays ended, if what
\* writes them runs apart and no restoration file says otherwise: the edit of
\* updateDeviceStatus is checked against a status read before it is written.
THEOREM FieldNeverGoesBack ==
  ASSUME HandlersApart, FilesForward
  PROVE  Spec => NothingGoesBack
<1>1. TaskIInv /\ [Next]_vars =>
        [/\ \A d \in Devices : status[d] = "installed" => status'[d] = "installed"
         /\ \A t \in Tasks : task[t].status \in {"REJECTED", "COMPLETED", "CANCELLED"}
              => task'[t].status \in {task[t].status, "CANCELLED"}]_vars
  BY FilesForward, StatusForward, TasksForward DEF StatusGoesOn, TasksGoOn
<1>2. Spec => []TaskIInv
  BY TaskIInvAtFirst, TaskIInvKept, HandlersApart, PTL DEF Spec
<1> QED
  BY <1>1, <1>2, PTL DEF Spec, NothingGoesBack
-----------------------------------------------------------------------------
(* One code per installation: until its job is done, a device has no code    *)
(* but those its reruns and the failed mails account for.                    *)

Reversed(d) == \E s \in Sales : sale[s] = "undone" /\ d \in DevicesOf[s]
Answered(d) == codes[d] <= 1 + reruns[d] + mailFailures \/ Reversed(d)
Owed(d) == codes[d] <= reruns[d] + mailFailures \/ Reversed(d)

JobFit(j) ==
  /\ j.device \in located /\ Owed(j.device)
  /\ j.device \in DevicesOf[j.sale] /\ sale[j.sale] # "none"

\* A device being located has no job yet; one whose job is about to be queued
\* neither.
InstallFit(w) ==
  w.op = "install" =>
    /\ w.stage = "locating" => w.now \cap located = {}
    /\ w.stage = "queueing" => \A d \in w.now : /\ d \in located /\ Owed(d)
                                                /\ \A j \in deviceJobs : j.device # d

CodeIInv ==
  /\ TaskIInv
  /\ \A d \in Devices : Answered(d) /\ (d \notin located => Owed(d))
  /\ \A d \in located : status[d] = "installed"
  /\ \A j \in deviceJobs : JobFit(j)
  /\ \A j, k \in deviceJobs : j.device = k.device => j = k
  /\ \A r \in Requests : InstallFit(work[r])

LEMMA CodeIInvAtFirst == Init => CodeIInv
<1> SUFFICES ASSUME Init PROVE CodeIInv
  OBVIOUS
<1>1. \A r \in Requests : work[r].op = "none"
  BY DEF Init, TaskInit, Idle
<1>2. \A d \in Devices : codes[d] = 0 /\ reruns[d] = 0 /\ mailFailures = 0
  BY DEF Init, DeviceInit
<1>3. located = {} /\ deviceJobs = {}
  BY DEF Init, DeviceInit
<1> QED
  BY <1>1, <1>2, <1>3, TaskIInvAtFirst DEF CodeIInv, Answered, Owed, InstallFit

LEMMA OwedStays ==
  ASSUME FieldTypes, SaleMovesOn, DeviceTypeOK', NEW d \in Devices, codes'[d] = codes[d],
         reruns'[d] >= reruns[d], mailFailures' >= mailFailures
  PROVE  (Owed(d) => Owed(d)') /\ (Answered(d) => Answered(d)')
<1>1. Reversed(d) => Reversed(d)'
  BY DEF Reversed, SaleMovesOn
<1>2. /\ codes[d] \in Nat /\ reruns[d] \in Nat /\ mailFailures \in Nat
      /\ reruns'[d] \in Nat /\ mailFailures' \in Nat
  BY DeviceLimits DEF FieldTypes, TypeOK, DeviceTypeOK
<1> QED
  BY <1>1, <1>2 DEF Owed, Answered

\* Whatever leaves codes, jobs and locations alone.
LEMMA QuietKeepsCodes ==
  ASSUME CodeIInv, TaskIInv', SaleMovesOn, StatusGoesOn,
         UNCHANGED <<located, codes, reruns, mailFailures, deviceJobs>>,
         \A q \in Requests : InstallFit(work'[q])
  PROVE  CodeIInv'
<1> USE DEF TaskIInv, FieldTypes, TypeOK
<1>1. FieldTypes /\ DeviceTypeOK'
  BY DEF CodeIInv
<1>2. \A d \in Devices : reruns'[d] >= reruns[d] /\ mailFailures' >= mailFailures
  BY <1>1, DeviceLimits DEF DeviceTypeOK
<1>3. ASSUME NEW d \in Devices PROVE (Owed(d) => Owed(d)') /\ (Answered(d) => Answered(d)')
  BY <1>1, <1>2, OwedStays
<1>4. ASSUME NEW j \in deviceJobs' PROVE JobFit(j)'
  <2>1. j \in deviceJobs /\ j.device \in Devices /\ j.sale \in Sales /\ JobFit(j)
    BY <1>1 DEF CodeIInv, DeviceTypeOK, DeviceJob
  <2> QED
    BY <1>3, <2>1 DEF JobFit, SaleMovesOn
<1>5. ASSUME NEW q \in Requests PROVE InstallFit(work[q])'
  <2>1. work'[q].now \subseteq Devices
    BY DEF TaskTypeOK, WorkType
  <2>2. \A d \in work'[q].now : Owed(d) => Owed(d)'
    BY <1>3, <2>1
  <2> QED
    BY <2>2 DEF InstallFit, Owed, Reversed
<1>6. \A d \in located' : status'[d] = "installed"
  BY <1>1 DEF CodeIInv, StatusGoesOn, DeviceTypeOK
<1>7. \A d \in Devices : Answered(d)' /\ (d \notin located' => Owed(d)')
  BY <1>3 DEF CodeIInv
<1>8. \A j, k \in deviceJobs' : j.device = k.device => j = k
  BY DEF CodeIInv
<1> QED
  BY <1>4, <1>5, <1>6, <1>7, <1>8 DEF CodeIInv

LEMMA BeginInstalls ==
  ASSUME FieldTypes, NEW r \in Requests, Request(r)
  PROVE  InstallFit(work'[r])
<1> USE DEF FieldTypes, TypeOK, TaskTypeOK, Begins, InstallFit, WorkType
<1>1. ASSUME NEW t \in Tasks, NEW i \in Installers, BeginInstall(r, t, i)
      PROVE  work'[r].stage = "device"
  BY <1>1 DEF BeginInstall, Idle
<1>2. ASSUME NEW s \in Sales, BeginCreateTask(r, s) PROVE work'[r].op # "install"
  BY <1>2 DEF BeginCreateTask, Idle
<1>3. ASSUME NEW op \in {"accept", "reject"}, NEW t \in Tasks, NEW i \in Installers,
             BeginAnswer(r, op, t, i)
      PROVE  work'[r].op # "install"
  BY <1>3 DEF BeginAnswer, Idle
<1>4. ASSUME NEW t \in Tasks, NEW i \in Installers, BeginComplete(r, t, i) PROVE work'[r].op # "install"
  BY <1>4 DEF BeginComplete, Idle
<1>5. ASSUME NEW s \in Sales, BeginPayment(r, s) \/ BeginUndo(r, s) PROVE work'[r].op # "install"
  <2>1. CASE BeginPayment(r, s)
    BY <2>1 DEF BeginPayment, Idle
  <2>2. CASE BeginUndo(r, s)
    BY <2>2 DEF BeginUndo, Idle
  <2> QED
    BY <1>5, <2>1, <2>2
<1>6. ASSUME NEW d \in Devices, NEW to \in Status, BeginStatus(r, d, to) PROVE work'[r].op # "install"
  BY <1>6 DEF BeginStatus, Idle
<1>7. BeginSync(r) => work'[r].op # "install"
  BY DEF BeginSync, Idle
<1> QED
  BY <1>1, <1>2, <1>3, <1>4, <1>5, <1>6, <1>7 DEF Request, TaskRequest

LEMMA InstallsMove ==
  ASSUME CodeIInv, NEW r \in Requests, Step(r) \/ Abandon(r), ~LocateDevice(r)
  PROVE  InstallFit(work'[r])
<1> USE DEF TaskIInv, FieldTypes, TypeOK, TaskTypeOK, WorkType
<1>1. CASE Ends(r)
  BY <1>1, IdleRunsNothing DEF CodeIInv, Ends, InstallFit
<1>2. ASSUME NEW d \in Devices, CheckDevice(r, d) PROVE InstallFit(work'[r])
  <2>1. work'[r].stage = "locating" /\ work'[r].now = {d} /\ d \notin located
    BY <1>2 DEF CheckDevice, CodeIInv
  <2> QED
    BY <2>1 DEF InstallFit
<1>3. CASE QueueDeviceJob(r)
  <2>1. work'[r].stage \in {"device", "closing"}
    BY <1>3 DEF QueueDeviceJob, CodeIInv
  <2> QED
    BY <2>1 DEF InstallFit
<1>4. CASE CloseInstall(r) /\ ~Ends(r)
  <2>1. work'[r].stage = "completing"
    BY <1>4 DEF CloseInstall, Moves, CodeIInv
  <2> QED
    BY <2>1 DEF InstallFit
<1> QED
  BY <1>1, <1>2, <1>3, <1>4
  DEF Step, TaskStep, CreateTask, WriteAnswer, RefuseInstalled, CompleteInstall, Abandon,
      WritePayment, WriteStatus, WriteSync, UndoSale

\* Two requests do not install at the same time.
LEMMA InstallsAlone ==
  ASSUME CodeIInv, NEW r \in Requests, work[r].op = "install", Step(r), NEW q \in Requests, q # r
  PROVE  work'[q].op # "install"
  BY StepMovesOn, OthersStay DEF CodeIInv, TaskIInv, OneAtATime, TaskWriters

LEMMA LocateKeepsCodes ==
  ASSUME CodeIInv, TaskIInv', SaleMovesOn, NEW r \in Requests, LocateDevice(r), Step(r)
  PROVE  CodeIInv'
<1> USE DEF TaskIInv, FieldTypes, TypeOK
<1>1. FieldTypes /\ DeviceTypeOK' /\ InstallFit(work[r])
  BY DEF CodeIInv
<1>2. /\ UNCHANGED <<sale, codes, reruns, mailFailures, deviceJobs>>
      /\ located' = located \cup work[r].now
      /\ status' = [d \in Devices |-> IF d \in work[r].now THEN "installed" ELSE status[d]]
      /\ work[r].op = "install" /\ work[r].stage = "locating" /\ work[r].now \cap located = {}
      /\ work[r].now \subseteq Devices
  BY <1>1 DEF LocateDevice, At, InstallFit, tokens, deviceQueue, TaskTypeOK, WorkType
<1>3. work'[r].op = "install" /\ work'[r].stage = "queueing" /\ work'[r].now = work[r].now
  BY <1>1, <1>2 DEF LocateDevice, Moves, TaskTypeOK, WorkType
<1>4. ASSUME NEW d \in Devices PROVE (Owed(d) => Owed(d)') /\ (Answered(d) => Answered(d)')
  BY <1>2 DEF Owed, Answered, Reversed
<1>5. \A d \in Devices : Answered(d)' /\ (d \notin located' => Owed(d)')
  BY <1>2, <1>4 DEF CodeIInv
<1>6. \A d \in located' : status'[d] = "installed"
  BY <1>1, <1>2 DEF CodeIInv, DeviceTypeOK
<1>7. ASSUME NEW j \in deviceJobs' PROVE JobFit(j)'
  <2>1. j \in deviceJobs /\ j.device \in Devices /\ JobFit(j)
    BY <1>1, <1>2 DEF CodeIInv, DeviceTypeOK, DeviceJob
  <2> QED
    BY <1>2, <1>4, <2>1 DEF JobFit
<1>8. ASSUME NEW q \in Requests PROVE InstallFit(work[q])'
  <2>1. CASE q # r
    BY <1>2, <2>1, InstallsAlone DEF InstallFit
  <2>2. CASE q = r
    <3>1. ASSUME NEW d \in work[r].now
          PROVE  d \in located' /\ Owed(d)' /\ \A j \in deviceJobs' : j.device # d
      <4>1. d \in Devices /\ d \notin located
        BY <1>2
      <4>2. Owed(d) /\ \A j \in deviceJobs : j.device \in located
        BY <4>1 DEF CodeIInv, JobFit
      <4> QED
        BY <1>2, <1>4, <4>1, <4>2
    <3> QED
      BY <1>3, <2>2, <3>1 DEF InstallFit, Owed, Reversed
  <2> QED
    BY <2>1, <2>2
<1>9. \A j, k \in deviceJobs' : j.device = k.device => j = k
  BY <1>2 DEF CodeIInv
<1> QED
  BY <1>5, <1>6, <1>7, <1>8, <1>9 DEF CodeIInv

LEMMA QueueKeepsCodes ==
  ASSUME CodeIInv, TaskIInv', NEW r \in Requests, QueueDeviceJob(r), Step(r)
  PROVE  CodeIInv'
<1> USE DEF TaskIInv, FieldTypes, TypeOK
<1> DEFINE NewJob(d) == [device |-> d, sale |-> work[r].sale, paid |-> sale[work[r].sale] = "paid",
                         attempts |-> DeviceAttempts]
<1>1. FieldTypes /\ DeviceTypeOK' /\ InstallFit(work[r])
  BY DEF CodeIInv
<1>2. /\ UNCHANGED <<sale, codes, reruns, mailFailures, status, located>>
      /\ deviceJobs' = deviceJobs \cup {NewJob(d) : d \in work[r].now}
      /\ work[r].op = "install" /\ work[r].stage = "queueing" /\ work[r].now \subseteq Devices
      /\ work[r].now \subseteq DevicesOf[work[r].sale] /\ sale[work[r].sale] # "none"
  BY <1>1 DEF QueueDeviceJob, At, tokens, TaskTypeOK, WorkType, WorkFits
<1>3. \A d \in work[r].now : d \in located /\ Owed(d) /\ \A j \in deviceJobs : j.device # d
  BY <1>1, <1>2 DEF InstallFit
<1>4. \A d \in Devices : (Owed(d) => Owed(d)') /\ (Answered(d) => Answered(d)')
  BY <1>2 DEF Owed, Answered, Reversed
<1>5. \A d : NewJob(d).device = d /\ NewJob(d).sale = work[r].sale
  OBVIOUS
<1> HIDE DEF NewJob
<1>6. ASSUME NEW j \in deviceJobs' PROVE JobFit(j)'
  <2>1. CASE j \in deviceJobs
    <3>1. j.device \in Devices /\ JobFit(j)
      BY <1>1, <2>1 DEF CodeIInv, DeviceTypeOK, DeviceJob
    <3> QED
      BY <1>2, <1>4, <3>1 DEF JobFit
  <2>2. ASSUME NEW d \in work[r].now, j = NewJob(d) PROVE JobFit(j)'
    <3>1. j.device = d /\ j.sale = work[r].sale
      BY <1>5, <2>2
    <3>2. d \in located /\ Owed(d) /\ d \in Devices
      BY <1>2, <1>3
    <3>3. Owed(d)'
      BY <1>4, <3>2
    <3> QED
      BY <1>2, <3>1, <3>2, <3>3 DEF JobFit
  <2> QED
    BY <1>2, <2>1, <2>2
<1>7. \A j, k \in deviceJobs' : j.device = k.device => j = k
  BY <1>2, <1>3, <1>5 DEF CodeIInv
<1>8. ASSUME NEW q \in Requests PROVE InstallFit(work[q])'
  <2>1. CASE q # r
    BY <1>2, <2>1, InstallsAlone DEF InstallFit
  <2>2. CASE q = r
    <3>1. work'[r].stage \in {"device", "closing"}
      BY DEF QueueDeviceJob, CodeIInv, TaskTypeOK, WorkType
    <3> QED
      BY <2>2, <3>1 DEF InstallFit
  <2> QED
    BY <2>1, <2>2
<1>9. /\ \A d \in Devices : Answered(d)' /\ (d \notin located' => Owed(d)')
      /\ \A d \in located' : status'[d] = "installed"
  BY <1>2, <1>4 DEF CodeIInv
<1> QED
  BY <1>6, <1>7, <1>8, <1>9 DEF CodeIInv
\* What the worker does of a job: it is done, or to be run again, of which the
\* failed mail or the reversed sale is the reason if it has given a code.
JobDone(j) == deviceJobs' = deviceJobs \ {j}
JobAgain(j) ==
  /\ \E k \in DeviceJob : k.device = j.device /\ k.sale = j.sale /\ deviceJobs' = (deviceJobs \ {j}) \cup {k}
  /\ codes'[j.device] <= codes[j.device] + (mailFailures' - mailFailures) \/ sale[j.sale] \notin {"unpaid", "paid"}

LEMMA RetryAgain ==
  ASSUME FieldTypes, NEW j \in deviceJobs, Retry(j)
  PROVE  JobDone(j) \/ \E k \in DeviceJob : k.device = j.device /\ k.sale = j.sale
                                            /\ deviceJobs' = (deviceJobs \ {j}) \cup {k}
<1>1. CASE j.attempts > 1
  <2> DEFINE k == [j EXCEPT !.attempts = @ - 1]
  <2>1. k \in DeviceJob /\ k.device = j.device /\ k.sale = j.sale
    BY <1>1, DeviceLimits DEF FieldTypes, TypeOK, DeviceTypeOK, DeviceJob
  <2> QED
    BY <1>1, <2>1 DEF Retry
<1>2. CASE ~(j.attempts > 1)
  BY <1>2 DEF Retry, JobDone
<1> QED
  BY <1>1, <1>2

LEMMA JobEffect ==
  ASSUME FieldTypes, NEW j \in deviceJobs, ProcessDeviceJob(j)
  PROVE  /\ JobDone(j) \/ JobAgain(j)
         /\ UNCHANGED <<sale, status, located, reruns>>
         /\ mailFailures' >= mailFailures
         /\ codes'[j.device] <= codes[j.device] + 1
         /\ \A d \in Devices : d # j.device => codes'[d] = codes[d]
<1> USE DEF FieldTypes, TypeOK, DeviceTypeOK
<1>1. j.device \in Devices /\ codes[j.device] \in Nat /\ mailFailures \in Nat
  BY DeviceLimits DEF DeviceJob
<1>2. ASSUME UNCHANGED codes
      PROVE  codes'[j.device] = codes[j.device] /\ \A d \in Devices : d # j.device => codes'[d] = codes[d]
  BY <1>2
<1>3. ASSUME Store(j.device)
      PROVE  /\ codes'[j.device] = codes[j.device] + 1
             /\ \A d \in Devices : d # j.device => codes'[d] = codes[d]
  BY <1>1, <1>3 DEF Store
<1>4. CASE SkipDeviceJob(j)
  BY <1>1, <1>2, <1>4 DEF SkipDeviceJob, tokens, Consume, JobDone
<1>5. CASE GenerationFails(j)
  <2>1. JobDone(j) \/ JobAgain(j)
    BY <1>1, <1>2, <1>5, RetryAgain DEF GenerationFails, RecordFailure, Consume, JobDone, JobAgain
  <2> QED
    BY <1>1, <1>2, <1>5, <2>1 DEF GenerationFails
<1>6. CASE GenerateUnpaid(j)
  <2>1. JobDone(j) \/ JobAgain(j)
    BY <1>1, <1>6, RetryAgain DEF GenerateUnpaid, RecordFailure, Consume, JobDone, JobAgain, Live
  <2> QED
    BY <1>1, <1>3, <1>6, <2>1 DEF GenerateUnpaid
<1>7. CASE GeneratePaid(j)
  <2>1. codes'[j.device] = codes[j.device] + 1
    BY <1>3, <1>7 DEF GeneratePaid
  <2>2. (mailFailures' = mailFailures /\ Consume(j)) \/ (mailFailures' = mailFailures + 1 /\ Retry(j))
    BY <1>7 DEF GeneratePaid
  <2>3. JobDone(j) \/ JobAgain(j)
    BY <1>1, <2>1, <2>2, RetryAgain DEF Consume, JobDone, JobAgain
  <2> QED
    BY <1>1, <1>3, <1>7, <2>2, <2>3 DEF GeneratePaid
<1> QED
  BY <1>4, <1>5, <1>6, <1>7 DEF ProcessDeviceJob
LEMMA WorkerKeepsCodes ==
  ASSUME CodeIInv, TaskIInv', SaleMovesOn, NEW j \in deviceJobs, ProcessDeviceJob(j), UNCHANGED work
  PROVE  CodeIInv'
<1> USE DEF TaskIInv, FieldTypes, TypeOK
<1>1. FieldTypes /\ DeviceTypeOK /\ DeviceTypeOK' /\ JobFit(j)
  BY DEF CodeIInv
<1>2. /\ JobDone(j) \/ JobAgain(j)
      /\ UNCHANGED <<sale, status, located, reruns>>
      /\ mailFailures' >= mailFailures
      /\ codes'[j.device] <= codes[j.device] + 1
      /\ \A d \in Devices : d # j.device => codes'[d] = codes[d]
  BY <1>1, JobEffect
<1>3. j.device \in Devices /\ j.sale \in Sales
  BY <1>1 DEF DeviceTypeOK, DeviceJob
<1>4. ASSUME NEW d \in Devices, d # j.device
      PROVE  (Owed(d) => Owed(d)') /\ (Answered(d) => Answered(d)')
  <2>1. reruns'[d] >= reruns[d]
    BY <1>1, <1>2, DeviceLimits DEF DeviceTypeOK
  <2> QED
    BY <1>1, <1>2, <1>4, <2>1, OwedStays
<1>5. Reversed(j.device) => \E s \in Sales : sale'[s] = "undone" /\ j.device \in DevicesOf[s]
  BY <1>2 DEF Reversed
<1>6. /\ codes[j.device] \in Nat /\ codes'[j.device] \in Nat /\ reruns[j.device] \in Nat
      /\ mailFailures \in Nat /\ mailFailures' \in Nat /\ reruns'[j.device] = reruns[j.device]
  BY <1>1, <1>2, <1>3, DeviceLimits DEF DeviceTypeOK
<1>7. Answered(j.device)'
  <2>1. CASE Reversed(j.device)
    BY <1>5, <2>1 DEF Answered, Reversed
  <2>2. CASE ~Reversed(j.device)
    <3>1. codes[j.device] <= reruns[j.device] + mailFailures
      BY <1>1, <2>2 DEF JobFit, Owed
    <3> QED
      BY <1>2, <1>6, <3>1 DEF Answered
  <2> QED
    BY <2>1, <2>2
<1>8. JobAgain(j) => Owed(j.device)'
  <2> SUFFICES ASSUME JobAgain(j) PROVE Owed(j.device)'
    OBVIOUS
  <2>1. CASE Reversed(j.device)
    BY <1>5, <2>1 DEF Owed, Reversed
  <2>2. CASE ~Reversed(j.device)
    <3>1. codes[j.device] <= reruns[j.device] + mailFailures
      BY <1>1, <2>2 DEF JobFit, Owed
    <3>2. sale[j.sale] \in {"unpaid", "paid"}
      <4>1. sale[j.sale] # "none" /\ sale[j.sale] # "undone"
        BY <1>1, <1>3, <2>2 DEF JobFit, Reversed
      <4> QED
        BY <1>1, <1>3, <4>1 DEF DeviceTypeOK
    <3>3. codes'[j.device] <= codes[j.device] + (mailFailures' - mailFailures)
      BY <3>2 DEF JobAgain
    <3> QED
      BY <1>6, <3>1, <3>3 DEF Owed
  <2> QED
    BY <2>1, <2>2
<1>9. \A k \in deviceJobs : k.device = j.device => k = j
  BY DEF CodeIInv
\* The jobs left, each with what it had, or the one run again.
<1>10. ASSUME NEW k \in deviceJobs'
       PROVE  \/ k \in deviceJobs /\ k # j
              \/ JobAgain(j) /\ k.device = j.device /\ k.sale = j.sale
  BY <1>2 DEF JobDone, JobAgain
<1>11. \A k, l \in deviceJobs' : k.device = l.device => k = l
  <2>1. CASE JobDone(j)
    BY <2>1 DEF JobDone, CodeIInv
  <2>2. CASE JobAgain(j)
    <3>1. PICK m \in DeviceJob : m.device = j.device /\ deviceJobs' = (deviceJobs \ {j}) \cup {m}
      BY <2>2 DEF JobAgain
    <3> QED
      BY <1>9, <3>1 DEF CodeIInv
  <2> QED
    BY <1>2, <2>1, <2>2
<1>12. ASSUME NEW k \in deviceJobs' PROVE JobFit(k)'
  <2>1. CASE k \in deviceJobs /\ k # j
    <3>1. JobFit(k) /\ k.device \in Devices /\ k.device # j.device
      BY <1>1, <1>9, <2>1 DEF CodeIInv, DeviceTypeOK, DeviceJob
    <3>2. Owed(k.device)'
      BY <1>4, <3>1 DEF JobFit
    <3> QED
      BY <1>2, <3>1, <3>2 DEF JobFit
  <2>2. CASE JobAgain(j) /\ k.device = j.device /\ k.sale = j.sale
    BY <1>1, <1>2, <1>8, <2>2 DEF JobFit
  <2> QED
    BY <1>10, <2>1, <2>2
<1>13. \A d \in Devices : Answered(d)' /\ (d \notin located' => Owed(d)')
  <2> SUFFICES ASSUME NEW d \in Devices PROVE Answered(d)' /\ (d \notin located' => Owed(d)')
    OBVIOUS
  <2>1. CASE d = j.device
    BY <1>1, <1>2, <1>7, <2>1 DEF JobFit
  <2>2. CASE d # j.device
    BY <1>2, <1>4, <2>2 DEF CodeIInv
  <2> QED
    BY <2>1, <2>2
<1>14. ASSUME NEW q \in Requests PROVE InstallFit(work[q])'
  <2> SUFFICES ASSUME work[q].op = "install", work[q].stage = "queueing", NEW d \in work[q].now
      PROVE  d \in located' /\ Owed(d)' /\ \A k \in deviceJobs' : k.device # d
    <3>1. InstallFit(work[q]) /\ work'[q] = work[q]
      BY DEF CodeIInv
    <3> QED
      BY <1>2, <3>1 DEF InstallFit, Owed, Reversed
  <2>1. d \in located /\ Owed(d) /\ d \in Devices /\ \A k \in deviceJobs : k.device # d
    BY <1>1 DEF CodeIInv, InstallFit, TaskTypeOK, WorkType
  <2> QED
    BY <1>2, <1>4, <1>10, <2>1
<1>15. \A d \in located' : status'[d] = "installed"
  BY <1>2 DEF CodeIInv
<1> QED
  BY <1>11, <1>12, <1>13, <1>14, <1>15 DEF CodeIInv

LEMMA RerunKeepsCodes ==
  ASSUME CodeIInv, TaskIInv', SaleMovesOn, NEW e \in Devices, NEW s \in Sales, RerunGeneration(e, s),
         UNCHANGED work
  PROVE  CodeIInv'
<1> USE DEF TaskIInv, FieldTypes, TypeOK
<1>1. FieldTypes /\ DeviceTypeOK /\ DeviceTypeOK'
  BY DEF CodeIInv
<1>2. /\ UNCHANGED <<sale, status, located, deviceJobs>>
      /\ mailFailures' >= mailFailures /\ reruns'[e] = reruns[e] + 1
      /\ codes'[e] <= codes[e] + 1
      /\ \A d \in Devices : d # e => codes'[d] = codes[d] /\ reruns'[d] = reruns[d]
  <2>1. mailFailures \in Nat /\ codes[e] \in Nat
    BY <1>1, DeviceLimits DEF DeviceTypeOK
  <2>2. mailFailures' >= mailFailures
    BY <2>1 DEF RerunGeneration
  <2>3. codes'[e] <= codes[e] + 1 /\ \A d \in Devices : d # e => codes'[d] = codes[d]
    BY <1>1, <2>1 DEF RerunGeneration, Store, DeviceTypeOK
  <2> QED
    BY <1>1, <2>2, <2>3 DEF RerunGeneration, deviceQueue, DeviceTypeOK
<1>3. ASSUME NEW d \in Devices PROVE (Owed(d) => Owed(d)') /\ (Answered(d) => Answered(d)')
  <2>1. CASE d = e
    <3>1. /\ codes[e] \in Nat /\ codes'[e] \in Nat /\ reruns[e] \in Nat /\ reruns'[e] \in Nat
          /\ mailFailures \in Nat /\ mailFailures' \in Nat
      BY <1>1, DeviceLimits DEF DeviceTypeOK
    <3>2. Reversed(e) => Reversed(e)'
      BY <1>2 DEF Reversed
    <3> QED
      BY <1>2, <2>1, <3>1, <3>2 DEF Owed, Answered
  <2>2. CASE d # e
    <3>1. reruns'[d] >= reruns[d]
      BY <1>1, <1>2, <2>2, DeviceLimits DEF DeviceTypeOK
    <3> QED
      BY <1>1, <1>2, <2>2, <3>1, OwedStays
  <2> QED
    BY <2>1, <2>2
<1>4. ASSUME NEW j \in deviceJobs' PROVE JobFit(j)'
  <2>1. j \in deviceJobs /\ j.device \in Devices /\ JobFit(j)
    BY <1>1, <1>2 DEF CodeIInv, DeviceTypeOK, DeviceJob
  <2> QED
    BY <1>2, <1>3, <2>1 DEF JobFit
<1>5. ASSUME NEW q \in Requests PROVE InstallFit(work[q])'
  <2>1. InstallFit(work[q]) /\ work'[q] = work[q] /\ work[q].now \subseteq Devices
    BY <1>1 DEF CodeIInv, TaskTypeOK, WorkType
  <2>2. \A d \in work[q].now : Owed(d) => Owed(d)'
    BY <1>3, <2>1
  <2> QED
    BY <1>2, <2>1, <2>2 DEF InstallFit, Owed, Reversed
<1>6. /\ \A d \in Devices : Answered(d)' /\ (d \notin located' => Owed(d)')
      /\ \A d \in located' : status'[d] = "installed"
      /\ \A j, k \in deviceJobs' : j.device = k.device => j = k
  BY <1>2, <1>3 DEF CodeIInv
<1> QED
  BY <1>4, <1>5, <1>6 DEF CodeIInv
LEMMA CodeIInvKept == HandlersApart /\ FilesForward /\ CodeIInv /\ [Next]_vars => CodeIInv'
<1> SUFFICES ASSUME HandlersApart, FilesForward, CodeIInv, [Next]_vars PROVE CodeIInv'
  OBVIOUS
<1>1. FieldTypes /\ TaskIInv /\ TaskIInv' /\ SaleMovesOn /\ StatusGoesOn
  BY TaskIInvKept, SaleMoves, StatusForward DEF CodeIInv, TaskIInv
<1> DEFINE Quiet == UNCHANGED <<located, codes, reruns, mailFailures, deviceJobs>>
           Moved(r) == \A q \in Requests : q # r => work'[q] = work[q]
<1>2. ASSUME Quiet, UNCHANGED work PROVE CodeIInv'
  BY <1>1, <1>2, QuietKeepsCodes DEF CodeIInv
<1>3. ASSUME Quiet, NEW r \in Requests, Moved(r), InstallFit(work'[r]) PROVE CodeIInv'
  <2>1. \A q \in Requests : InstallFit(work'[q])
    BY <1>3 DEF CodeIInv
  <2> QED
    BY <1>1, <1>3, <2>1, QuietKeepsCodes
<1> HIDE DEF Quiet
<1>4. ASSUME NEW r \in Requests, Request(r) PROVE CodeIInv'
  <2>1. Quiet /\ Moved(r)
    BY <1>1, <1>4, RequestBegins, OthersStay DEF Quiet, Begun, deviceVars, tokens, deviceQueue
  <2> QED
    BY <1>1, <1>3, <1>4, <2>1, BeginInstalls
<1>5. ASSUME NEW r \in Requests, Step(r) \/ Abandon(r), ~LocateDevice(r), ~QueueDeviceJob(r) PROVE CodeIInv'
  <2>1. Quiet
    BY <1>5 DEF Quiet, Step, TaskStep, CreateTask, WriteAnswer, RefuseInstalled, CheckDevice,
                CloseInstall, CompleteInstall, WritePayment, WriteStatus, WriteSync, UndoSale, Abandon,
                deviceVars, tokens, deviceQueue
  <2>2. Moved(r)
    BY <1>1, <1>5, StepMovesOn, EndMovesOn, OthersStay DEF Abandon
  <2> QED
    BY <1>3, <1>5, <2>1, <2>2, InstallsMove
<1>6. ASSUME NEW r \in Requests, LocateDevice(r) \/ QueueDeviceJob(r) PROVE CodeIInv'
  BY <1>1, <1>6, LocateKeepsCodes, QueueKeepsCodes DEF Step, TaskStep
<1>7. ASSUME NEW d \in Devices, FromFile(d) PROVE CodeIInv'
  BY <1>2, <1>7 DEF Quiet, FromFile, LocateFromFile, RestoreFromCsv, tokens, deviceQueue
<1>8. CASE Worker
  BY <1>1, <1>8, WorkerKeepsCodes DEF Worker
<1>9. CASE Operator
  BY <1>1, <1>9, RerunKeepsCodes DEF Operator
<1>10. CASE UNCHANGED <<deviceVars, work>>
  BY <1>2, <1>10 DEF Quiet, deviceVars, tokens, deviceQueue
<1> QED
  BY <1>4, <1>5, <1>6, <1>7, <1>8, <1>9, <1>10
  DEF Next, vars, taskVars, CreateSale, AssignInstallerTask, RevertTasksAccepted

\* An installation yields one code for all the attempts of its job and all the
\* installers' retries: processDeviceTokenSend generates before anything else
\* can fail, and no row says that a device already has its code.
THEOREM OneCodeEach ==
  ASSUME HandlersApart, FilesForward
  PROVE  Spec => []OneCodePerInstallation
<1>1. CodeIInv => OneCodePerInstallation
  BY DEF CodeIInv, Answered, Reversed, OneCodePerInstallation
<1> QED
  BY <1>1, CodeIInvAtFirst, CodeIInvKept, HandlersApart, FilesForward, PTL DEF Spec
=============================================================================
