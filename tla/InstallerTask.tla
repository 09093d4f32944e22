--------------------------- MODULE InstallerTask ---------------------------
(***************************************************************************)
(* The installers' tasks: created with a sale or by hand, assigned,        *)
(* accepted, rejected, completed, and the installation itself, which puts  *)
(* a location on each device of the sale and then completes the task.      *)
(*                                                                         *)
(* Every handler reads the task and writes it by its id alone afterwards,  *)
(* so each is a request with a read step and write steps (`work').         *)
(***************************************************************************)
EXTENDS DeviceInstallation

CONSTANTS
  Tasks,
  Installers,
  Nobody,       \* no installer assigned
  NoSale,       \* a task whose sale was deleted, or has none
  NoTask,
  Requests,     \* requests served at the same time
  Serves,       \* bound: the operations each of them may run
  Overlap,      \* the pairs of operations that may overlap
  Crashable,    \* stages at which a request may fail
  MaxFailures   \* bound: failures

TaskStatus == {"none", "PENDING", "ACCEPTED", "REJECTED", "COMPLETED", "CANCELLED"}

Op == {"create", "accept", "reject", "complete", "revert", "install", "status",
       "file", "sync", "mark", "undo"}

Stage == {"idle", "writing", "device", "locating", "queueing", "closing", "completing"}

ASSUME TasksAssumption ==
  /\ Serves \in [Requests -> SUBSET Op]
  /\ Nobody \notin Installers /\ NoSale \notin Sales /\ NoTask \notin Tasks
  /\ Overlap \subseteq SUBSET Op /\ Crashable \subseteq Stage
  /\ MaxFailures \in Nat

VARIABLES
  task,      \* the rows: status, sale, installer
  work,      \* what each request is doing and what it has read
  failures

taskVars == <<task, work, failures>>

TaskRow == [status : TaskStatus, sale : Sales \cup {NoSale}, installer : Installers \cup {Nobody}]

\* devices: those still to be written, now: the one being written;
\* tasks: the tasks a reversal found; to: the status to be written.
WorkType == [op : Op \cup {"none"}, stage : Stage, task : Tasks \cup {NoTask},
             sale : Sales \cup {NoSale}, devices : SUBSET Devices, now : SUBSET Devices,
             tasks : SUBSET Tasks, to : Status \cup TaskStatus]

TaskTypeOK ==
  /\ task \in [Tasks -> TaskRow]
  /\ work \in [Requests -> WorkType]
  /\ failures \in 0 .. MaxFailures

Idle == [op |-> "none", stage |-> "idle", task |-> NoTask, sale |-> NoSale,
         devices |-> {}, now |-> {}, tasks |-> {}, to |-> "none"]

NoRow == [status |-> "none", sale |-> NoSale, installer |-> Nobody]

TaskInit ==
  /\ task = [t \in Tasks |-> NoRow]
  /\ work = [r \in Requests |-> Idle]
  /\ failures = 0

-----------------------------------------------------------------------------

MayRun(op) == \A q \in Requests : work[q] = Idle \/ {op, work[q].op} \in Overlap

Begins(r, op, w) ==
  /\ work[r] = Idle
  /\ op \in Serves[r] /\ MayRun(op)
  /\ work' = [work EXCEPT ![r] = [w EXCEPT !.op = op]]
At(r, op, stage) == work[r].op = op /\ work[r].stage = stage
Ends(r) == work' = [work EXCEPT ![r] = Idle]
Moves(r, stage) == work' = [work EXCEPT ![r].stage = stage]

TasksOf(s) == {t \in Tasks : task[t].sale = s}
DevicesLeft(t) == IF task[t].sale \in Sales THEN DevicesOf[task[t].sale] ELSE {}

\* The request fails or its process dies: what it wrote stays.
Abandon(r) ==
  /\ work[r].stage \in Crashable
  /\ failures < MaxFailures /\ failures' = failures + 1
  /\ Ends(r)
  /\ UNCHANGED <<sale, deviceVars, task>>

\* createTask, from the office or an agent: the sale is read first.
BeginCreateTask(r, s) ==
  /\ Live(s)
  /\ Begins(r, "create", [Idle EXCEPT !.stage = "writing", !.sale = s])
  /\ UNCHANGED <<sale, deviceVars, task, failures>>

CreateTask(r, t) ==
  /\ At(r, "create", "writing")
  /\ task[t].status = "none"
  /\ Live(work[r].sale)  \* `connect' needs the sale to be there
  /\ task' = [task EXCEPT ![t] = [status |-> "PENDING", sale |-> work[r].sale, installer |-> Nobody]]
  /\ Ends(r)
  /\ UNCHANGED <<sale, deviceVars, failures>>

\* assignInstallerTask: whatever the status of the task.
AssignInstallerTask(t, i) ==
  /\ task[t].status # "none"
  /\ task' = [task EXCEPT ![t].installer = i]
  /\ UNCHANGED <<sale, deviceVars, work, failures>>

\* Mutant of Answerable: any task of the installer.
AnswerableAgain(t, i) == task[t].status # "none" /\ task[t].installer = i

\* What acceptTask and rejectTask look for.
Answerable(t, i) == task[t].status = "PENDING" /\ task[t].installer = i

\* What completeTask looks for.
Completable(t, i) == task[t].status = "ACCEPTED" /\ task[t].installer = i

\* acceptTask, rejectTask, completeTask: find, then update by id.
BeginAnswer(r, op, t, i) ==
  /\ op \in {"accept", "reject"}
  /\ Answerable(t, i)
  /\ Begins(r, op, [Idle EXCEPT !.stage = "writing", !.task = t])
  /\ UNCHANGED <<sale, deviceVars, task, failures>>

BeginComplete(r, t, i) ==
  /\ Completable(t, i)
  /\ Begins(r, "complete", [Idle EXCEPT !.stage = "writing", !.task = t])
  /\ UNCHANGED <<sale, deviceVars, task, failures>>

Answer(op) == CASE op = "accept" -> "ACCEPTED" [] op = "reject" -> "REJECTED" [] OTHER -> "COMPLETED"

WriteAnswer(r) ==
  /\ work[r].op \in {"accept", "reject", "complete"} /\ work[r].stage = "writing"
  /\ task' = [task EXCEPT ![work[r].task].status = Answer(work[r].op)]
  /\ Ends(r)
  /\ UNCHANGED <<sale, deviceVars, failures>>

\* revertTasksAccepted, a hot fix: one updateMany.
RevertTasksAccepted ==
  /\ MayRun("revert")
  /\ task' = [t \in Tasks |-> IF task[t].status = "ACCEPTED"
                              THEN [task[t] EXCEPT !.status = "PENDING"] ELSE task[t]]
  /\ UNCHANGED <<sale, deviceVars, work, failures>>

-----------------------------------------------------------------------------
(* updateInstallationLocation *)

\* getAgentTask: the installer's task in whatever status; its sale's devices.
BeginInstall(r, t, i) ==
  /\ task[t].status # "none" /\ task[t].installer = i
  /\ DevicesLeft(t) # {}
  /\ Begins(r, "install", [Idle EXCEPT !.stage = "device", !.task = t,
                                       !.sale = task[t].sale, !.devices = DevicesLeft(t)])
  /\ UNCHANGED <<sale, deviceVars, task, failures>>

\* updateDeviceLocation of the next device: installed already, and the whole
\* request is refused ...
RefuseInstalled(r) ==
  /\ At(r, "install", "device")
  /\ \E d \in work[r].devices : status[d] = "installed"
  /\ Ends(r)
  /\ UNCHANGED <<sale, deviceVars, task, failures>>

\* ... or found not installed.  The check that this installer may install it
\* looks only whether the device exists, so it refuses nobody.
CheckDevice(r, d) ==
  /\ At(r, "install", "device")
  /\ d \in work[r].devices
  /\ status[d] # "installed"
  /\ work' = [work EXCEPT ![r].stage = "locating", ![r].devices = @ \ {d}, ![r].now = {d}]
  /\ UNCHANGED <<sale, deviceVars, task, failures>>

LocateDevice(r) ==
  /\ At(r, "install", "locating")
  /\ status' = [d \in Devices |-> IF d \in work[r].now THEN "installed" ELSE status[d]]
  /\ located' = located \cup work[r].now
  /\ Moves(r, "queueing")
  /\ UNCHANGED <<sale, tokens, deviceQueue, mailFailures, task, failures>>

\* The job carries the device and its sale as they are now.
QueueDeviceJob(r) ==
  /\ At(r, "install", "queueing")
  /\ deviceJobs' = deviceJobs \cup
       {[device |-> d, sale |-> work[r].sale, paid |-> sale[work[r].sale] = "paid",
         attempts |-> DeviceAttempts] : d \in work[r].now}
  /\ work' = [work EXCEPT ![r].stage = IF work[r].devices = {} THEN "closing" ELSE "device",
                          ![r].now = {}]
  /\ UNCHANGED <<sale, status, located, tokens, deadJobs, mailFailures, task, failures>>

\* completeTask at the end: refused unless the task is ACCEPTED by then.
CloseInstall(r) ==
  /\ At(r, "install", "closing")
  /\ IF task[work[r].task].status = "ACCEPTED" THEN Moves(r, "completing") ELSE Ends(r)
  /\ UNCHANGED <<sale, deviceVars, task, failures>>

CompleteInstall(r) ==
  /\ At(r, "install", "completing")
  /\ task' = [task EXCEPT ![work[r].task].status = "COMPLETED"]
  /\ Ends(r)
  /\ UNCHANGED <<sale, deviceVars, failures>>

TaskStep(r) ==
  \/ \E t \in Tasks : CreateTask(r, t)
  \/ WriteAnswer(r)
  \/ RefuseInstalled(r)
  \/ \E d \in Devices : CheckDevice(r, d)
  \/ LocateDevice(r)
  \/ QueueDeviceJob(r)
  \/ CloseInstall(r)
  \/ CompleteInstall(r)

TaskRequest(r) ==
  \/ \E s \in Sales : BeginCreateTask(r, s)
  \/ \E t \in Tasks, i \in Installers :
       \/ \E op \in {"accept", "reject"} : BeginAnswer(r, op, t, i)
       \/ BeginComplete(r, t, i)
       \/ BeginInstall(r, t, i)

=============================================================================
