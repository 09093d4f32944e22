----------------------------- MODULE FieldWork -----------------------------
(***************************************************************************)
(* Devices, their installers' tasks and the sales they belong to: the      *)
(* composition of DeviceInstallation and InstallerTask with what happens   *)
(* to a sale meanwhile.  A sale is made with a task for its installation;  *)
(* its payments bring the devices of a COMPLETED task to installed; and a  *)
(* reversal cancels the tasks it has read and deletes the sale.            *)
(***************************************************************************)
EXTENDS InstallerTask

vars == <<sale, deviceVars, taskVars>>

TypeOK == DeviceTypeOK /\ TaskTypeOK

Init ==
  /\ sale = [s \in Sales |-> "none"]
  /\ DeviceInit
  /\ TaskInit

\* createSale: no other sale has its devices; the task has no installer yet.
\* A sale of the office may come without a task.
CreateSale(s) ==
  /\ sale[s] = "none"
  /\ \A o \in Sales : Live(o) => DevicesOf[o] \cap DevicesOf[s] = {}
  /\ sale' = [sale EXCEPT ![s] = "unpaid"]
  /\ \/ UNCHANGED task
     \/ \E t \in Tasks :
          /\ task[t].status = "none"
          /\ task' = [task EXCEPT ![t] = [status |-> "PENDING", sale |-> s, installer |-> Nobody]]
  /\ UNCHANGED <<deviceVars, work, failures>>

\* A payment of the sale, not the last or the last, is post-processed and
\* reads the first task of the sale it finds; its write is WritePayment.
BeginPayment(r, s) ==
  /\ Live(s)
  /\ \/ UNCHANGED sale
     \/ sale' = [sale EXCEPT ![s] = "paid"]
  /\ \E st \in (IF TasksOf(s) = {} THEN {"none"} ELSE {task[t].status : t \in TasksOf(s)}) :
       Begins(r, "mark", [Idle EXCEPT !.stage = "writing", !.devices = DevicesOf[s], !.to = st])
  /\ UNCHANGED <<deviceVars, task, failures>>

WritePayment(r) ==
  /\ At(r, "mark", "writing")
  /\ status' = StatusAfterPayment(work[r].devices, work[r].to)
  /\ Ends(r)
  /\ UNCHANGED <<sale, located, tokens, deviceQueue, mailFailures, task, failures>>

\* updateDeviceStatus: the transition is checked against the status read.
BeginStatus(r, d, to) ==
  /\ TransitionAllowed(status[d], to)
  /\ Begins(r, "status", [Idle EXCEPT !.stage = "writing", !.devices = {d}, !.to = to])
  /\ UNCHANGED <<sale, deviceVars, task, failures>>

WriteStatus(r) ==
  /\ At(r, "status", "writing")
  /\ status' = [d \in Devices |-> IF d \in work[r].devices THEN work[r].to ELSE status[d]]
  /\ Ends(r)
  /\ UNCHANGED <<sale, located, tokens, deviceQueue, mailFailures, task, failures>>

\* syncDeviceInstallationStatus: the devices of live sales with a COMPLETED
\* task are read, and written in a transaction.
BeginSync(r) ==
  /\ LET found == UNION {DevicesOf[s] : s \in {o \in Sales : Live(o) /\
                     \E t \in TasksOf(o) : task[t].status = "COMPLETED"}}
     IN  /\ found # {}
         /\ Begins(r, "sync", [Idle EXCEPT !.stage = "writing", !.devices = found])
  /\ UNCHANGED <<sale, deviceVars, task, failures>>

WriteSync(r) ==
  /\ At(r, "sync", "writing")
  /\ status' = StatusAfterSync(work[r].devices)
  /\ Ends(r)
  /\ UNCHANGED <<sale, located, tokens, deviceQueue, mailFailures, task, failures>>

\* undoSaleCreation reads the sale with its tasks ...
BeginUndo(r, s) ==
  /\ Live(s)
  /\ Begins(r, "undo", [Idle EXCEPT !.stage = "writing", !.sale = s, !.tasks = TasksOf(s)])
  /\ UNCHANGED <<sale, deviceVars, task, failures>>

\* Mutant of Undone: the tasks are left alone.
UndoneKeepsTasks(r) ==
  [t \in Tasks |-> IF task[t].sale = work[r].sale THEN [task[t] EXCEPT !.sale = NoSale] ELSE task[t]]

\* ... and cancels those it read; deleting the sale clears every task's saleId.
Undone(r) ==
  [t \in Tasks |->
     [task[t] EXCEPT !.status = IF t \in work[r].tasks THEN "CANCELLED" ELSE @,
                     !.sale = IF @ = work[r].sale THEN NoSale ELSE @]]

\* The failures of the sale's devices are deleted with it.
UndoSale(r) ==
  /\ At(r, "undo", "writing")
  /\ Live(work[r].sale)
  /\ sale' = [sale EXCEPT ![work[r].sale] = "undone"]
  /\ task' = Undone(r)
  /\ reported' = reported \ DevicesOf[work[r].sale]
  /\ Ends(r)
  /\ UNCHANGED <<status, located, codes, sent, reruns, deviceQueue, mailFailures, failures>>

-----------------------------------------------------------------------------

FromFile(d) ==
  /\ MayRun("file")
  /\ LocateFromFile(d) \/ RestoreFromCsv(d)
  /\ UNCHANGED <<sale, task, work, failures>>

Worker ==
  /\ \E j \in deviceJobs : ProcessDeviceJob(j)
  /\ UNCHANGED <<sale, task, work, failures>>

Operator ==
  /\ \E d \in Devices, s \in Sales : RerunGeneration(d, s)
  /\ UNCHANGED <<task, work, failures>>

Step(r) ==
  TaskStep(r) \/ WritePayment(r) \/ WriteStatus(r) \/ WriteSync(r) \/ UndoSale(r)

Request(r) ==
  \/ TaskRequest(r)
  \/ \E s \in Sales : BeginPayment(r, s) \/ BeginUndo(r, s)
  \/ \E d \in Devices, to \in Status : BeginStatus(r, d, to)
  \/ BeginSync(r)

Next ==
  \/ \E s \in Sales : CreateSale(s)
  \/ \E r \in Requests : Request(r) \/ Step(r) \/ Abandon(r)
  \/ \E t \in Tasks, i \in Installers : AssignInstallerTask(t, i)
  \/ RevertTasksAccepted
  \/ \E d \in Devices : FromFile(d)
  \/ Worker
  \/ Operator

Spec == Init /\ [][Next]_vars

\* The event loop resumes a request whose call returned; the worker takes its
\* jobs first in, first out.
Fairness ==
  /\ \A r \in Requests : WF_vars(Step(r))
  /\ SF_vars(Worker)

FairSpec == Spec /\ Fairness

-----------------------------------------------------------------------------
(* Properties *)

\* Nothing in the field goes back, through any edit, file, payment, late answer
\* of an installer or hot fix: a device once installed stays installed
\* (validateStatusTransition), and a task that was rejected, completed or
\* cancelled never becomes open again.
NothingGoesBack ==
  [][/\ \A d \in Devices : status[d] = "installed" => status'[d] = "installed"
     /\ \A t \in Tasks : task[t].status \in {"REJECTED", "COMPLETED", "CANCELLED"}
          => task'[t].status \in {task[t].status, "CANCELLED"}]_vars

\* A task an installer can still work on belongs to a sale that exists: a
\* reversal leaves no installer on the way to a customer who bought nothing.
OpenTaskHasSale ==
  /\ TypeOK
  /\ \A t \in Tasks : task[t].status \in {"PENDING", "ACCEPTED"}
       => task[t].sale # NoSale /\ Live(task[t].sale)

\* An installation yields one code, although its job is retried; each further
\* one was asked for by an operator, or follows a mail that failed or the
\* reversal of the sale in between.
OneCodePerInstallation ==
  \A d \in Devices : \/ codes[d] <= 1 + reruns[d] + mailFailures
                     \/ \E s \in Sales : sale[s] = "undone" /\ d \in DevicesOf[s]

\* A device an installer has located ends with its code mailed or with a
\* failure an operator can see (a report, or a job kept as failed), unless its
\* sale is reversed, which deletes the reports too.
InstallationIsAnswered ==
  \A d \in Tokenable : (d \in located) ~>
    \/ d \in sent \/ d \in reported
    \/ \E j \in deadJobs : j.device = d
    \/ \E s \in Sales : d \in DevicesOf[s] /\ sale[s] = "undone"

=============================================================================
