------------------------- MODULE DeviceInstallation -------------------------
(***************************************************************************)
(* The devices of sales in the field: how far each is installed, the       *)
(* administrators' edits of that, the codes the installed ones get, and    *)
(* the worker of device-processing, which generates and sends the codes.   *)
(*                                                                         *)
(* The codes themselves come from the BeeBeeJump service; they are         *)
(* counted here, not computed.  InstallerTask adds the requests of the     *)
(* installers, FieldWork composes both with payments and reversals.        *)
(***************************************************************************)
EXTENDS Naturals, FiniteSets

CONSTANTS
  Sales,
  Devices,
  DevicesOf,       \* the devices of each sale
  Tokenable,       \* devices with Device.isTokenable
  DeviceAttempts,  \* attempts of a process-device-token-send job
  CsvStatus,       \* statuses a restoration file holds for a device, or ""
  MaxMailFailures, \* bound: failures of the mail server
  MaxReruns        \* bound: an operator's reruns of a failed generation

Status == {"not_installed", "ready_for_installation", "installed"}

ASSUME DevicesAssumption ==
  /\ DevicesOf \in [Sales -> SUBSET Devices]
  /\ Tokenable \subseteq Devices
  /\ CsvStatus \subseteq Status \cup {""}
ASSUME DeviceLimits ==
  /\ DeviceAttempts \in Nat \ {0}
  /\ MaxMailFailures \in Nat /\ MaxReruns \in Nat

VARIABLES
  sale,         \* "none", "unpaid": not paid up, "paid": paid up, "undone"
  status,       \* Device.installationStatus
  located,      \* devices located by an installer (updateDeviceLocation)
  codes,        \* codes stored for each device by its installation
  sent,         \* devices whose installation's code was mailed
  reported,     \* devices with a TokenGenerationFailure, resolved or not
  reruns,       \* an operator's reruns of the generation of each device
  deviceJobs,   \* waiting process-device-token-send jobs
  deadJobs,     \* those kept after their last attempt
  mailFailures

tokens == <<codes, sent, reported, reruns>>
deviceQueue == <<deviceJobs, deadJobs>>
deviceVars == <<status, located, tokens, deviceQueue, mailFailures>>

Live(s) == sale[s] \in {"unpaid", "paid"}

\* What updateDeviceLocation puts in the job: the device with its first sale
\* item, and the sale as it was then.
DeviceJob == [device : Devices, sale : Sales, paid : BOOLEAN, attempts : 1 .. DeviceAttempts]

DeviceTypeOK ==
  /\ sale \in [Sales -> {"none", "unpaid", "paid", "undone"}]
  /\ status \in [Devices -> Status]
  /\ located \subseteq Devices
  /\ codes \in [Devices -> Nat]
  /\ sent \subseteq Devices
  /\ reported \subseteq Devices
  /\ reruns \in [Devices -> 0 .. MaxReruns]
  /\ deviceJobs \subseteq DeviceJob
  /\ deadJobs \subseteq DeviceJob
  /\ mailFailures \in 0 .. MaxMailFailures

DeviceInit ==
  /\ status = [d \in Devices |-> "not_installed"]
  /\ located = {}
  /\ codes = [d \in Devices |-> 0]
  /\ sent = {}
  /\ reported = {}
  /\ reruns = [d \in Devices |-> 0]
  /\ deviceJobs = {}
  /\ deadJobs = {}
  /\ mailFailures = 0

-----------------------------------------------------------------------------
(* Installation *)

\* Mutant of TransitionAllowed: any other status may be set.
AnyTransition(from, to) == from # to

\* validateStatusTransition.
TransitionAllowed(from, to) ==
  \/ from = "not_installed" /\ to = "ready_for_installation"
  \/ from = "ready_for_installation" /\ to = "installed"

\* Mutant of StatusAfterPayment: a sale with an open task gets ready again.
StatusReadyAgain(devices, taskStatus) ==
  [d \in Devices |-> IF d \notin devices \/ taskStatus = "none" THEN status[d]
                     ELSE IF taskStatus = "COMPLETED" THEN "installed" ELSE "ready_for_installation"]

\* markDevicesReadyForInstallation, run by each payment, once it has read the
\* sale and one of its tasks: the devices of a COMPLETED task are installed;
\* for another task nothing; and without a task it looks the creating user up
\* among the agents' ids, finds none and throws, which is swallowed.
StatusAfterPayment(devices, taskStatus) ==
  [d \in Devices |-> IF d \in devices /\ taskStatus = "COMPLETED" THEN "installed" ELSE status[d]]

\* syncDeviceInstallationStatus and its streaming form: the devices of sales
\* with a COMPLETED task, as read before the transaction.
StatusAfterSync(devices) ==
  [d \in Devices |-> IF d \in devices THEN "installed" ELSE status[d]]

\* processDeviceLocationRow: a spreadsheet row says where a device is.
LocateFromFile(d) ==
  /\ status' = [status EXCEPT ![d] = "installed"]
  /\ UNCHANGED <<located, tokens, deviceQueue, mailFailures>>

\* restoreTokensFromCsv: the row's status, unless it is blank; codes that
\* exist are skipped.
RestoreFromCsv(d) ==
  /\ \E st \in CsvStatus : status' = [status EXCEPT ![d] = IF st = "" THEN @ ELSE st]
  /\ UNCHANGED <<located, tokens, deviceQueue, mailFailures>>

-----------------------------------------------------------------------------
(* Codes of an installation: processDeviceTokenSend *)

Consume(j) == deviceJobs' = deviceJobs \ {j} /\ UNCHANGED deadJobs

\* Mutant of Retry: one attempt too many.
RetryOnceMore(j) ==
  deviceJobs' = (deviceJobs \ {j}) \cup {[j EXCEPT !.attempts = @ - 1]} /\ UNCHANGED deadJobs

\* The worker caught an exception: another attempt, or the failed jobs.
Retry(j) ==
  IF j.attempts > 1
  THEN deviceJobs' = (deviceJobs \ {j}) \cup {[j EXCEPT !.attempts = @ - 1]} /\ UNCHANGED deadJobs
  ELSE deviceJobs' = deviceJobs \ {j} /\ deadJobs' = deadJobs \cup {j}

Store(d) == codes' = [codes EXCEPT ![d] = @ + 1]

\* tokenFailureService.recordFailure: writes a row, then the sale; a sale that
\* is gone makes the second throw, out of the job.
RecordFailure(j) ==
  /\ reported' = reported \cup {j.device}
  /\ IF Live(j.sale) THEN Consume(j) ELSE Retry(j)

\* Not tokenable: nothing to send.
SkipDeviceJob(j) ==
  /\ j.device \notin Tokenable
  /\ Consume(j)
  /\ UNCHANGED <<sale, status, located, tokens, mailFailures>>

\* Mutant of GenerationFails: the failure is only logged.
GenerationForgotten(j) ==
  /\ j.device \in Tokenable
  /\ Consume(j)
  /\ UNCHANGED <<sale, status, located, tokens, mailFailures>>

\* generateAndSendTokensForDevice: the service answers with an error.
GenerationFails(j) ==
  /\ j.device \in Tokenable
  /\ RecordFailure(j)
  /\ UNCHANGED <<sale, status, located, codes, sent, reruns, mailFailures>>

\* Mutant of GenerateUnpaid: the exception leaves the job.
UnpaidRetried(j) ==
  /\ j.device \in Tokenable /\ ~j.paid
  /\ Store(j.device)
  /\ Retry(j)
  /\ UNCHANGED <<sale, status, located, sent, reported, reruns, mailFailures>>

\* The code is stored.  Of a sale that is not paid up the remaining
\* instalments are read from an undefined value: that throws, and the stored
\* code is recorded as a failure and not sent.
GenerateUnpaid(j) ==
  /\ j.device \in Tokenable /\ ~j.paid
  /\ Store(j.device)
  /\ RecordFailure(j)
  /\ UNCHANGED <<sale, status, located, sent, reruns, mailFailures>>

\* The code is stored and mailed; when the mail fails the job is run again.
GeneratePaid(j) ==
  /\ j.device \in Tokenable /\ j.paid
  /\ Store(j.device)
  /\ \/ sent' = sent \cup {j.device} /\ Consume(j) /\ UNCHANGED mailFailures
     \/ /\ mailFailures < MaxMailFailures /\ mailFailures' = mailFailures + 1
        /\ Retry(j)
        /\ UNCHANGED sent
  /\ UNCHANGED <<sale, status, located, reported, reruns>>

ProcessDeviceJob(j) ==
  SkipDeviceJob(j) \/ GenerationFails(j) \/ GenerateUnpaid(j) \/ GeneratePaid(j)

\* handleFailedDeviceTokenGeneration: an operator runs the generation again
\* for a sale the device is in, and the sale is read without its customer.
\* Whether it is paid up (the customer's phone is read) or not (the remaining
\* instalments are), that throws once the code is stored: the failure is
\* recorded again, beside the one that was there, and nothing is mailed.
RerunGeneration(d, s) ==
  /\ d \in reported \cap Tokenable \cap DevicesOf[s]
  /\ Live(s)
  /\ reruns[d] < MaxReruns
  /\ reruns' = [reruns EXCEPT ![d] = @ + 1]
  /\ UNCHANGED codes \/ Store(d)
  /\ UNCHANGED <<sale, status, located, sent, reported, deviceQueue, mailFailures>>

=============================================================================
