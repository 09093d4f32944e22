------------------------------ MODULE CsvImport -----------------------------
(***************************************************************************)
(* The import of historical sales: a session in memory, a job for each row *)
(* of the file, and one worker that finds or creates what the row names    *)
(* and starts over when an attempt fails.                                  *)
(*                                                                         *)
(* Nothing injects the generator of sale numbers, so the creation of the   *)
(* sale throws in every attempt; what comes after it is never reached.     *)
(***************************************************************************)
EXTENDS Integers, Sequences, FiniteSetsExt

CONSTANTS
  Rows,            \* the rows of the file
  RowData,         \* the agent, the customer's names and phone, the device of each
  KnownDevices,    \* devices that exist
  KnownCustomers,  \* customers, with an address, that may exist before
  RowAttempts,     \* attempts a job has
  MaxStalls        \* bound: deaths of the process; a job survives one

Person == [names : {RowData[r].names : r \in Rows}, phone : {RowData[r].phone : r \in Rows}, imported : BOOLEAN]

\* A file without rows is refused (processSalesFile).
ASSUME ImportAssumption ==
  /\ IsFiniteSet(Rows) /\ Rows # {} /\ KnownCustomers \subseteq Person
  /\ RowAttempts \in Nat \ {0} /\ MaxStalls \in 0 .. 1

VARIABLES
  job,         \* the state of each row's job and the attempts left
  worker,      \* the row being processed and its next step
  session,     \* the statistics of the upload
  users,       \* accounts of agents
  profiles,    \* accounts with an agent's profile
  people,      \* customers
  catalogue,   \* whether the rows' product and inventory exist
  batches,     \* inventory batches made for each row
  contracts,   \* contracts made for each row
  stalls,      \* deaths of the process
  flushed      \* whether the queue was emptied by hand

importVars == <<job, worker, session, users, profiles, people, catalogue, batches, contracts, stalls, flushed>>
entities == <<users, profiles, people, catalogue, batches, contracts>>

NoRow == [row |-> "none", step |-> "none"]

ImportTypeOK ==
  /\ job \in [Rows -> [state : {"none", "waiting", "active", "failed", "gone"}, left : 0 .. RowAttempts]]
  /\ worker = NoRow \/ worker \in [row : Rows, step : {"agent", "profile", "customer", "product", "batch", "device", "contract", "sale"}]
  /\ session \in [status : {"none", "pending", "processing", "completed", "lost"}, processed : Nat, errors : Nat]
  /\ profiles \subseteq users /\ users \subseteq {RowData[r].agent : r \in Rows}
  /\ people \in Seq(Person)
  /\ catalogue \in BOOLEAN
  /\ batches \in [Rows -> Nat] /\ contracts \in [Rows -> Nat]
  /\ stalls \in 0 .. MaxStalls /\ flushed \in BOOLEAN

ImportInit ==
  /\ job = [r \in Rows |-> [state |-> "none", left |-> 0]]
  /\ worker = NoRow
  /\ session = [status |-> "none", processed |-> 0, errors |-> 0]
  /\ users = {} /\ profiles = {} /\ catalogue = FALSE
  /\ people \in {<< >>} \cup {<<p>> : p \in KnownCustomers}
  /\ batches = [r \in Rows |-> 0] /\ contracts = [r \in Rows |-> 0]
  /\ stalls = 0 /\ flushed = FALSE

-----------------------------------------------------------------------------
(* The session and the queue *)

\* processSalesFile and queueRowProcessingJobs
UploadFile ==
  /\ session.status = "none"
  /\ session' = [session EXCEPT !.status = "pending"]
  /\ job' = [r \in Rows |-> [state |-> "waiting", left |-> RowAttempts]]
  /\ UNCHANGED <<worker, entities, stalls, flushed>>

\* Mutant of ReportFailure: a session that is completed counts no more.
ReportUntilCompleted(s) ==
  IF s.status \in {"lost", "completed"} THEN s
  ELSE [status |-> IF s.processed + 1 >= Cardinality(Rows) THEN "completed" ELSE "processing",
        processed |-> s.processed + 1, errors |-> s.errors + 1]

\* updateSessionProgress, of an attempt that failed: every attempt counts as a
\* record.  A session that is lost is only warned about.
ReportFailure(s) ==
  IF s.status = "lost" THEN s
  ELSE [status |-> IF s.processed + 1 >= Cardinality(Rows) THEN "completed" ELSE "processing",
        processed |-> s.processed + 1, errors |-> s.errors + 1]

TakeRow(r) ==
  /\ worker = NoRow /\ job[r].state = "waiting"
  /\ job' = [job EXCEPT ![r].state = "active"]
  /\ worker' = [row |-> r, step |-> "agent"]
  /\ UNCHANGED <<session, entities, stalls, flushed>>

\* The processor reports the failure and throws; the queue tries again while
\* attempts are left, if the job is still there.
Throws ==
  /\ job' = [job EXCEPT ![worker.row] =
       [state |-> IF @.state = "gone" THEN "gone" ELSE IF @.left > 1 THEN "waiting" ELSE "failed",
        left |-> @.left - 1]]
  /\ worker' = NoRow
  /\ session' = ReportFailure(session)
  /\ UNCHANGED <<stalls, flushed>>

Does(step, next) == worker.step = step /\ worker' = [worker EXCEPT !.step = next]
Row == RowData[worker.row]

\* Any of a row's queries may fail.
AttemptFails ==
  /\ worker # NoRow
  /\ Throws
  /\ UNCHANGED entities

\* The process dies: its sessions are lost, and the stalled job runs again.
ProcessDies ==
  /\ worker # NoRow /\ stalls < MaxStalls
  /\ stalls' = stalls + 1
  /\ job' = [job EXCEPT ![worker.row].state = IF @ = "gone" THEN "gone" ELSE "waiting"]
  /\ worker' = NoRow
  /\ session' = [session EXCEPT !.status = "lost"]
  /\ UNCHANGED <<entities, flushed>>

\* flushQueue: the jobs go, the active one too; the row being processed goes
\* on being written, and its failure is reported.
FlushQueue ==
  /\ session.status # "none" /\ ~flushed
  /\ \E r \in Rows : job[r].state \in {"waiting", "active"}
  /\ flushed' = TRUE
  /\ job' = [r \in Rows |-> [job[r] EXCEPT !.state = "gone"]]
  /\ UNCHANGED <<worker, session, entities, stalls>>

-----------------------------------------------------------------------------
(* processSalesRow *)

\* createOrFindAgent: the account and its profile are two writes, and the
\* second is an upsert.
FindAgent ==
  /\ Does("agent", "profile")
  /\ users' = users \cup {Row.agent}
  /\ UNCHANGED <<job, session, profiles, people, catalogue, batches, contracts, stalls, flushed>>

FindProfile ==
  /\ Does("profile", "customer")
  /\ profiles' = profiles \cup {Row.agent}
  /\ UNCHANGED <<job, session, users, people, catalogue, batches, contracts, stalls, flushed>>

\* Mutant of Matches: the phone alone decides.
MatchesPhone(p, row) == p.names = row.names /\ p.phone = row.phone

\* The customer has the row's names, and its phone or, as rows have none, no
\* address: whoever was imported under these names is found.
Matches(p, row) == p.names = row.names /\ (p.phone = row.phone \/ p.imported)

FindCustomer ==
  /\ Does("customer", "product")
  /\ people' = IF \E i \in DOMAIN people : Matches(people[i], Row) THEN people
               ELSE Append(people, [names |-> Row.names, phone |-> Row.phone, imported |-> TRUE])
  /\ UNCHANGED <<job, session, users, profiles, catalogue, batches, contracts, stalls, flushed>>

FindProduct ==
  /\ Does("product", "batch")
  /\ catalogue' = TRUE
  /\ UNCHANGED <<job, session, users, profiles, people, batches, contracts, stalls, flushed>>

\* createInventoryAndDevice: the batch is new in every attempt.
CreateBatch ==
  /\ Does("batch", "device")
  /\ batches' = [batches EXCEPT ![worker.row] = @ + 1]
  /\ UNCHANGED <<job, session, users, profiles, people, catalogue, contracts, stalls, flushed>>

\* A device that must be created is given a column the schema does not have.
FindDevice ==
  /\ worker.step = "device"
  /\ IF Row.device \in KnownDevices
     THEN Does("device", "contract") /\ UNCHANGED <<job, session, stalls, flushed>>
     ELSE Throws
  /\ UNCHANGED entities

CreateContract ==
  /\ Does("contract", "sale")
  /\ contracts' = [contracts EXCEPT ![worker.row] = @ + 1]
  /\ UNCHANGED <<job, session, users, profiles, people, catalogue, batches, stalls, flushed>>

\* createSale asks a generator that is undefined for the number.
CreateSale ==
  /\ worker.step = "sale"
  /\ Throws
  /\ UNCHANGED entities

-----------------------------------------------------------------------------
ProcessSalesRow ==
  \/ FindAgent \/ FindProfile \/ FindCustomer \/ FindProduct
  \/ CreateBatch \/ FindDevice \/ CreateContract \/ CreateSale

ImportNext ==
  \/ UploadFile \/ AttemptFails \/ ProcessDies \/ FlushQueue \/ ProcessSalesRow
  \/ \E r \in Rows : TakeRow(r)

ImportSpec == ImportInit /\ [][ImportNext]_importVars

-----------------------------------------------------------------------------
(* What must hold *)

\* However often rows are tried again, no two imported customers share their
\* names, and none was registered with the names and phone of an earlier one
\* (createOrFindCustomer).
NoTwins ==
  \A i, j \in DOMAIN people :
    i < j /\ people[i].names = people[j].names
      => ~people[i].imported /\ people[i].phone # people[j].phone

\* When the last attempt of the last row has failed, the session, if it was not
\* lost, has counted them all and says so (process, updateSessionProgress).
QuietMeansReported ==
  (\A r \in Rows : job[r].state = "failed") =>
    \/ session.status = "lost"
    \/ session.status = "completed" /\ session.errors = RowAttempts * Cardinality(Rows)

\* Both, in every state of the import (processSalesRow, process).
ImportsInOrder == ImportTypeOK /\ NoTwins /\ QuietMeansReported

=============================================================================
