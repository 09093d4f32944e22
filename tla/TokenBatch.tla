----------------------------- MODULE TokenBatch ----------------------------
(***************************************************************************)
(* Activation codes for every device named in an uploaded file: a job of   *)
(* the device queue reads the file and goes through its rows.              *)
(***************************************************************************)
EXTENDS Integers, FiniteSets

CONSTANTS
  BatchRows,       \* the devices the file names
  BatchAttempts,   \* attempts the job has
  MaxThrows,       \* bound: failures to report the progress
  MaxBatchDeaths   \* bound: deaths of the process

ASSUME BatchAssumption == BatchAttempts \in Nat \ {0} /\ {MaxThrows, MaxBatchDeaths} \subseteq Nat

VARIABLES
  batch,     \* the job: its state, the attempts left, and whether the file exists
  left,      \* rows the attempt has not come to
  holds,     \* the row whose code is not stored yet
  issued,    \* codes the vendor's service made for each row
  stored,    \* those that were stored
  throws, deaths

batchVars == <<batch, left, holds, issued, stored, throws, deaths>>

BatchTypeOK ==
  /\ batch \in [state : {"none", "waiting", "active", "done", "failed"}, attempts : 0 .. BatchAttempts, file : BOOLEAN]
  /\ left \subseteq BatchRows /\ holds \subseteq BatchRows
  /\ issued \in [BatchRows -> Nat] /\ stored \in [BatchRows -> Nat]
  /\ throws \in 0 .. MaxThrows /\ deaths \in 0 .. MaxBatchDeaths

BatchInit ==
  /\ batch = [state |-> "none", attempts |-> 0, file |-> FALSE]
  /\ left = {} /\ holds = {}
  /\ issued = [d \in BatchRows |-> 0] /\ stored = issued
  /\ throws = 0 /\ deaths = 0

\* queueBatchTokenGeneration
QueueBatch ==
  /\ batch.state = "none"
  /\ batch' = [state |-> "waiting", attempts |-> BatchAttempts, file |-> TRUE]
  /\ UNCHANGED <<left, holds, issued, stored, throws, deaths>>

\* Mutant of AttemptEnds: the upload is only removed after a success.
AttemptEndsKeepingFile ==
  [batch EXCEPT !.attempts = @ - 1, !.state = IF batch.attempts > 1 THEN "waiting" ELSE "failed"]

\* An attempt failed; whatever it was, its `finally' has removed the file.
AttemptEnds ==
  [state |-> IF batch.attempts > 1 THEN "waiting" ELSE "failed", attempts |-> batch.attempts - 1, file |-> FALSE]

\* process reads the file, which fails when it is gone.
StartBatch ==
  /\ batch.state = "waiting"
  /\ IF batch.file THEN batch' = [batch EXCEPT !.state = "active"] /\ left' = BatchRows
     ELSE batch' = AttemptEnds /\ UNCHANGED left
  /\ UNCHANGED <<holds, issued, stored, throws, deaths>>

\* createBatchDeviceTokensWithProgress, of a row: the service makes a code, or
\* the row is skipped with an error.
RequestRow(d) ==
  /\ batch.state = "active" /\ holds = {} /\ d \in left
  /\ left' = left \ {d}
  /\ \/ holds' = {d} /\ issued' = [issued EXCEPT ![d] = @ + 1]
     \/ UNCHANGED <<holds, issued>>
  /\ UNCHANGED <<batch, stored, throws, deaths>>

\* The device's count and the code are two writes.  One that fails is an error
\* of the row, and the next row follows.
StoreRow(d) ==
  /\ batch.state = "active" /\ d \in holds
  /\ holds' = {}
  /\ stored' \in {[stored EXCEPT ![d] = @ + 1], stored}
  /\ UNCHANGED <<batch, left, issued, throws, deaths>>

FinishBatch ==
  /\ batch.state = "active" /\ left = {} /\ holds = {}
  /\ batch' = [batch EXCEPT !.state = "done", !.file = FALSE]
  /\ UNCHANGED <<left, holds, issued, stored, throws, deaths>>

\* Reporting the progress before the first row or after the last fails the
\* attempt; between two rows it is an error of the row.
BatchThrows ==
  /\ batch.state = "active" /\ left \in {BatchRows, {}} /\ holds = {}
  /\ throws < MaxThrows
  /\ throws' = throws + 1
  /\ batch' = AttemptEnds /\ left' = {}
  /\ UNCHANGED <<holds, issued, stored, deaths>>

\* The process dies: the file stays, the stalled job starts at its first row,
\* and a code in hand is lost.
BatchDies ==
  /\ batch.state = "active" /\ deaths < MaxBatchDeaths
  /\ deaths' = deaths + 1
  /\ batch' = [batch EXCEPT !.state = "waiting"] /\ left' = {} /\ holds' = {}
  /\ UNCHANGED <<issued, stored, throws>>

BatchNext ==
  \/ QueueBatch \/ StartBatch \/ FinishBatch \/ BatchThrows \/ BatchDies
  \/ \E d \in BatchRows : RequestRow(d) \/ StoreRow(d)

BatchSpec == BatchInit /\ [][BatchNext]_batchVars

-----------------------------------------------------------------------------
(* What must hold *)

\* However often the job is tried again, a file makes at most one code for a
\* row, and one more for each death of the process: a second attempt finds no
\* file (process removes it in `finally').
BatchGeneratesOnce == \A d \in BatchRows : issued[d] <= 1 + deaths

\* The same, for every state of the job (process of the device queue).
BatchInOrder == BatchTypeOK /\ BatchGeneratesOnce

=============================================================================
