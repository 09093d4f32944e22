---------------------------- MODULE MCFieldWork ----------------------------
(***************************************************************************)
(* The sales and devices the model checker explores FieldWork with.        *)
(***************************************************************************)
EXTENDS FieldWork

CONSTANTS d1, d2, r1, r2

\* Each sale is for both devices: installing them is two steps at least.
SaleDevices == [s \in Sales |-> {d1, d2}]

\* What may overlap: whatever writes tasks with whatever writes devices.
TaskOps == {"create", "accept", "reject", "complete", "undo"}
Together == {{a, b} : a \in TaskOps \cup {"install"}, b \in {"sync", "mark"}}
            \cup {{a, b} : a \in TaskOps, b \in {"status", "file"}}

\* One request of people, and one of what runs by itself or for a payment.
ServedBy == [r \in Requests |-> IF r = r1 THEN Op \ {"sync", "mark"} ELSE {"sync", "mark"}]

\* Everywhere but between locating a device and queueing its job.
Crashes == Stage \ {"idle", "queueing"}
Forward == {"", "installed"}

=============================================================================
