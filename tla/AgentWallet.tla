---------------------------- MODULE AgentWallet ----------------------------
(***************************************************************************)
(* The wallet of one agent: its balance, its ledger (WalletTransaction     *)
(* rows), the top-ups that Paystack and Ogaranya report, the jobs that     *)
(* verify a top-up by hand, and the payments and refunds that move money.  *)
(*                                                                         *)
(* A top-up is a ledger row with a unique reference whose status changes.  *)
(* Every other row is written COMPLETED, in the transaction that changes   *)
(* the balance, and never changes again.  `booked' is the sum of the       *)
(* COMPLETED rows, credits less debits.                                    *)
(*                                                                         *)
(* creditWallet and debitWallet run in a transaction: the database aborts  *)
(* one of two that touch the same wallet, so each is one step here.  What  *)
(* the code does outside a transaction is one step per write.              *)
(***************************************************************************)
EXTENDS Integers, FiniteSets, FiniteSetsExt

CONSTANTS
  TopUps,           \* references of the top-ups
  OgaranyaTopUps,   \* those initialised by Ogaranya; the others by Paystack
  Amount,           \* the amount of each top-up
  CreditAmounts,    \* amounts given to creditWallet and to restorations
  DebitAmounts,     \* amounts given to debitWallet
  CompletionAmount, \* PAYMENT_AMOUNT of completeSalePayment
  Handlers,         \* requests and jobs served at the same time
  NoTopUp,          \* what a handler without a top-up works on
  Overlap,          \* may two handlers work on the same top-up?
  LateFailures,     \* may Ogaranya report a failure after a success?
  Completions,      \* is completeSalePayment used?
  VerifyAttempts,   \* attempts of a verify-payment job
  MaxBalance,       \* bound: no voluntary credit above this balance
  MaxCrashes        \* bound: handlers lost before they finish

ASSUME TopUpsAssumption ==
  /\ IsFiniteSet(TopUps) /\ NoTopUp \notin TopUps
  /\ OgaranyaTopUps \subseteq TopUps
ASSUME AmountAssumption ==
  /\ Amount \in [TopUps -> Nat \ {0}]
  /\ CreditAmounts \subseteq Nat \ {0} /\ DebitAmounts \subseteq Nat \ {0}
  /\ CompletionAmount \in Nat \ {0}
ASSUME HandlersAssumption == IsFiniteSet(Handlers)
ASSUME FlagsAssumption ==
  Overlap \in BOOLEAN /\ LateFailures \in BOOLEAN /\ Completions \in BOOLEAN
ASSUME WalletBoundsAssumption ==
  VerifyAttempts \in Nat /\ MaxBalance \in Nat /\ MaxCrashes \in Nat

VARIABLES
  balance,   \* Wallet.balance
  booked,    \* sum of the COMPLETED ledger rows
  topUp,     \* status of the ledger row of each top-up
  paid,      \* top-ups the gateway has collected
  posted,    \* how often each top-up has been added to the balance
  handler,   \* what each handler still has to do
  verify,    \* attempts left of the verify-payment job of each top-up
  crashes

vars == <<balance, booked, topUp, paid, posted, handler, verify, crashes>>
wallet == <<balance, booked, posted>>

WalletTransactionStatus == {"none", "PENDING", "COMPLETED", "FAILED"}

\* "marking": the row was read, not COMPLETED; "posting": the row is marked,
\* the balance is not changed yet; "rejecting": a verification is about to
\* mark the row FAILED; "debiting": completeSalePayment saw enough money.
Stage == {"idle", "marking", "posting", "rejecting", "debiting"}

TypeOK ==
  /\ balance \in Int
  /\ booked \in Int
  /\ topUp \in [TopUps -> WalletTransactionStatus]
  /\ paid \subseteq TopUps
  /\ posted \in [TopUps -> Nat]
  /\ handler \in [Handlers -> [stage : Stage, ref : TopUps \cup {NoTopUp}]]
  /\ verify \in [TopUps -> 0 .. VerifyAttempts]
  /\ crashes \in 0 .. MaxCrashes

Idle == [stage |-> "idle", ref |-> NoTopUp]

Init ==
  /\ balance = 0
  /\ booked = 0
  /\ topUp = [ref \in TopUps |-> "none"]
  /\ paid = {}
  /\ posted = [ref \in TopUps |-> 0]
  /\ handler = [h \in Handlers |-> Idle]
  /\ verify = [ref \in TopUps |-> 0]
  /\ crashes = 0

-----------------------------------------------------------------------------

Busy(ref) == \E h \in Handlers : handler[h].ref = ref

\* Handler h takes the next stage of its work on a top-up.
Becomes(h, stage, ref) ==
  handler' = [handler EXCEPT ![h] = [stage |-> stage, ref |-> ref]]

\* Handler h starts on a top-up.
Takes(h, stage, ref) ==
  /\ handler[h] = Idle
  /\ Overlap \/ ~Busy(ref)
  /\ Becomes(h, stage, ref)

Finishes(h) == handler' = [handler EXCEPT ![h] = Idle]

\* createPaystackWalletTopUp, initializeWalletTopUp.
InitializeTopUp(ref) ==
  /\ topUp[ref] = "none"
  /\ topUp' = [topUp EXCEPT ![ref] = "PENDING"]
  /\ UNCHANGED <<wallet, paid, handler, verify, crashes>>

\* The agent pays at the gateway.
GatewayCollects(ref) ==
  /\ topUp[ref] # "none"
  /\ ref \notin paid
  /\ paid' = paid \cup {ref}
  /\ UNCHANGED <<wallet, topUp, handler, verify, crashes>>

-----------------------------------------------------------------------------
(* Notifications of the gateways *)

\* Mutant of ReceiveSuccess: the status of the row is not looked at.
ReceiveAnySuccess(h, ref) ==
  /\ ref \in paid
  /\ Takes(h, "marking", ref)
  /\ UNCHANGED <<wallet, topUp, paid, verify, crashes>>

\* Mutant of ReceiveSuccess: a FAILED row is not looked at again.
ReceivePendingSuccess(h, ref) ==
  /\ ref \in paid
  /\ topUp[ref] = "PENDING"
  /\ Takes(h, "marking", ref)
  /\ UNCHANGED <<wallet, topUp, paid, verify, crashes>>

\* handlePaystackWebhookPayload, handleWalletTopUpWebhook and
\* walletTopUpByReference read the row of a collected top-up; a row that is
\* COMPLETED is only acknowledged.  Gateways repeat a notification freely.
ReceiveSuccess(h, ref) ==
  /\ ref \in paid
  /\ topUp[ref] # "COMPLETED"
  /\ Takes(h, "marking", ref)
  /\ UNCHANGED <<wallet, topUp, paid, verify, crashes>>

\* Mutant of MarkCompleted: the row keeps its status.
MarkNothing(h) ==
  /\ handler[h].stage = "marking"
  /\ Becomes(h, "posting", handler[h].ref)
  /\ UNCHANGED <<wallet, topUp, paid, verify, crashes>>

\* Mutant of MarkCompleted: the balance is forgotten.
MarkCompletedOnly(h) ==
  /\ handler[h].stage = "marking"
  /\ topUp' = [topUp EXCEPT ![handler[h].ref] = "COMPLETED"]
  /\ Finishes(h)
  /\ UNCHANGED <<wallet, paid, verify, crashes>>

\* The first write: the row becomes COMPLETED whatever it is by now.
MarkCompleted(h) ==
  /\ handler[h].stage = "marking"
  /\ LET ref == handler[h].ref
     IN  /\ topUp' = [topUp EXCEPT ![ref] = "COMPLETED"]
         /\ booked' = booked + (IF topUp[ref] = "COMPLETED" THEN 0 ELSE Amount[ref])
         /\ Becomes(h, "posting", ref)
  /\ UNCHANGED <<balance, paid, posted, verify, crashes>>

\* The second write: an atomic increment of the balance.
PostCredit(h) ==
  /\ handler[h].stage = "posting"
  /\ LET ref == handler[h].ref
     IN  /\ balance' = balance + Amount[ref]
         /\ posted' = [posted EXCEPT ![ref] = @ + 1]
  /\ Finishes(h)
  /\ UNCHANGED <<booked, topUp, paid, verify, crashes>>

\* A row becomes FAILED whatever it was before.
MarkFailed(ref) ==
  /\ topUp' = [topUp EXCEPT ![ref] = "FAILED"]
  /\ booked' = booked - (IF topUp[ref] = "COMPLETED" THEN Amount[ref] ELSE 0)

\* Ogaranya reports a failure, or a success with another amount.
ReceiveFailure(ref) ==
  /\ ref \in OgaranyaTopUps
  /\ topUp[ref] # "none"
  /\ LateFailures \/ topUp[ref] # "COMPLETED"
  /\ Overlap \/ ~Busy(ref)
  /\ MarkFailed(ref)
  /\ UNCHANGED <<balance, paid, posted, handler, verify, crashes>>

-----------------------------------------------------------------------------
(* Verification by hand *)

\* The callback after a payment, or an operator, queues a verify-payment job.
RequestVerification(ref) ==
  /\ topUp[ref] # "none"
  /\ verify[ref] = 0
  /\ verify' = [verify EXCEPT ![ref] = VerifyAttempts]
  /\ UNCHANGED <<wallet, topUp, paid, handler, crashes>>

\* A row that is COMPLETED needs nothing; Paystack may not know of a payment.
VerifyNothingToDo(ref) ==
  /\ verify[ref] > 0
  /\ topUp[ref] = "COMPLETED" \/ (ref \notin OgaranyaTopUps /\ ref \notin paid)
  /\ verify' = [verify EXCEPT ![ref] = 0]
  /\ UNCHANGED <<wallet, topUp, paid, handler, crashes>>

\* verifyPaystackTopUp: creditWallet inserts a second ledger row with the
\* reference of the row that is being verified.  References are unique, so
\* its transaction is rolled back and the job fails.
VerifyPaystackTopUp(ref) ==
  /\ verify[ref] > 0
  /\ ref \in paid \ OgaranyaTopUps
  /\ topUp[ref] # "COMPLETED"
  /\ verify' = [verify EXCEPT ![ref] = @ - 1]
  /\ UNCHANGED <<wallet, topUp, paid, handler, crashes>>

\* verifyWalletTopUpManually: an Ogaranya top-up is an "unsupported gateway",
\* and is marked FAILED after the row was read.
VerifyOgaranyaTopUp(h, ref) ==
  /\ verify[ref] > 0
  /\ ref \in OgaranyaTopUps
  /\ topUp[ref] # "COMPLETED"
  /\ Takes(h, "rejecting", ref)
  /\ verify' = [verify EXCEPT ![ref] = @ - 1]
  /\ UNCHANGED <<wallet, topUp, paid, crashes>>

RejectTopUp(h) ==
  /\ handler[h].stage = "rejecting"
  /\ MarkFailed(handler[h].ref)
  /\ Finishes(h)
  /\ UNCHANGED <<balance, paid, posted, verify, crashes>>

-----------------------------------------------------------------------------
(* Money moved by the office and by sales *)

\* creditWallet with a fresh reference; restoreSaleOverpayment; the reversal
\* of a sale.
CreditWallet(amount) ==
  /\ balance + amount <= MaxBalance
  /\ balance' = balance + amount
  /\ booked' = booked + amount
  /\ UNCHANGED <<topUp, paid, posted, handler, verify, crashes>>

\* Mutant of DebitWallet: only the caller's earlier reading was checked.
DebitUnchecked(amount) ==
  /\ balance > 0
  /\ balance' = balance - amount
  /\ booked' = booked - amount
  /\ UNCHANGED <<topUp, paid, posted, handler, verify, crashes>>

\* debitWallet, and payInvoice, check the balance within the transaction.
DebitWallet(amount) ==
  /\ balance >= amount
  /\ balance' = balance - amount
  /\ booked' = booked - amount
  /\ UNCHANGED <<topUp, paid, posted, handler, verify, crashes>>

\* Mutant of CheckCompletion: the balance is not looked at.
CheckNothing(h) ==
  /\ Completions
  /\ handler[h] = Idle
  /\ Becomes(h, "debiting", NoTopUp)
  /\ UNCHANGED <<wallet, topUp, paid, verify, crashes>>

\* completeSalePayment reads the balance before its transaction ...
CheckCompletion(h) ==
  /\ Completions
  /\ handler[h] = Idle
  /\ balance >= CompletionAmount
  /\ Becomes(h, "debiting", NoTopUp)
  /\ UNCHANGED <<wallet, topUp, paid, verify, crashes>>

\* Mutant of CompleteSalePayment: no ledger row.
CompleteWithoutRow(h) ==
  /\ handler[h].stage = "debiting"
  /\ balance' = balance - CompletionAmount
  /\ Finishes(h)
  /\ UNCHANGED <<booked, topUp, paid, posted, verify, crashes>>

\* ... and decrements it there unconditionally.
CompleteSalePayment(h) ==
  /\ handler[h].stage = "debiting"
  /\ balance' = balance - CompletionAmount
  /\ booked' = booked - CompletionAmount
  /\ Finishes(h)
  /\ UNCHANGED <<topUp, paid, posted, verify, crashes>>

-----------------------------------------------------------------------------

\* The process dies, or a write fails, and the handler does not come back.
Crash(h) ==
  /\ handler[h] # Idle
  /\ crashes < MaxCrashes
  /\ crashes' = crashes + 1
  /\ Finishes(h)
  /\ UNCHANGED <<wallet, topUp, paid, verify>>

HandlerStep(h) ==
  \/ MarkCompleted(h)
  \/ PostCredit(h)
  \/ RejectTopUp(h)
  \/ CompleteSalePayment(h)

RunVerification(ref) ==
  \/ VerifyNothingToDo(ref)
  \/ VerifyPaystackTopUp(ref)
  \/ \E h \in Handlers : VerifyOgaranyaTopUp(h, ref)

TopUpStep(ref) ==
  \/ InitializeTopUp(ref)
  \/ GatewayCollects(ref)
  \/ \E h \in Handlers : ReceiveSuccess(h, ref)
  \/ ReceiveFailure(ref)
  \/ RequestVerification(ref)
  \/ RunVerification(ref)

Next ==
  \/ \E ref \in TopUps : TopUpStep(ref)
  \/ \E h \in Handlers : HandlerStep(h) \/ CheckCompletion(h) \/ Crash(h)
  \/ \E amount \in CreditAmounts : CreditWallet(amount)
  \/ \E amount \in DebitAmounts : DebitWallet(amount)

Spec == Init /\ [][Next]_vars

\* A running handler goes on, a queued job is run, and a gateway repeats a
\* notification until it is acknowledged, however often a verification gets
\* in its way.
FairSpec ==
  /\ Spec
  /\ \A h \in Handlers : WF_vars(HandlerStep(h))
  /\ \A ref \in TopUps : /\ WF_vars(RunVerification(ref))
                         /\ SF_vars(\E h \in Handlers : ReceiveSuccess(h, ref))

-----------------------------------------------------------------------------
(* Properties *)

\* However often the gateway reports a top-up, whatever crashes and is
\* verified by hand, the wallet is credited for it at most once.
PostedAtMostOnce == \A ref \in TopUps : posted[ref] <= 1

\* Handlers of completeSalePayment that have looked at the balance.
Debiting == {h \in Handlers : handler[h].stage = "debiting"}

\* completeSalePayment takes what it saw before its transaction, and
\* debitWallet and other completions take from the balance meanwhile.  It may
\* go below zero, but only by what the handlers that run at the same time
\* take: whoever comes later sees it.
OverdraftBounded ==
  balance >= - CompletionAmount * (Cardinality(Handlers) - Cardinality(Debiting))

\* Top-ups that are COMPLETED in the ledger and not in the balance.
Unposted == {ref \in TopUps : topUp[ref] = "COMPLETED" /\ posted[ref] = 0}

Owed == SumFunction([ref \in TopUps |-> IF ref \in Unposted THEN Amount[ref] ELSE 0])

\* Those whose handler was lost between its two writes
\* (handlePaystackWebhookPayload): nobody will add them.
Stranded == {ref \in Unposted : ~Busy(ref)}

\* The ledger and the balance differ by the top-ups between the two writes of
\* their handler, and by at most one for each handler that was lost there.
LedgerAgrees == booked = balance + Owed /\ Cardinality(Stranded) <= crashes

\* A collected top-up reaches the wallet, unless its handler was lost between
\* its two writes.
CollectedIsPosted ==
  \A ref \in TopUps : (ref \in paid) ~> (posted[ref] > 0 \/ ref \in Stranded)

\* The wallet does what IdealWallet promises.
Ideal == INSTANCE IdealWallet
  WITH Payers <- Handlers, available <- balance, approved <- Debiting,
       deposited <- {ref \in TopUps : posted[ref] > 0}
IdealSpec == Ideal!Spec

=============================================================================
