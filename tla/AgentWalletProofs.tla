------------------------- MODULE AgentWalletProofs -------------------------
(***************************************************************************)
(* Proofs about AgentWallet for every set of top-ups, amounts, handlers    *)
(* and crashes, when no two handlers work on the same top-up at a time and *)
(* Ogaranya reports no failure after a success.                            *)
(***************************************************************************)
EXTENDS AgentWallet, SumTheorems, FiniteSetTheorems, TLAPS

USE TopUpsAssumption, AmountAssumption, FlagsAssumption, WalletBoundsAssumption

-----------------------------------------------------------------------------
(* Type correctness *)

\* The operators that move a handler keep the type of `handler'.
LEMMA HandlerType ==
  ASSUME TypeOK, NEW h \in Handlers
  PROVE  /\ Finishes(h) => handler' \in [Handlers -> [stage : Stage, ref : TopUps \cup {NoTopUp}]]
         /\ \A stage \in Stage, ref \in TopUps \cup {NoTopUp} :
              Becomes(h, stage, ref)
                => handler' \in [Handlers -> [stage : Stage, ref : TopUps \cup {NoTopUp}]]
BY DEF TypeOK, Finishes, Becomes, Idle, Stage

\* A handler at work, other than on a debit, has a top-up, and no other has.
HandlersHaveTopUps ==
  \A h \in Handlers :
    IF handler[h].stage \in {"marking", "posting", "rejecting"}
      THEN handler[h].ref \in TopUps
      ELSE handler[h].ref = NoTopUp

LEMMA TopUpStepType ==
  ASSUME TypeOK, HandlersHaveTopUps, NEW ref \in TopUps, TopUpStep(ref)
  PROVE  TypeOK' /\ HandlersHaveTopUps'
<1>1. CASE InitializeTopUp(ref)
  BY <1>1 DEF TypeOK, HandlersHaveTopUps, InitializeTopUp, wallet, WalletTransactionStatus
<1>2. CASE GatewayCollects(ref)
  BY <1>2 DEF TypeOK, HandlersHaveTopUps, GatewayCollects, wallet
<1>3. ASSUME NEW h \in Handlers, ReceiveSuccess(h, ref)
      PROVE  TypeOK' /\ HandlersHaveTopUps'
  <2>1. handler' \in [Handlers -> [stage : Stage, ref : TopUps \cup {NoTopUp}]]
    BY <1>3, HandlerType DEF ReceiveSuccess, Takes, Stage
  <2> QED
    BY <1>3, <2>1 DEF TypeOK, HandlersHaveTopUps, ReceiveSuccess, Takes, Becomes, wallet
<1>4. CASE ReceiveFailure(ref)
  BY <1>4 DEF TypeOK, HandlersHaveTopUps, ReceiveFailure, MarkFailed, WalletTransactionStatus
<1>5. CASE RequestVerification(ref)
  BY <1>5 DEF TypeOK, HandlersHaveTopUps, RequestVerification, wallet
<1>6. CASE VerifyNothingToDo(ref) \/ VerifyPaystackTopUp(ref)
  BY <1>6 DEF TypeOK, HandlersHaveTopUps, VerifyNothingToDo, VerifyPaystackTopUp, wallet
<1>7. ASSUME NEW h \in Handlers, VerifyOgaranyaTopUp(h, ref)
      PROVE  TypeOK' /\ HandlersHaveTopUps'
  <2>1. handler' \in [Handlers -> [stage : Stage, ref : TopUps \cup {NoTopUp}]]
    BY <1>7, HandlerType DEF VerifyOgaranyaTopUp, Takes, Stage
  <2> QED
    BY <1>7, <2>1 DEF TypeOK, HandlersHaveTopUps, VerifyOgaranyaTopUp, Takes, Becomes, wallet
<1> QED
  BY <1>1, <1>2, <1>3, <1>4, <1>5, <1>6, <1>7 DEF TopUpStep, RunVerification

LEMMA HandlerStepType ==
  ASSUME TypeOK, HandlersHaveTopUps, NEW h \in Handlers,
         HandlerStep(h) \/ CheckCompletion(h) \/ Crash(h)
  PROVE  TypeOK' /\ HandlersHaveTopUps'
<1>1. CASE MarkCompleted(h)
  <2>1. handler[h].ref \in TopUps
    BY <1>1 DEF MarkCompleted, HandlersHaveTopUps
  <2>2. handler' \in [Handlers -> [stage : Stage, ref : TopUps \cup {NoTopUp}]]
    BY <1>1, <2>1, HandlerType DEF MarkCompleted, Stage
  <2> QED
    BY <1>1, <2>1, <2>2 DEF TypeOK, HandlersHaveTopUps, MarkCompleted, Becomes, WalletTransactionStatus
<1>2. CASE PostCredit(h)
  <2>1. handler[h].ref \in TopUps
    BY <1>2 DEF PostCredit, HandlersHaveTopUps
  <2>2. handler' \in [Handlers -> [stage : Stage, ref : TopUps \cup {NoTopUp}]]
    BY <1>2, HandlerType DEF PostCredit
  <2> QED
    BY <1>2, <2>1, <2>2 DEF TypeOK, HandlersHaveTopUps, PostCredit, Finishes, Idle
<1>3. CASE RejectTopUp(h)
  <2>1. handler[h].ref \in TopUps
    BY <1>3 DEF RejectTopUp, HandlersHaveTopUps
  <2>2. handler' \in [Handlers -> [stage : Stage, ref : TopUps \cup {NoTopUp}]]
    BY <1>3, HandlerType DEF RejectTopUp
  <2> QED
    BY <1>3, <2>1, <2>2 DEF TypeOK, HandlersHaveTopUps, RejectTopUp, MarkFailed, Finishes, Idle,
                            WalletTransactionStatus
<1>4. CASE CompleteSalePayment(h)
  <2>1. handler' \in [Handlers -> [stage : Stage, ref : TopUps \cup {NoTopUp}]]
    BY <1>4, HandlerType DEF CompleteSalePayment
  <2> QED
    BY <1>4, <2>1 DEF TypeOK, HandlersHaveTopUps, CompleteSalePayment, Finishes, Idle
<1>5. CASE CheckCompletion(h)
  <2>1. handler' \in [Handlers -> [stage : Stage, ref : TopUps \cup {NoTopUp}]]
    BY <1>5, HandlerType DEF CheckCompletion, Stage
  <2> QED
    BY <1>5, <2>1 DEF TypeOK, HandlersHaveTopUps, CheckCompletion, Becomes, wallet
<1>6. CASE Crash(h)
  <2>1. handler' \in [Handlers -> [stage : Stage, ref : TopUps \cup {NoTopUp}]]
    BY <1>6, HandlerType DEF Crash
  <2> QED
    BY <1>6, <2>1 DEF TypeOK, HandlersHaveTopUps, Crash, Finishes, Idle, wallet
<1> QED
  BY <1>1, <1>2, <1>3, <1>4, <1>5, <1>6 DEF HandlerStep

LEMMA NextType == TypeOK /\ HandlersHaveTopUps /\ [Next]_vars => TypeOK' /\ HandlersHaveTopUps'
<1> SUFFICES ASSUME TypeOK, HandlersHaveTopUps, [Next]_vars PROVE TypeOK' /\ HandlersHaveTopUps'
  OBVIOUS
<1>1. ASSUME NEW amount \in CreditAmounts, CreditWallet(amount)
      PROVE  TypeOK' /\ HandlersHaveTopUps'
  BY <1>1 DEF TypeOK, HandlersHaveTopUps, CreditWallet
<1>2. ASSUME NEW amount \in DebitAmounts, DebitWallet(amount)
      PROVE  TypeOK' /\ HandlersHaveTopUps'
  BY <1>2 DEF TypeOK, HandlersHaveTopUps, DebitWallet
<1>3. CASE UNCHANGED vars
  BY <1>3 DEF TypeOK, HandlersHaveTopUps, vars
<1> QED
  BY <1>1, <1>2, <1>3, TopUpStepType, HandlerStepType DEF Next

\* The variables of the wallet keep their types, whatever overlaps or crashes.
THEOREM WalletTypeCorrect == Spec => [](TypeOK /\ HandlersHaveTopUps)
<1>1. Init => TypeOK /\ HandlersHaveTopUps
  BY DEF Init, TypeOK, HandlersHaveTopUps, Idle, Stage, WalletTransactionStatus
<1> QED
  BY <1>1, NextType, PTL DEF Spec

-----------------------------------------------------------------------------
(* A top-up is credited at most once *)

\* While handlers do not share a top-up: what is not COMPLETED was never
\* posted, what a handler is about to mark is not COMPLETED, and what it is
\* about to post is COMPLETED and was never posted.
PostingInv ==
  /\ PostedAtMostOnce
  /\ \A ref \in TopUps : topUp[ref] # "COMPLETED" => posted[ref] = 0
  /\ \A h \in Handlers :
       /\ handler[h].stage \in {"marking", "rejecting"} => topUp[handler[h].ref] # "COMPLETED"
       /\ handler[h].stage = "posting" =>
            topUp[handler[h].ref] = "COMPLETED" /\ posted[handler[h].ref] = 0
  /\ \A h, k \in Handlers :
       handler[h].ref = handler[k].ref /\ h # k => handler[h].ref = NoTopUp

LEMMA TopUpStepPosting ==
  ASSUME ~Overlap, ~LateFailures, TypeOK, HandlersHaveTopUps, PostingInv,
         NEW ref \in TopUps, TopUpStep(ref)
  PROVE  PostingInv'
<1>1. CASE InitializeTopUp(ref)
  BY <1>1 DEF TypeOK, HandlersHaveTopUps, PostingInv, PostedAtMostOnce, InitializeTopUp, wallet
<1>2. CASE GatewayCollects(ref)
  BY <1>2 DEF PostingInv, PostedAtMostOnce, GatewayCollects, wallet
<1>3. ASSUME NEW h \in Handlers, ReceiveSuccess(h, ref)
      PROVE  PostingInv'
  <2>1. /\ ~Busy(ref) /\ topUp[ref] # "COMPLETED" /\ UNCHANGED <<posted, topUp>>
        /\ handler' = [handler EXCEPT ![h] = [stage |-> "marking", ref |-> ref]]
    BY <1>3 DEF ReceiveSuccess, Takes, Becomes, wallet
  <2> QED
    BY <2>1 DEF TypeOK, PostingInv, PostedAtMostOnce, Busy
<1>4. CASE ReceiveFailure(ref)
  <2>1. ~Busy(ref) /\ topUp[ref] # "COMPLETED" /\ UNCHANGED <<posted, handler>>
        /\ topUp' = [topUp EXCEPT ![ref] = "FAILED"]
    BY <1>4 DEF ReceiveFailure, MarkFailed
  <2> QED
    BY <2>1 DEF TypeOK, HandlersHaveTopUps, PostingInv, PostedAtMostOnce, Busy
<1>5. CASE RequestVerification(ref) \/ VerifyNothingToDo(ref) \/ VerifyPaystackTopUp(ref)
  BY <1>5 DEF PostingInv, PostedAtMostOnce, RequestVerification, VerifyNothingToDo,
              VerifyPaystackTopUp, wallet
<1>6. ASSUME NEW h \in Handlers, VerifyOgaranyaTopUp(h, ref)
      PROVE  PostingInv'
  <2>1. /\ ~Busy(ref) /\ topUp[ref] # "COMPLETED" /\ UNCHANGED <<posted, topUp>>
        /\ handler' = [handler EXCEPT ![h] = [stage |-> "rejecting", ref |-> ref]]
    BY <1>6 DEF VerifyOgaranyaTopUp, Takes, Becomes, wallet
  <2> QED
    BY <2>1 DEF TypeOK, PostingInv, PostedAtMostOnce, Busy
<1> QED
  BY <1>1, <1>2, <1>3, <1>4, <1>5, <1>6 DEF TopUpStep, RunVerification

LEMMA HandlerStepPosting ==
  ASSUME TypeOK, HandlersHaveTopUps, PostingInv, NEW h \in Handlers,
         HandlerStep(h) \/ CheckCompletion(h) \/ Crash(h)
  PROVE  PostingInv'
<1>1. CASE MarkCompleted(h)
  <2>1. /\ handler[h].ref \in TopUps /\ handler[h].ref # NoTopUp
        /\ topUp' = [topUp EXCEPT ![handler[h].ref] = "COMPLETED"] /\ UNCHANGED posted
        /\ handler' = [handler EXCEPT ![h] = [stage |-> "posting", ref |-> handler[h].ref]]
        /\ posted[handler[h].ref] = 0
    BY <1>1 DEF MarkCompleted, Becomes, HandlersHaveTopUps, PostingInv
  <2>2. \A k \in Handlers : k # h => handler[k].ref # handler[h].ref /\ handler'[k] = handler[k]
    BY <2>1 DEF TypeOK, PostingInv
  <2> QED
    BY <2>1, <2>2 DEF TypeOK, HandlersHaveTopUps, PostingInv, PostedAtMostOnce
<1>2. CASE PostCredit(h)
  <2>1. /\ handler[h].ref \in TopUps /\ handler[h].ref # NoTopUp
        /\ posted' = [posted EXCEPT ![handler[h].ref] = @ + 1] /\ UNCHANGED topUp
        /\ handler' = [handler EXCEPT ![h] = [stage |-> "idle", ref |-> NoTopUp]]
        /\ posted[handler[h].ref] = 0 /\ topUp[handler[h].ref] = "COMPLETED"
    BY <1>2 DEF PostCredit, Finishes, Idle, HandlersHaveTopUps, PostingInv
  <2>2. \A k \in Handlers : k # h => handler[k].ref # handler[h].ref /\ handler'[k] = handler[k]
    BY <2>1 DEF TypeOK, PostingInv
  <2> QED
    BY <2>1, <2>2 DEF TypeOK, HandlersHaveTopUps, PostingInv, PostedAtMostOnce
<1>3. CASE RejectTopUp(h)
  <2>1. /\ handler[h].ref \in TopUps /\ handler[h].ref # NoTopUp
        /\ topUp' = [topUp EXCEPT ![handler[h].ref] = "FAILED"] /\ UNCHANGED posted
        /\ handler' = [handler EXCEPT ![h] = [stage |-> "idle", ref |-> NoTopUp]]
        /\ topUp[handler[h].ref] # "COMPLETED"
    BY <1>3 DEF RejectTopUp, MarkFailed, Finishes, Idle, HandlersHaveTopUps, PostingInv
  <2>2. \A k \in Handlers : k # h => handler[k].ref # handler[h].ref /\ handler'[k] = handler[k]
    BY <2>1 DEF TypeOK, PostingInv
  <2> QED
    BY <2>1, <2>2 DEF TypeOK, HandlersHaveTopUps, PostingInv, PostedAtMostOnce
<1>4. CASE CompleteSalePayment(h) \/ Crash(h)
  <2>1. /\ handler' = [handler EXCEPT ![h] = [stage |-> "idle", ref |-> NoTopUp]]
        /\ UNCHANGED <<topUp, posted>>
    BY <1>4 DEF CompleteSalePayment, Crash, Finishes, Idle, wallet
  <2> QED
    BY <2>1 DEF TypeOK, PostingInv, PostedAtMostOnce
<1>5. CASE CheckCompletion(h)
  <2>1. /\ handler' = [handler EXCEPT ![h] = [stage |-> "debiting", ref |-> NoTopUp]]
        /\ UNCHANGED <<topUp, posted>>
    BY <1>5 DEF CheckCompletion, Becomes, wallet
  <2> QED
    BY <2>1 DEF TypeOK, PostingInv, PostedAtMostOnce
<1> QED
  BY <1>1, <1>2, <1>3, <1>4, <1>5 DEF HandlerStep

LEMMA NextPosting ==
  ASSUME ~Overlap, ~LateFailures
  PROVE  TypeOK /\ HandlersHaveTopUps /\ PostingInv /\ [Next]_vars => PostingInv'
<1> SUFFICES ASSUME TypeOK, HandlersHaveTopUps, PostingInv, [Next]_vars PROVE PostingInv'
  OBVIOUS
<1>1. ASSUME NEW amount \in CreditAmounts \cup DebitAmounts, CreditWallet(amount) \/ DebitWallet(amount)
      PROVE  PostingInv'
  BY <1>1 DEF PostingInv, PostedAtMostOnce, CreditWallet, DebitWallet
<1>2. CASE UNCHANGED vars
  BY <1>2 DEF PostingInv, PostedAtMostOnce, vars
<1> QED
  BY <1>1, <1>2, TopUpStepPosting, HandlerStepPosting DEF Next

LEMMA PostingInvariant ==
  ASSUME ~Overlap, ~LateFailures
  PROVE  Spec => []PostingInv
<1>1. Init => PostingInv
  BY DEF Init, PostingInv, PostedAtMostOnce, Idle
<1> QED
  BY <1>1, NextPosting, WalletTypeCorrect, PTL DEF Spec

\* However often gateways repeat a notification, handlers crash and top-ups
\* are verified by hand: the wallet is credited once, as long as handlers do
\* not share a top-up and no failure follows a success.
THEOREM PostedOnce ==
  ASSUME ~Overlap, ~LateFailures
  PROVE  Spec => []PostedAtMostOnce
<1>1. PostingInv => PostedAtMostOnce
  BY DEF PostingInv
<1> QED
  BY <1>1, PostingInvariant, PTL

-----------------------------------------------------------------------------
(* The ledger *)

\* What the wallet is owed for each top-up, and the sum of that.
Due(ref) == IF ref \in Unposted THEN Amount[ref] ELSE 0
Dues == [ref \in TopUps |-> Due(ref)]

LEMMA OwedIsSum == Owed = SumFunctionOnSet(Dues, TopUps)
BY DEF Owed, SumFunction, Dues, Due

LEMMA OwedType ==
  /\ \A ref \in TopUps : Dues[ref] = Due(ref) /\ Due(ref) \in Int
  /\ Owed \in Int
<1>1. \A ref \in TopUps : Dues[ref] = Due(ref) /\ Due(ref) \in Int
  BY DEF Dues, Due
<1> QED
  BY <1>1, OwedIsSum, SumType

\* When one top-up is marked or posted, only its own part of the sum changes.
LEMMA OneTopUpMoves ==
  ASSUME NEW ref \in TopUps, \A other \in TopUps \ {ref} : other \in Unposted' <=> other \in Unposted
  PROVE  Owed' = Owed - Due(ref) + Due(ref)'
<1>1. \A other \in TopUps : Dues[other] \in Int /\ Dues'[other] \in Int
  BY DEF Dues, Due
<1>2. \A other \in TopUps \ {ref} : Dues'[other] = Dues[other]
  BY DEF Dues, Due
<1>3. SumFunctionOnSet(Dues', TopUps) = SumFunctionOnSet(Dues, TopUps) - Dues[ref] + Dues'[ref]
  BY <1>1, <1>2, SumChange
<1>4. Owed' = SumFunctionOnSet(Dues', TopUps)
  BY DEF Owed, SumFunction, Dues, Due
<1> QED
  BY <1>3, <1>4, OwedIsSum DEF Dues

LEMMA NoTopUpMoves ==
  ASSUME Unposted' = Unposted
  PROVE  Owed' = Owed
BY DEF Owed

LedgerInv == LedgerAgrees /\ IsFiniteSet(Stranded)

\* Where no top-up moves, and no handler leaves one that is COMPLETED.
LEMMA LedgerKept ==
  ASSUME TypeOK, LedgerInv, Unposted' = Unposted, crashes' = crashes,
         \A ref \in Unposted : Busy(ref) => Busy(ref)',
         NEW n \in Int, balance' = balance + n, booked' = booked + n
  PROVE  LedgerInv'
<1>1. Owed' = Owed /\ Owed \in Int /\ balance \in Int /\ booked \in Int
  BY NoTopUpMoves, OwedType DEF TypeOK
<1>2. booked' = balance' + Owed'
  <2>1. booked = balance + Owed
    BY DEF LedgerInv, LedgerAgrees
  <2> QED
    BY <1>1, <2>1
<1>3. Stranded' \subseteq Stranded
  BY DEF Stranded
<1>4. IsFiniteSet(Stranded') /\ Cardinality(Stranded') <= Cardinality(Stranded)
  BY <1>3, FS_Subset DEF LedgerInv
<1>5. Cardinality(Stranded) <= crashes' /\ crashes \in Nat
  BY DEF LedgerInv, LedgerAgrees, TypeOK
<1>6. Cardinality(Stranded') \in Nat /\ Cardinality(Stranded) \in Nat
  BY <1>4, FS_CardinalityType DEF LedgerInv
<1>7. Cardinality(Stranded') <= crashes'
  BY <1>4, <1>5, <1>6
<1> QED
  BY <1>2, <1>4, <1>7 DEF LedgerInv, LedgerAgrees

LEMMA TopUpStepLedger ==
  ASSUME ~Overlap, ~LateFailures, TypeOK, TypeOK', LedgerInv, NEW ref \in TopUps, TopUpStep(ref)
  PROVE  LedgerInv'
<1>0. balance \in Int /\ booked \in Int
  BY DEF TypeOK
<1>1. CASE \/ InitializeTopUp(ref) \/ GatewayCollects(ref) \/ RequestVerification(ref)
           \/ VerifyNothingToDo(ref) \/ VerifyPaystackTopUp(ref)
  <2>1. /\ UNCHANGED <<balance, booked, posted, handler, crashes>>
        /\ \A other \in TopUps : topUp'[other] = "COMPLETED" <=> topUp[other] = "COMPLETED"
    BY <1>1 DEF InitializeTopUp, GatewayCollects, RequestVerification, VerifyNothingToDo,
                VerifyPaystackTopUp, wallet, TypeOK
  <2>2. Unposted' = Unposted /\ \A other : Busy(other)' = Busy(other)
    BY <2>1 DEF Unposted, Busy
  <2>9. balance' = balance + 0 /\ booked' = booked + 0
    BY <1>0, <2>1, <2>2
  <2> QED
    BY <1>0, <2>1, <2>2, <2>9, LedgerKept
<1>2. CASE ReceiveFailure(ref)
  <2>1. /\ UNCHANGED <<balance, posted, handler, crashes>>
        /\ topUp[ref] # "COMPLETED" /\ booked' = booked - 0
        /\ topUp' = [topUp EXCEPT ![ref] = "FAILED"]
    BY <1>2 DEF ReceiveFailure, MarkFailed
  <2>2. Unposted' = Unposted /\ \A other : Busy(other)' = Busy(other)
    BY <2>1 DEF TypeOK, Unposted, Busy
  <2>3. booked' = booked
    BY <1>0, <2>1
  <2>9. balance' = balance + 0 /\ booked' = booked + 0
    BY <1>0, <2>1, <2>2, <2>3
  <2> QED
    BY <1>0, <2>1, <2>2, <2>3, <2>9, LedgerKept
<1>3. ASSUME NEW h \in Handlers, ReceiveSuccess(h, ref) \/ VerifyOgaranyaTopUp(h, ref)
      PROVE  LedgerInv'
  <2>1. PICK stage \in {"marking", "rejecting"} :
          /\ handler[h] = Idle
          /\ handler' = [handler EXCEPT ![h] = [stage |-> stage, ref |-> ref]]
          /\ UNCHANGED <<balance, booked, posted, topUp, crashes>>
    BY <1>3 DEF ReceiveSuccess, VerifyOgaranyaTopUp, Takes, Becomes, wallet
  <2>2. \A k \in Handlers : k # h => handler'[k] = handler[k]
    BY <2>1 DEF TypeOK
  <2>3. Unposted' = Unposted /\ \A other \in Unposted : Busy(other) => Busy(other)'
    BY <2>1, <2>2 DEF Unposted, Busy, Idle
  <2>9. balance' = balance + 0 /\ booked' = booked + 0
    BY <1>0, <2>1, <2>3
  <2> QED
    BY <1>0, <2>1, <2>3, <2>9, LedgerKept
<1> QED
  BY <1>1, <1>2, <1>3 DEF TopUpStep, RunVerification

LEMMA HandlerStepLedger ==
  ASSUME TypeOK, TypeOK', HandlersHaveTopUps, PostingInv, LedgerInv, NEW h \in Handlers,
         HandlerStep(h) \/ CheckCompletion(h) \/ Crash(h)
  PROVE  LedgerInv'
<1>0. /\ balance \in Int /\ booked \in Int /\ balance' \in Int /\ booked' \in Int
      /\ crashes \in Nat /\ Owed \in Int
  BY OwedType DEF TypeOK
<1>1. ASSUME NEW to, handler' = [handler EXCEPT ![h] = to]
      PROVE  handler'[h] = to /\ \A k \in Handlers : k # h => handler'[k] = handler[k]
  BY <1>1 DEF TypeOK
<1>2. CASE MarkCompleted(h)
  <2>0. PICK ref \in TopUps : ref = handler[h].ref
    BY <1>2 DEF MarkCompleted, HandlersHaveTopUps
  <2>1. /\ handler' = [handler EXCEPT ![h] = [stage |-> "posting", ref |-> ref]]
        /\ topUp[ref] # "COMPLETED" /\ posted[ref] = 0
        /\ topUp' = [topUp EXCEPT ![ref] = "COMPLETED"]
        /\ booked' = booked + Amount[ref] /\ UNCHANGED <<balance, posted, crashes>>
    BY <1>2, <2>0 DEF MarkCompleted, Becomes, PostingInv
  <2>2. Unposted' = Unposted \cup {ref} /\ ref \notin Unposted
    BY <2>1 DEF Unposted, TypeOK
  <2>3. Owed' = Owed - Due(ref) + Due(ref)' /\ Due(ref) = 0 /\ Due(ref)' = Amount[ref]
    BY <2>2, OneTopUpMoves DEF Due
  <2>4. booked' = balance' + Owed'
    <3>1. Amount[ref] \in Int
      OBVIOUS
    <3> QED
      BY <1>0, <2>1, <2>3, <3>1 DEF LedgerInv, LedgerAgrees
  <2>5. Busy(ref)' /\ \A other : Busy(other) => Busy(other)'
    BY <1>1, <2>0, <2>1 DEF Busy
  <2>6. Stranded' \subseteq Stranded
    BY <2>2, <2>5 DEF Stranded
  <2>7. IsFiniteSet(Stranded') /\ Cardinality(Stranded') <= Cardinality(Stranded)
    BY <2>6, FS_Subset DEF LedgerInv
  <2>8. Cardinality(Stranded') \in Nat /\ Cardinality(Stranded) \in Nat
    BY <2>7, FS_CardinalityType DEF LedgerInv
  <2>9. Cardinality(Stranded') <= crashes'
    BY <1>0, <2>1, <2>7, <2>8 DEF LedgerInv, LedgerAgrees
  <2> QED
    BY <2>4, <2>7, <2>9 DEF LedgerInv, LedgerAgrees
<1>3. CASE PostCredit(h)
  <2>0. PICK ref \in TopUps : ref = handler[h].ref
    BY <1>3 DEF PostCredit, HandlersHaveTopUps
  <2>1. /\ handler' = [handler EXCEPT ![h] = Idle]
        /\ topUp[ref] = "COMPLETED" /\ posted[ref] = 0
        /\ posted' = [posted EXCEPT ![ref] = @ + 1]
        /\ balance' = balance + Amount[ref] /\ UNCHANGED <<booked, topUp, crashes>>
    BY <1>3, <2>0 DEF PostCredit, Finishes, PostingInv
  <2>2. Unposted' = Unposted \ {ref} /\ ref \in Unposted
    BY <2>1 DEF Unposted, TypeOK
  <2>3. Owed' = Owed - Due(ref) + Due(ref)' /\ Due(ref) = Amount[ref] /\ Due(ref)' = 0
    BY <2>2, OneTopUpMoves DEF Due
  <2>4. booked' = balance' + Owed'
    <3>1. Amount[ref] \in Int
      OBVIOUS
    <3> QED
      BY <1>0, <2>1, <2>3, <3>1 DEF LedgerInv, LedgerAgrees
  <2>5. \A other : other # ref /\ Busy(other) => Busy(other)'
    BY <1>1, <2>0, <2>1 DEF Busy
  <2>6. Stranded' \subseteq Stranded
    BY <2>2, <2>5 DEF Stranded
  <2>7. IsFiniteSet(Stranded') /\ Cardinality(Stranded') <= Cardinality(Stranded)
    BY <2>6, FS_Subset DEF LedgerInv
  <2>8. Cardinality(Stranded') \in Nat /\ Cardinality(Stranded) \in Nat
    BY <2>7, FS_CardinalityType DEF LedgerInv
  <2>9. Cardinality(Stranded') <= crashes'
    BY <1>0, <2>1, <2>7, <2>8 DEF LedgerInv, LedgerAgrees
  <2> QED
    BY <2>4, <2>7, <2>9 DEF LedgerInv, LedgerAgrees
<1>4. CASE RejectTopUp(h)
  <2>0. PICK ref \in TopUps : ref = handler[h].ref
    BY <1>4 DEF RejectTopUp, HandlersHaveTopUps
  <2>1. /\ handler' = [handler EXCEPT ![h] = Idle]
        /\ topUp[ref] # "COMPLETED" /\ topUp' = [topUp EXCEPT ![ref] = "FAILED"]
        /\ booked' = booked - 0 /\ UNCHANGED <<balance, posted, crashes>>
    BY <1>4, <2>0 DEF RejectTopUp, MarkFailed, Finishes, PostingInv
  <2>2. Unposted' = Unposted /\ ref \notin Unposted
    BY <2>1 DEF Unposted, TypeOK
  <2>3. \A other \in Unposted : Busy(other) => Busy(other)'
    BY <1>1, <2>0, <2>1, <2>2 DEF Busy
  <2>4. booked' = booked
    BY <1>0, <2>1
  <2>9. balance' = balance + 0 /\ booked' = booked + 0
    BY <1>0, <2>1, <2>2, <2>3, <2>4
  <2> QED
    BY <1>0, <2>1, <2>2, <2>3, <2>4, <2>9, LedgerKept
<1>5. CASE CompleteSalePayment(h) \/ CheckCompletion(h)
  <2>1. PICK to \in {Idle, [stage |-> "debiting", ref |-> NoTopUp]} :
          handler' = [handler EXCEPT ![h] = to]
    BY <1>5 DEF CompleteSalePayment, CheckCompletion, Finishes, Becomes
  <2>2. /\ handler[h].stage \in {"idle", "debiting"} /\ UNCHANGED <<topUp, posted, crashes>>
        /\ \/ balance' = balance /\ booked' = booked
           \/ balance' = balance - CompletionAmount /\ booked' = booked - CompletionAmount
    BY <1>5 DEF CompleteSalePayment, CheckCompletion, Idle, wallet
  <2>5. PICK n \in {0, - CompletionAmount} : balance' = balance + n /\ booked' = booked + n
    <3>1. CompletionAmount \in Int
      OBVIOUS
    <3> QED
      BY <1>0, <2>2, <3>1
  <2>6. n \in Int
    OBVIOUS
  <2>3. Unposted' = Unposted
    BY <2>2 DEF Unposted
  <2>4. \A other \in Unposted : Busy(other) => Busy(other)'
    <3>1. handler[h].ref \notin Unposted
      BY <2>2 DEF HandlersHaveTopUps, Unposted
    <3> QED
      BY <1>1, <2>1, <3>1 DEF Busy
  <2> QED
    BY <2>2, <2>3, <2>4, <2>5, <2>6, LedgerKept
<1>6. CASE Crash(h)
  <2>1. /\ handler' = [handler EXCEPT ![h] = Idle] /\ crashes' = crashes + 1
        /\ UNCHANGED <<balance, booked, topUp, posted>>
    BY <1>6 DEF Crash, Finishes, wallet
  <2>2. Unposted' = Unposted /\ Owed' = Owed
    BY <2>1, NoTopUpMoves DEF Unposted
  <2>3. \A other : other # handler[h].ref /\ Busy(other) => Busy(other)'
    BY <1>1, <2>1 DEF Busy
  <2>4. Stranded' \subseteq Stranded \cup {handler[h].ref}
    BY <2>2, <2>3 DEF Stranded
  <2>5. /\ IsFiniteSet(Stranded \cup {handler[h].ref})
        /\ Cardinality(Stranded \cup {handler[h].ref}) <= Cardinality(Stranded) + 1
    <3>1. IsFiniteSet(Stranded) /\ Cardinality(Stranded) \in Nat
      BY FS_CardinalityType DEF LedgerInv
    <3>2. CASE handler[h].ref \in Stranded
      <4>1. Stranded \cup {handler[h].ref} = Stranded
        BY <3>2
      <4> HIDE DEF Stranded
      <4> QED
        BY <3>1, <4>1
    <3>3. CASE handler[h].ref \notin Stranded
      <4>1. /\ IsFiniteSet(Stranded \cup {handler[h].ref})
            /\ Cardinality(Stranded \cup {handler[h].ref}) = Cardinality(Stranded) + 1
        BY <3>1, <3>3, FS_AddElement
      <4> HIDE DEF Stranded
      <4> QED
        BY <3>1, <4>1
    <3> QED
      BY <3>2, <3>3
  <2>6. /\ IsFiniteSet(Stranded')
        /\ Cardinality(Stranded') <= Cardinality(Stranded \cup {handler[h].ref})
    BY <2>4, <2>5, FS_Subset
  <2>7. /\ Cardinality(Stranded') \in Nat /\ Cardinality(Stranded) \in Nat
        /\ Cardinality(Stranded \cup {handler[h].ref}) \in Nat
    BY <2>5, <2>6, FS_CardinalityType DEF LedgerInv
  <2>8. Cardinality(Stranded') <= crashes'
    BY <1>0, <2>1, <2>5, <2>6, <2>7 DEF LedgerInv, LedgerAgrees
  <2> QED
    BY <2>1, <2>2, <2>6, <2>8 DEF LedgerInv, LedgerAgrees
<1> QED
  BY <1>2, <1>3, <1>4, <1>5, <1>6 DEF HandlerStep

LEMMA NextLedger ==
  ASSUME ~Overlap, ~LateFailures
  PROVE  /\ TypeOK /\ HandlersHaveTopUps /\ PostingInv /\ LedgerInv /\ [Next]_vars
         => LedgerInv'
<1> SUFFICES ASSUME TypeOK, HandlersHaveTopUps, PostingInv, LedgerInv, [Next]_vars PROVE LedgerInv'
  OBVIOUS
<1>1. TypeOK' /\ HandlersHaveTopUps'
  BY NextType
<1>2. balance \in Int /\ booked \in Int /\ balance' \in Int /\ booked' \in Int
  BY <1>1 DEF TypeOK
<1>3. ASSUME UNCHANGED <<topUp, posted, handler, crashes>>,
             NEW n \in Int, balance' = balance + n, booked' = booked + n
      PROVE  LedgerInv'
  <2>1. Unposted' = Unposted /\ \A ref : Busy(ref)' = Busy(ref)
    BY <1>3 DEF Unposted, Busy
  <2> QED
    BY <1>2, <1>3, <2>1, LedgerKept
<1>4. ASSUME NEW amount \in CreditAmounts \cup DebitAmounts, CreditWallet(amount) \/ DebitWallet(amount)
      PROVE  LedgerInv'
  <2>1. /\ UNCHANGED <<topUp, posted, handler, crashes>>
        /\ \/ balance' = balance + amount /\ booked' = booked + amount
           \/ balance' = balance - amount /\ booked' = booked - amount
    BY <1>4 DEF CreditWallet, DebitWallet
  <2>2. amount \in Int /\ - amount \in Int
    OBVIOUS
  <2>3. PICK n \in Int : balance' = balance + n /\ booked' = booked + n
    <3>1. balance - amount = balance + (- amount) /\ booked - amount = booked + (- amount)
      BY <1>2, <2>2
    <3> QED
      BY <2>1, <2>2, <3>1
  <2> QED
    BY <1>3, <2>1, <2>3
<1>5. CASE UNCHANGED vars
  <2>1. balance' = balance + 0 /\ booked' = booked + 0
    BY <1>2, <1>5 DEF vars
  <2> QED
    BY <1>3, <1>5, <2>1 DEF vars
<1> QED
  BY <1>1, <1>4, <1>5, TopUpStepLedger, HandlerStepLedger DEF Next

LEMMA InitLedger == Init => LedgerInv
<1> SUFFICES ASSUME Init
             PROVE  LedgerInv
  OBVIOUS
<1>1. Unposted = {} /\ Stranded = {}
  BY DEF Init, Unposted, Stranded
<1>2. \A ref \in TopUps : Dues[ref] = 0
  BY <1>1 DEF Dues, Due
<1>3. Owed = 0
  BY <1>2, SumZero, OwedIsSum
<1>4. IsFiniteSet(Stranded) /\ Cardinality(Stranded) = 0
  BY <1>1, FS_EmptySet
<1> QED
  BY <1>3, <1>4 DEF Init, LedgerInv, LedgerAgrees

\* The ledger exceeds the balance by exactly the top-ups that are between the
\* two writes of their handler, of which each lost handler leaves at most one
\* behind for good: handlers do not share a top-up and no failure follows a
\* success.
THEOREM LedgerIsBalance ==
  ASSUME ~Overlap, ~LateFailures
  PROVE  Spec => []LedgerAgrees
<1>1. LedgerInv => LedgerAgrees
  BY DEF LedgerInv
<1> QED
  BY <1>1, InitLedger, NextLedger, PostingInvariant, WalletTypeCorrect, PTL DEF Spec

-----------------------------------------------------------------------------
(* The balance *)

LEMMA DebitingIsCounted ==
  /\ IsFiniteSet(Debiting) /\ Cardinality(Debiting) \in Nat
  /\ Cardinality(Handlers) \in Nat /\ Cardinality(Debiting) <= Cardinality(Handlers)
<1>1. Debiting \subseteq Handlers
  BY DEF Debiting
<1>2. IsFiniteSet(Debiting) /\ Cardinality(Debiting) <= Cardinality(Handlers)
  BY <1>1, HandlersAssumption, FS_Subset
<1> QED
  BY <1>2, HandlersAssumption, FS_CardinalityType

\* Where the balance does not fall and no handler is about to take from it
\* that was not, and where it does not fall below zero.
LEMMA OverdraftKept ==
  ASSUME TypeOK, TypeOK', OverdraftBounded, Debiting' \subseteq Debiting, balance' >= balance \/ balance' >= 0
  PROVE  OverdraftBounded'
<1> DEFINE n == Cardinality(Handlers)
           d == Cardinality(Debiting)
           e == Cardinality(Debiting')
<1>1. n \in Nat /\ d \in Nat /\ d <= n /\ e \in Nat /\ e <= d
  <2>1. IsFiniteSet(Debiting') /\ Cardinality(Debiting') <= Cardinality(Debiting)
    BY DebitingIsCounted, FS_Subset
  <2> QED
    BY <2>1, DebitingIsCounted, FS_CardinalityType
<1>2. balance >= - CompletionAmount * (n - d)
  BY DEF OverdraftBounded
<1> HIDE DEF n, d, e
<1>3. - CompletionAmount * (n - d) \in Int /\ - CompletionAmount * (n - e) <= - CompletionAmount * (n - d)
  <2>1. CompletionAmount * (n - d) <= CompletionAmount * (n - e)
    BY <1>1
  <2> QED
    BY <1>1, <2>1
<1>4. - CompletionAmount * (n - e) <= 0 /\ - CompletionAmount * (n - e) \in Int
  BY <1>1
<1>5. balance \in Int /\ balance' \in Int
  BY DEF TypeOK
<1>6. balance' >= - CompletionAmount * (n - e)
  BY <1>2, <1>3, <1>4, <1>5
<1> QED
  BY <1>6 DEF OverdraftBounded, n, e

LEMMA NextBounded ==
  TypeOK /\ HandlersHaveTopUps /\ OverdraftBounded /\ [Next]_vars => OverdraftBounded'
<1> SUFFICES ASSUME TypeOK, HandlersHaveTopUps, OverdraftBounded, [Next]_vars PROVE OverdraftBounded'
  OBVIOUS
<1>1. TypeOK' /\ balance \in Int
  BY NextType DEF TypeOK
<1>2. ASSUME NEW ref \in TopUps, TopUpStep(ref)
      PROVE  OverdraftBounded'
  <2>1. balance' = balance /\ Debiting' \subseteq Debiting
    BY <1>2 DEF TypeOK, Debiting, TopUpStep, RunVerification, InitializeTopUp,
         GatewayCollects, ReceiveSuccess, ReceiveFailure, RequestVerification, VerifyNothingToDo,
         VerifyPaystackTopUp, VerifyOgaranyaTopUp, Takes, Becomes, wallet
  <2> QED
    BY <1>1, <2>1, OverdraftKept
<1>3. ASSUME NEW h \in Handlers, HandlerStep(h) \/ CheckCompletion(h) \/ Crash(h)
      PROVE  OverdraftBounded'
  <2>1. CASE MarkCompleted(h) \/ RejectTopUp(h) \/ Crash(h)
    <3>1. balance' = balance /\ Debiting' \subseteq Debiting
      BY <2>1 DEF TypeOK, Debiting, MarkCompleted, RejectTopUp, Crash, Becomes, Finishes, Idle, wallet
    <3> QED
      BY <1>1, <3>1, OverdraftKept
  <2>2. CASE PostCredit(h)
    <3>1. handler[h].ref \in TopUps /\ Amount[handler[h].ref] \in Nat
      BY <2>2 DEF PostCredit, HandlersHaveTopUps
    <3>2. balance' >= balance /\ Debiting' \subseteq Debiting
      BY <1>1, <2>2, <3>1 DEF TypeOK, Debiting, PostCredit, Finishes, Idle
    <3> QED
      BY <1>1, <3>2, OverdraftKept
  <2>3. CASE CheckCompletion(h)
    <3>1. balance' = balance /\ balance >= CompletionAmount
      BY <2>3 DEF CheckCompletion, wallet
    <3>2. /\ Cardinality(Debiting') \in Nat /\ Cardinality(Handlers) \in Nat
          /\ Cardinality(Debiting') <= Cardinality(Handlers)
      <4>1. Debiting' \subseteq Handlers
        BY DEF Debiting
      <4>2. IsFiniteSet(Debiting') /\ Cardinality(Debiting') <= Cardinality(Handlers)
        BY <4>1, HandlersAssumption, FS_Subset
      <4> QED
        BY <4>2, HandlersAssumption, FS_CardinalityType
    <3>3. CompletionAmount * (Cardinality(Handlers) - Cardinality(Debiting')) >= 0
      BY <3>2
    <3>4. balance >= 0
      BY <1>1, <3>1
    <3> QED
      BY <1>1, <3>1, <3>2, <3>3, <3>4 DEF OverdraftBounded
  <2>4. CASE CompleteSalePayment(h)
    <3>1. h \in Debiting /\ Debiting' = Debiting \ {h} /\ balance' = balance - CompletionAmount
      BY <2>4 DEF TypeOK, Debiting, CompleteSalePayment, Finishes, Idle
    <3>2. Cardinality(Debiting') = Cardinality(Debiting) - 1
      BY <3>1, DebitingIsCounted, FS_RemoveElement
    <3> DEFINE n == Cardinality(Handlers)
               d == Cardinality(Debiting)
    <3>3. n \in Nat /\ d \in Nat
      BY DebitingIsCounted
    <3>4. balance >= - CompletionAmount * (n - d)
      BY DEF OverdraftBounded
    <3> HIDE DEF n, d
    <3>5. - CompletionAmount * (n - (d - 1)) = - CompletionAmount * (n - d) - CompletionAmount
      BY <3>3
    <3>6. balance - CompletionAmount >= - CompletionAmount * (n - (d - 1))
      BY <1>1, <3>3, <3>4, <3>5
    <3> QED
      BY <3>1, <3>2, <3>6 DEF OverdraftBounded, n, d
  <2> QED
    BY <1>3, <2>1, <2>2, <2>3, <2>4 DEF HandlerStep
<1>4. ASSUME NEW amount \in CreditAmounts, CreditWallet(amount)
      PROVE  OverdraftBounded'
  <2>1. balance' >= balance /\ Debiting' \subseteq Debiting
    BY <1>1, <1>4 DEF Debiting, CreditWallet
  <2> QED
    BY <1>1, <2>1, OverdraftKept
<1>5. ASSUME NEW amount \in DebitAmounts, DebitWallet(amount)
      PROVE  OverdraftBounded'
  <2>1. balance' >= 0 /\ Debiting' \subseteq Debiting
    BY <1>1, <1>5 DEF Debiting, DebitWallet
  <2> QED
    BY <1>1, <2>1, OverdraftKept
<1>6. CASE UNCHANGED vars
  BY <1>6 DEF OverdraftBounded, Debiting, vars
<1> QED
  BY <1>2, <1>3, <1>4, <1>5, <1>6 DEF Next

\* Whatever overlaps, crashes and fails late, the balance goes below zero by no
\* more than the completions can take that run at the same time.
THEOREM OverdraftIsBounded == Spec => []OverdraftBounded
<1>1. Init => OverdraftBounded
  <2> SUFFICES ASSUME Init PROVE OverdraftBounded
    OBVIOUS
  <2>1. CompletionAmount * (Cardinality(Handlers) - Cardinality(Debiting)) >= 0
    BY DebitingIsCounted
  <2>2. CompletionAmount * (Cardinality(Handlers) - Cardinality(Debiting)) \in Int
    BY DebitingIsCounted
  <2> QED
    BY <2>1, <2>2, DebitingIsCounted DEF Init, OverdraftBounded
<1> QED
  BY <1>1, NextBounded, WalletTypeCorrect, PTL DEF Spec

-----------------------------------------------------------------------------
(* The wallet implements IdealWallet *)

\* The top-ups that have been added to the balance.
Deposited == {ref \in TopUps : posted[ref] > 0}

LEMMA StepRefines ==
  TypeOK /\ HandlersHaveTopUps /\ PostingInv /\ [Next]_vars
    => [Ideal!Next]_(Ideal!vars)
<1> SUFFICES ASSUME TypeOK, HandlersHaveTopUps, PostingInv, [Next]_vars
             PROVE  [Ideal!Next]_(Ideal!vars)
  OBVIOUS
<1> DEFINE stutters == balance' = balance /\ posted' = posted /\ Debiting' = Debiting
<1>1. stutters => UNCHANGED Ideal!vars
  BY DEF Ideal!vars
<1>2. ASSUME NEW ref \in TopUps, TopUpStep(ref)
      PROVE  stutters
  BY <1>2 DEF TopUpStep, RunVerification, InitializeTopUp, GatewayCollects, ReceiveSuccess,
       ReceiveFailure, RequestVerification, VerifyNothingToDo, VerifyPaystackTopUp,
       VerifyOgaranyaTopUp, Takes, Becomes, Idle, Debiting, TypeOK, wallet
<1>3. ASSUME NEW h \in Handlers, PostCredit(h)
      PROVE  Ideal!Next
  <2>1. PICK ref \in TopUps : ref = handler[h].ref
    BY <1>3 DEF PostCredit, HandlersHaveTopUps
  <2>2. /\ posted[ref] = 0
        /\ posted' = [posted EXCEPT ![ref] = @ + 1]
        /\ balance' = balance + Amount[ref]
        /\ Debiting' = Debiting
    BY <1>3, <2>1 DEF PostCredit, PostingInv, Finishes, Idle, Debiting, TypeOK
  <2>3. \A other \in TopUps : posted'[other] = IF other = ref THEN 1 ELSE posted[other]
    BY <2>2 DEF TypeOK
  <2>4. ref \notin Deposited /\ Deposited' = Deposited \cup {ref}
    BY <2>2, <2>3 DEF Deposited
  <2>5. Ideal!Deposit(ref)
    BY <2>2, <2>4 DEF Ideal!Deposit, Deposited
  <2> QED
    BY <2>5 DEF Ideal!Next
<1>4. ASSUME NEW h \in Handlers, MarkCompleted(h) \/ RejectTopUp(h)
      PROVE  stutters
  BY <1>4 DEF MarkCompleted, RejectTopUp, Becomes, Finishes, Idle, Debiting, TypeOK
<1>5. ASSUME NEW h \in Handlers, CheckCompletion(h)
      PROVE  Ideal!Next
  <2>1. h \notin Debiting /\ Debiting' = Debiting \cup {h} /\ balance' = balance /\ posted' = posted
    BY <1>5 DEF CheckCompletion, Becomes, Idle, Debiting, TypeOK, wallet
  <2>2. Ideal!Approve(h)
    BY <1>5, <2>1 DEF CheckCompletion, Ideal!Approve, TypeOK
  <2> QED
    BY <2>2 DEF Ideal!Next
<1>6. ASSUME NEW h \in Handlers, CompleteSalePayment(h)
      PROVE  Ideal!Next
  <2>1. h \in Debiting /\ Debiting' = Debiting \ {h} /\ posted' = posted
    BY <1>6 DEF CompleteSalePayment, Finishes, Idle, Debiting, TypeOK
  <2>2. Ideal!Take(h)
    BY <1>6, <2>1 DEF CompleteSalePayment, Ideal!Take
  <2> QED
    BY <2>2 DEF Ideal!Next
<1>7. ASSUME NEW h \in Handlers, Crash(h)
      PROVE  Ideal!Next
  <2>1. Debiting' = Debiting \ {h} /\ balance' = balance /\ posted' = posted
    BY <1>7 DEF Crash, Finishes, Idle, Debiting, TypeOK, wallet
  <2>2. Ideal!GiveUp(h)
    BY <2>1 DEF Ideal!GiveUp
  <2> QED
    BY <2>2 DEF Ideal!Next
<1>8. ASSUME NEW amount \in CreditAmounts, CreditWallet(amount)
      PROVE  Ideal!Next
  BY <1>8 DEF CreditWallet, Debiting, Ideal!Next, Ideal!Refund
<1>9. ASSUME NEW amount \in DebitAmounts, DebitWallet(amount)
      PROVE  Ideal!Next
  BY <1>9 DEF TypeOK, DebitWallet, Debiting, Ideal!Next, Ideal!Withdraw
<1>10. ASSUME UNCHANGED vars
      PROVE  stutters
  BY <1>10 DEF vars, Debiting
<1> HIDE DEF stutters
<1> QED
  BY <1>1, <1>2, <1>3, <1>4, <1>5, <1>6, <1>7, <1>8, <1>9, <1>10 DEF Next, HandlerStep, stutters, vars

\* Under the assumptions of PostedOnce the wallet does what IdealWallet
\* promises, completions of sale payments and crashes included.
THEOREM WalletRefinesIdeal ==
  ASSUME ~Overlap, ~LateFailures
  PROVE  Spec => IdealSpec
<1>1. Init => Ideal!Init
  BY DEF Init, Ideal!Init, Idle, Debiting
<1> QED
  BY <1>1, StepRefines, WalletTypeCorrect, PostingInvariant, PTL
     DEF Spec, IdealSpec, Ideal!Spec

=============================================================================
