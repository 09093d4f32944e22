---------------------------- MODULE IdealWallet ----------------------------
(***************************************************************************)
(* What an agent may expect of a wallet: a top-up the gateway collected is *)
(* credited at most once, a payment from the wallet takes money that is    *)
(* there, and one for a sale takes what it was approved for, once.         *)
(***************************************************************************)
EXTENDS Integers

CONSTANTS TopUps,           \* references of the top-ups
          Amount,           \* what each top-up is worth
          CreditAmounts,    \* refunds, restorations, reversals
          DebitAmounts,     \* payments from the wallet
          CompletionAmount, \* a payment for a sale
          Payers            \* who may be paying for a sale

VARIABLES available, deposited, approved

vars == <<available, deposited, approved>>

Init == available = 0 /\ deposited = {} /\ approved = {}

Deposit(ref) ==
  /\ ref \notin deposited
  /\ deposited' = deposited \cup {ref}
  /\ available' = available + Amount[ref]
  /\ UNCHANGED approved

Refund(amount) ==
  /\ available' = available + amount
  /\ UNCHANGED <<deposited, approved>>

Withdraw(amount) ==
  /\ amount <= available
  /\ available' = available - amount
  /\ UNCHANGED <<deposited, approved>>

\* A payment for a sale is approved against what is there, and taken later.
Approve(payer) ==
  /\ payer \notin approved
  /\ CompletionAmount <= available
  /\ approved' = approved \cup {payer}
  /\ UNCHANGED <<available, deposited>>

Take(payer) ==
  /\ payer \in approved
  /\ approved' = approved \ {payer}
  /\ available' = available - CompletionAmount
  /\ UNCHANGED deposited

GiveUp(payer) ==
  /\ approved' = approved \ {payer}
  /\ UNCHANGED <<available, deposited>>

Next ==
  \/ \E ref \in TopUps : Deposit(ref)
  \/ \E amount \in CreditAmounts : Refund(amount)
  \/ \E amount \in DebitAmounts : Withdraw(amount)
  \/ \E payer \in Payers : Approve(payer) \/ Take(payer) \/ GiveUp(payer)

Spec == Init /\ [][Next]_vars

=============================================================================
