----------------------------- MODULE DeviceSales ----------------------------
(***************************************************************************)
(* Which sale a device is in: sales and donations take devices, an edit    *)
(* gives a sale other devices, and a reversal deletes the sale.            *)
(*                                                                         *)
(* Every request checks its devices before the transaction that takes      *)
(* them, no index keeps a device out of two sales, and an edit compares    *)
(* the version of its sale before its transaction, which counts it up.     *)
(***************************************************************************)
EXTENDS Integers, FiniteSetsExt

CONSTANTS
  Units,         \* devices
  SaleIds,       \* bound: sales ever made
  Sellers,       \* requests served at the same time
  MaxVersion     \* bound: versions of a sale

ASSUME DeviceSalesAssumption == MaxVersion \in Nat \ {0}

NoVersion == 0

VARIABLES
  sold,      \* the devices and the version of each sale that is not cancelled
  spent,     \* ids of sales ever made
  request,   \* what each running request checked
  contested  \* history: devices that two requests named at a time, or that were given away sold

saleVars == <<sold, spent, request, contested>>

Request == [op : {"none", "sell", "donate", "edit"}, devices : SUBSET Units, sale : SUBSET SaleIds, version : 0 .. MaxVersion]
NoRequest == [op |-> "none", devices |-> {}, sale |-> {}, version |-> NoVersion]

SalesTypeOK ==
  /\ DOMAIN sold \subseteq spent /\ spent \subseteq SaleIds
  /\ sold \in [DOMAIN sold -> [devices : SUBSET Units, version : 1 .. MaxVersion]]
  /\ request \in [Sellers -> Request]
  /\ contested \subseteq Units

SalesInit ==
  /\ sold = [s \in {} |-> 0] /\ spent = {}
  /\ request = [k \in Sellers |-> NoRequest]
  /\ contested = {}

SoldElsewhere(s) == UNION {sold[t].devices : t \in DOMAIN sold \ {s}}
Devices(s) == IF s \in DOMAIN sold THEN sold[s].devices ELSE {}
AllSold == UNION {sold[t].devices : t \in DOMAIN sold}
Named == UNION {request[k].devices : k \in Sellers}

Accept(k, r) ==
  /\ request[k] = NoRequest
  /\ request' = [request EXCEPT ![k] = r]
  /\ contested' = contested \cup (r.devices \cap Named)
                            \cup (IF r.op = "donate" THEN r.devices \cap AllSold ELSE {})
  /\ UNCHANGED <<sold, spent>>

Answered(k) == request' = [request EXCEPT ![k] = NoRequest] /\ UNCHANGED contested

\* A new sale of the devices in D.
Sells(D) ==
  \E s \in SaleIds \ spent :
    /\ spent' = spent \cup {s}
    /\ sold' = [t \in DOMAIN sold \cup {s} |-> IF t = s THEN [devices |-> D, version |-> 1] ELSE sold[t]]

\* The checks of a sale or an edit refuse it, or its transaction fails.
RequestFails(k) ==
  /\ request[k].op \in {"sell", "edit"}
  /\ Answered(k)
  /\ UNCHANGED <<sold, spent>>

-----------------------------------------------------------------------------
\* validateDeviceAvailability: none of the devices is in a sale that is not
\* cancelled.
Free(D) == D \cap AllSold = {}

\* createSale
BeginSale(k, D) ==
  /\ Free(D)
  /\ Accept(k, [op |-> "sell", devices |-> D, sale |-> {}, version |-> NoVersion])

MakeSale(k) ==
  /\ request[k].op = "sell"
  /\ Sells(request[k].devices)
  /\ Answered(k)

\* createDonationSales: the devices that are missing, have no codes or are sold
\* are put in the answer, and only the missing ones are then left out.
BeginDonation(k, D) == Accept(k, [op |-> "donate", devices |-> D, sale |-> {}, version |-> NoVersion])

\* A sale of its own for each device; one that fails is put in the answer.
DonateOne(k, d) ==
  /\ request[k].op = "donate" /\ d \in request[k].devices
  /\ Sells({d}) \/ UNCHANGED <<sold, spent>>
  /\ request' = [request EXCEPT ![k].devices = @ \ {d}]
  /\ UNCHANGED contested

EndDonation(k) ==
  /\ request[k].op = "donate" /\ request[k].devices = {}
  /\ Answered(k)
  /\ UNCHANGED <<sold, spent>>

\* Mutant of Takes: an edit takes any device.
TakesAny(s, D) == TRUE

\* validateAndPrepareDeviceUpdates: the sale's own devices, whoever else has
\* them, and unsold ones.  That an unsold device must be unused and not
\* installed as well is left out: a request it stops is one that fails.
Takes(s, D) == (D \ Devices(s)) \cap SoldElsewhere(s) = {}

\* updateSale: the version that was named, if one was, is the sale's.
IsCurrent(s, v) == v \in {NoVersion, sold[s].version}

BeginEdit(k, s, v, D) ==
  /\ s \in DOMAIN sold /\ IsCurrent(s, v) /\ Takes(s, D)
  /\ Accept(k, [op |-> "edit", devices |-> D, sale |-> {s}, version |-> v])

\* The transaction counts the version up and never compares it.  An edit that
\* names no devices leaves them; a sale that was reversed fails the edit.
EditSale(k) ==
  /\ request[k].op = "edit"
  /\ \E s \in request[k].sale \cap DOMAIN sold :
       /\ sold[s].version < MaxVersion
       /\ sold' = [sold EXCEPT ![s] =
                     [devices |-> IF request[k].devices = {} THEN @.devices ELSE request[k].devices, version |-> @.version + 1]]
  /\ Answered(k)
  /\ UNCHANGED spent

\* reverseSale deletes the sale.
DeleteSale(s) ==
  /\ s \in DOMAIN sold
  /\ sold' = [t \in DOMAIN sold \ {s} |-> sold[t]]
  /\ UNCHANGED <<spent, request, contested>>

SalesNext ==
  \/ \E k \in Sellers :
       \/ MakeSale(k) \/ EndDonation(k) \/ EditSale(k) \/ RequestFails(k)
       \/ \E d \in Units : DonateOne(k, d)
       \/ \E D \in SUBSET Units \ {{}} : BeginSale(k, D) \/ BeginDonation(k, D)
       \/ \E D \in SUBSET Units, s \in SaleIds, v \in 0 .. MaxVersion : BeginEdit(k, s, v, D)
  \/ \E s \in SaleIds : DeleteSale(s)

SalesSpec == SalesInit /\ [][SalesNext]_saleVars

-----------------------------------------------------------------------------
(* What must hold *)

\* Two sales have a device in common only when two requests named it at the
\* same time, or a donation named it while it was sold: nothing else gets past
\* the checks of createSale and updateSale, although these are made before the
\* transactions, while devices are taken, given up and freed by reversals.
OnlyContestedSoldTwice ==
  \A s, t \in DOMAIN sold : s # t => sold[s].devices \cap sold[t].devices \subseteq contested

SalesInOrder == SalesTypeOK /\ OnlyContestedSoldTwice

\* Optimistic locking (updateSale, Sales.version): an edit that named a version
\* is applied to that version, so that no other edit is lost to it.
EditsWhatItSaw ==
  [][\A k \in Sellers : EditSale(k) /\ request[k].version # NoVersion
        => \A s \in request[k].sale : sold[s].version = request[k].version]_saleVars

=============================================================================
