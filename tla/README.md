# Verification of the energy sales backend

The program is a NestJS server over MongoDB (through Prisma) and Redis (BullMQ
queues). A company and its agents sell solar devices, at once or on instalments;
customers and agents pay from the agent's wallet, in cash, online (Paystack,
Ogaranya) or at the device; every accepted payment moves the sale's instalment
plan on and yields a token for the device; installers put the devices in place;
the office approves customers, invoices sales, moves stock between warehouses
and imports what was sold before. This project specifies the parts that carry
money, goods and promises, and proves what can be proved about them.

Paths below are relative to the repository, whose code is under `src/`.

## 1. Inventory

### Components

| component | state it keeps | operations | here |
|---|---|---|---|
| Instalment plan (`sales.service`, `device.service`, `payment.service`) | `Sales.totalPaid`, `remainingInstallments`, `status`, `Payment` rows | `createNextPayment`, `handlePostPayment`, `calculateInstallmentProgress`, `validateInstallmentPayment`, `purchasePower`, `completeSalePayment`, `restoreSaleOverpayment` | `InstallmentProgress`, `InstallmentPlan` |
| Agent wallet (`wallet.service`, `payment.service`, `ogaranya.service`) | `Wallet.balance`, `WalletTransaction` rows | top-up (initialise, webhook, verification), `creditWallet`, `debitWallet`, `completeSalePayment` | `IdealWallet`, `AgentWallet` |
| Settlement (webhooks, verification, `payment-queue`, failed jobs) | `Payment.paymentStatus`, `paymentResponses`, jobs | Paystack and Ogaranya webhooks, `verifyPaymentManually`, `processNextPayment`, `retryFailedJob` | `PaymentSettlement` |
| Sale creation and reversal (`sales.service`, `sale-reversal.service`) | sale, items, `InventoryBatch.remainingQuantity`, payment, installer task, wallet | `createSale` with its compensation, `undoSaleCreation` | `SaleCreation` |
| Devices of sales, edits and donations (`sales.service`, `sales-donation.service`) | the devices and the version of a sale | `createSale`, `updateSale`, `createDonationSales`, reversal | `DeviceSales` |
| Stock allocation of a product (`sales.service`) | none (computed) | `validateSaleProductQuantity`, `allocateInventory`, `processBatches` | `SaleStock` |
| Warehouses, transfers, inventory (`warehouse.service`, `inventory.service`) | warehouses, request status, inventories and batches of each warehouse | create, activate, delete; request, fulfil, reject; stock; hide | `StockRoom` |
| Devices, installation, tokens (`device.service`, `device.processor`) | `installationStatus`, location, token rows, generation failures, `device-processing` jobs | status edits and synchronisations, `generateAndSendTokensForDevice`, its failures and their repetition, restoration from a file | `DeviceInstallation` |
| Installer tasks (`installer.service`) | `InstallerTask.status` | create, assign, accept, reject, complete, revert all, `updateInstallationLocation` | `InstallerTask` |
| Token batches (`device.processor`) | the job, its file, token rows | `batch-generate-tokens` | `TokenBatch` |
| Invoices (`invoice.service`, `payment.service`) | invoice rows, parent and children, cached amounts, receipts | master, sub-invoice, void, pay, sync on reading, receipt, the invoice branch of `handlePostPayment` | `Invoicing` |
| Agents, their devices and customers (`agents.service`, `device-assignment.service`) | agents, wallets, `DeviceAssignment`, `Device.isAssigned`, `AgentCustomer` | create, assign, reassign, bulk assign, unassign, move customers | `AgentRecords` |
| Merging of duplicate agents (`collapse-duplicate-agents.service`) | all of these | `collapseDuplicateAgentRecords` | `AgentRecords` |
| Customers (`customers.service`) | approval status, rejections | register, update, delete, approve, reject, in bulk, resubmit | `CustomerApproval` |
| CSV upload (`csv-upload.service`, its processor) | a session in memory, row jobs, whatever a row creates | upload, `processSalesRow`, `correctMissingPayments` | `CsvImport`, `PaymentCorrection` |
| Everything else | see `PROJECT.json` | identifiers, scheduled reminders, authentication, audit, reports, export, products, contracts, files | not modelled, section 10 |

### How they interact

* An HTTP request runs on the event loop of the server; requests interleave at
  every `await`. Each queue has one worker per process, which runs one job at a
  time, concurrently with requests.
* `createSale` and `createNextPayment` write a COMPLETED payment and add a
  `process-next-payment` job (3 attempts, kept when failed). The webhooks,
  `verify-payment` jobs, `payInvoice` and `purchasePower` do the same
  post-processing themselves, at once.
* `handlePostPayment` is the meeting point: it sums the sale's COMPLETED
  payments, writes the total, calculates and writes the progress, updates an
  invoice, makes devices ready and issues tokens; each is a statement of its own.
* A sale makes a task for an installer; the task's installation locates each
  device and queues the job that sends its code; a reversal cancels the tasks it
  read and deletes the sale.
* Money of an agent changes by `creditWallet` and `debitWallet` (transactions),
  by the second write of a top-up webhook, by `completeSalePayment`,
  `restoreSaleOverpayment`, by the reversal of a sale and by a merge.
* Prisma's `$transaction` on MongoDB gives snapshot isolation and aborts one of
  two transactions that write the same document; a statement through
  `this.prisma` inside the callback is not part of the transaction.

### What is hard

* Check, `await`, act: top-up status, payment status, wallet balance, device
  availability, stock, a task's, transfer's, invoice's or customer's status, and
  a sale's version are all read before, and used after, an `await`; most writes
  are by id alone.
* A saga with one compensation (`createSale`) that a reversal may overtake.
* Gateways that repeat notifications, report a failure after a success, or never
  call; an operator who verifies or retries by hand.
* Jobs that are run again from their start over writes that are not idempotent
  (`remainingInstallments - 1`), over a file that is removed after the first
  attempt, or that fail in every attempt.
* Arithmetic at the edges of a plan (starting price larger than a month, short
  plans, mixed sales) and of a product made of several inventories.
* Money and statuses adjusted by hand, or cached, next to the rows they follow from.

`PROJECT.json` lists each of these at its line under "hazards", with the
properties that would catch it. Section 9 lists those that no property covers.

## 2. Modules

| module | role |
|---|---|
| `InstallmentProgress` | pure arithmetic of a plan: `calculateInstallmentProgress`, validity of the next amount |
| `InstallmentPlan` | one sale's money over time: payments, jobs and their retries |
| `IdealWallet`, `AgentWallet` | what an agent may expect of a wallet; the wallet with its handlers, stage by stage, which refines it |
| `PaymentSettlement` | all writers of one sale's payments at once, `await` by `await` |
| `SaleCreation` | many sales over shared devices, stock and wallet; creation, failure, reversal |
| `SaleStock`, `StockRoom` | which batches a sale takes from; warehouses, transfers and sales over those batches |
| `DeviceInstallation`, `InstallerTask`, `FieldWork` | devices and their codes; installers' requests over them; both composed with payments, edits and reversals |
| `Invoicing` | the invoices of a sale, its payments and the cache |
| `AgentRecords` | agents, what is theirs, and the merge |
| `CustomerApproval`, `CsvImport`, `PaymentCorrection`, `TokenBatch`, `DeviceSales` | five components of the back office, each modelled alone: whom an import brings is a `customer` of `CustomerApproval` too, where `ImportCustomer` inserts it |
| `BackOffice` | their composition: one of the five is chosen and moves |
| `...Proofs` | theorems about the module of that name; `InvoiceAndPlanProofs` has those of `Invoicing` and `InstallmentPlan`, `SaleAndStockProofs` those of `SaleCreation`, `StockRoom` and `SaleStock`, `BackOfficeProofs` those of its five components |
| `SumTheorems` | what adding to, taking from and changing a finite sum does, for the proofs about money and stock |
| `MC...` | the concrete plans, rows and overlaps the model checker uses |

`InstallmentPlan`, `PaymentSettlement`, `AgentWallet` and `Invoicing` look at the
same post-processing from four distances, because one module with all of it would
have too many states to check: `InstallmentPlan` takes a whole
`handlePostPayment` as a step (with the points where it may fail) and keeps exact
amounts; `PaymentSettlement` splits it at each `await` and replaces a sum of money
by the set of payments summed; `AgentWallet` follows the other branch of the same
webhooks, where a top-up is paid; `Invoicing` follows the branch that updates an
invoice. `SaleCreation` takes post-processing as one step and looks at what
surrounds it.

### How a request is written

A handler that reads, waits and writes has an action that reads (`BeginX`), which
remembers in `desk` (`work`, `counter`, `request`) what it read, and one action for
each statement it writes later. A handler whose single statement needs no earlier
reading is one action. `Serves` says which operations a request may run and
`Overlap` which pairs of operations may be at work together; a property that needs
an operation to be alone holds only for some values of `Overlap` (section 4).

### InstallmentPlan

Variables `totalPaid`, `remainingInstallments`, `status` are the columns;
`terms` holds what `createSale` fixed (and `restoreSaleOverpayment` changes);
`collected` and `paymentCount` summarise the payment rows; `jobs` and `failed`
are the queue. `CreateNextPayment`, `PurchasePower`, `CompleteSalePayment`,
`RestoreSaleOverpayment` and `RetryFailedJob` are the operations of that name.
A job is one of `PostPaymentFailsAtRead`, `PostPaymentFailsAtProgress` and
`PostPayment`, the three places where an exception leaves different rows; the
branch that reads `deviceTokens[0]` of a paid-up sale without an installed
device throws, as in the code. Amounts are integers: the code's tolerance of
0.01 is equality on them. The device's token is abstracted to whether there was one.

### AgentWallet

`balance`, and per top-up the `topUp` status of its ledger row; the other rows
are summarised by `booked`. `paid` is what the gateway has collected (external)
and `posted` counts additions to the balance, for the properties. A handler has
a `stage` between its check and each of its writes. `creditWallet`, `debitWallet`
are one step each, being transactions; the webhook's two writes are two steps.
`Overlap`, `LateFailures` and `Completions` switch on the environment's or the
code's behaviours the properties depend on, so that a theorem can name them; the run
has completions and lost handlers switched on. `completeSalePayment` decrements what
it saw before its transaction, so the balance may fall below zero: `OverdraftBounded`
says by how much. A handler that is lost between its two writes leaves a top-up
COMPLETED in the ledger that nobody will add: it is `Stranded`.

### PaymentSettlement

`slot` says what each request and the worker are doing and what they have read
(`snapshot`); `counted` and `progress` are the sets of payments whose amounts make up
`totalPaid` and from which `status` was calculated; `issued` counts the token steps of
each payment, without a limit. A job that fails goes back to its start with one attempt
less, then to `failed`, where an operator can retry it.

### SaleCreation

`stage` is the program counter of each `createSale`; `allocation`, `stock`,
`sale`, `totalPaid`, `payment`, `task`, `charged`, `balance`, `assigned` and
`jobs` are the rows it and the reversal touch; `undo` is what an operator has
read of a sale before reversing it. The decrement of the stock is through
`this.prisma`, so `CommitSaleFails` leaves any prefix of it done. The reversal
works on what it read, and the database makes the second of two reversals fail
because the sale to delete is gone.

### SaleStock and StockRoom

`Accepts` is `validateSaleProductQuantity` over the items in their order, with the
promises `AllocateInventory` makes to the items before; `TakenBySale` is what
`processBatches` decrements, item by item, the oldest batch first. `StockRoom` keeps the
rows: `warehouse`, `inventory`, `batch`, `transfer`, and what each sale was `allocated`.
A fulfilment (`BeginFulfil`, `FulfillTransferRequest`) chooses its batches before its
transaction; the transaction finds or creates the inventory at the other warehouse and a
batch of the same price there (`MoveBatch`, and `MoveAll` its loop). `received` and
`moved` count units, for the properties.

### DeviceInstallation, InstallerTask, FieldWork

`status` is `Device.installationStatus`, `codes`, `sent` and `reported` what became of
the codes an installation makes, `deviceJobs` and `deadJobs` the queue. A job is
skipped, fails in the service, throws after storing (`GenerateUnpaid`: the code reads a
field of an undefined value), or stores and mails (`GeneratePaid`). An operator's rerun
(`RerunGeneration`) reads the sale without its customer, so it throws for paid-up and
unpaid sales alike, after it stored the code: it never mails one. `task` holds the
installers' tasks; an installation is a loop over the devices of a sale (`CheckDevice`,
`LocateDevice`, `QueueDeviceJob`) that then closes the task by calling `completeTask`.
`FieldWork` adds what reaches both from elsewhere: a sale with its task, payments that
mark devices, an administrator's edits, the synchronisation of statuses, files and
reversals.

### Invoicing

An `invoice` row has a parent (0 for a master), a total and the cached amount and
status; a `payment` its invoice and receipt. `DeriveInvoiceAmounts` sums payments as
the code does: those of a master include its children's and those of no invoice.
`BeginPay`, `PayInvoice`, `PayDerives`, `PayWrites` and the synchronisation
(`SyncFinds`, `SyncLinks`, `SyncSums`, `SyncWrites`) are the statements of
`payInvoice`; `Confirm`, `PostDerives`, `PostWrites`, `PostThrows` those of a payment
that completes later; `View` is a reading that synchronises. An invoice whose due
date has passed (OVERDUE) is taken for SENT.

### AgentRecords

`account`, `profile`, `assigned`, `isAssigned`, `serves` and `wallet` are the rows.
A merge is five steps, as in the code: customers, the reading of the surviving
wallet, the wallets, the device assignments, the deletion, each of which answers with
an error of its own rather than stopping the merge.

### The back office

* `CustomerApproval`: `customer` rows with their flag and status, `rejections` and
  the `history` rows that record them. Creation looks the address up before its
  uploads; a resubmission reads, uploads, writes and marks a rejection. An imported
  customer has no address and neither approval column set
  (`csv-upload.service.ts:1027`), so it starts with the schema's defaults
  (`customer.prisma:28`): PENDING and yet allowed to buy. The customer of a donation is
  one that staff registered without an address.
* `CsvImport`: `job` and `worker` are the queue, `session` the statistics;
  a row goes through `FindAgent` … `CreateContract` to `CreateSale`, which throws in
  every attempt because nothing injects the generator of sale numbers; what follows
  it is unreachable and not modelled. Flushing the queue removes its jobs, but the row
  that runs goes on and still writes customers and statistics.
* `PaymentCorrection`: the job reads all codes, then for each device the sale, makes a
  payment for each missing code, and writes the total it read plus what it added.
* `TokenBatch`: the job reads its file, asks the vendor's service for a code for each
  row and stores it; the file is removed when an attempt ends, however it ends.
* `DeviceSales`: `sold` says which devices and which version each sale has, `request`
  what each running sale, donation or edit named and checked before the transaction that
  writes; any of them overlap. `contested` are the devices that two requests named at a
  time, or a donation named while they were sold. An edit's version is compared before
  its transaction and never in it.

## 3. Runs

| run | question | result |
|---|---|---|
| `plan_retries` | retries at every point of post-processing, by queue and operator, with restorations, on plans longer than the attempts of a job | totals settle, COMPLETED means paid and is final, no early message, paid-up sales become COMPLETED even when every notification throws |
| `wallet` | repeats, verifications, completions of sale payments and two lost handlers, no two handlers on one top-up | credited at most once, overdrawn by no more than the completions at work, ledger and balance differ by the top-ups between their writes, refines `IdealWallet`, collected top-ups arrive unless stranded |
| `settle_serial` | five kinds of payment, one request or job at a time, the worker failing and an operator retrying | nothing that was recorded is lost, tokens are issued once and once more per failure |
| `settle_live` | webhook, purchase, verification and jobs interleaving, worker failing | only received money is counted, tokens are issued as often as handlers overlap, no recorded payment is forgotten, each is processed in the end |
| `sale_saga` | three sales competing, any step failing, two operators reversing | stock and money stay consistent |
| `field` | a sale of two devices, two tasks, an installer, payments, edits, files, a reversal, the worker | installed stays installed, closed tasks stay closed, no open task without its sale, every installation is answered |
| `stock` | two warehouses, a transfer and a sale from the same batches | no unit is lost or invented, a transfer moves once, no transfer waits for a deleted warehouse |
| `invoice` | three invoices and three payments of a sale, two requests at once | invoices add up, the cache agrees when quiet, a voided invoice stays voided |
| `agents` | three agents of two accounts, two devices, a customer, a merge | one holder per device and a truthful flag, no money and no customer lost |
| `agents_merge` | a merge of two duplicates into one agent | violated: the money of only one of them is kept |
| `office` | each of the five components of the back office | approvals, imports, corrections and batches keep their promises; only contested devices are sold twice |
| `edits` | two edits of a sale that name the version they saw | violated: the second is applied over the first |

The violated runs are the findings in `PROJECT.json`. In `agents_merge`,
`transferWallets` adds each duplicate's balance to the balance the surviving wallet had
before the loop, and writes it, so the last duplicate's write replaces the others', and
then deletes all their wallets. In `edits`, `updateSale` compares the version under
the comment "Optimistic locking: version check" (`sales.service.ts:562`), but with what
it read before its transaction, and the transaction counts the version up without
comparing it: both of two edits that saw version 1 pass, and the one that writes last
overwrites the other.

### What each property says

* Plan: `SettledTotal` (no payment waiting implies the total is the sum),
  `CompletedMeansPaid`, `CompletedIsFinal`, `CongratulatedOnlyWhenPaid`,
  `PaidUpIsCompleted` (liveness).
* Wallet: `PostedAtMostOnce`, `OverdraftBounded` (below zero by no more than the
  completions that run at the same time take), `IdealSpec` (refinement), `LedgerAgrees`
  (the COMPLETED rows add up to the balance and what is between its two writes, and each
  lost handler strands one top-up at most), `CollectedIsPosted` (liveness, but for
  stranded top-ups).
* Settlement: `OnlyCompletedCounted`, `NextPaymentIsKept`, `QuietMeansSettled` (when
  nothing is left to do, total and status count every recorded payment, also after
  failures, and without failures every payment received), `IssuedOnce` (an online payment's
  tokens as often as handlers can overlap before the first marks it, another's once and
  once more per failure), `NextPaymentIsSettled` (liveness).
* Sales: `StockAccounted` (stock, allocations and what is sold
  add up, and no batch is below zero), `ChargedIsRecorded`, `NeverRefundedTwice`.
* Field: `NothingGoesBack` (an action property over devices and tasks),
  `OpenTaskHasSale`, `OneCodePerInstallation`, `InstallationIsAnswered` (liveness).
* Stock: `StockConserved`, `TransferMovesOnce`, `WarehousesInOrder`.
* Invoices: `InvoicesAddUp`, `CacheAgrees`, `VoidIsFinal`.
* Agents: `AssignmentsAgree`, `MoneyKept`, `NobodyIsLost`.
* Back office: `CustomersInOrder` (the flag that lets a customer buy is of one who was
  approved, or was imported and nobody has reviewed; addresses differ but for resubmitted
  ones; resubmissions answer rejections one by one),
  `ImportsInOrder` (no twins among the customers an import makes; the session counts
  every attempt), `PaymentsInOrder` and `NeverOverpaid`, `BatchInOrder` (a row gets one
  code, and one more for each death of the process), `SalesInOrder` (two sales share a
  device only if it was contested). `EditsWhatItSaw`, in `edits`, is what optimistic
  locking would be.

### Bounds, and why they are enough

* Plans: two instalment plans (with and without a ONE_OFF item beside) and a ONE_OFF
  sale cover the branches of `calculateInstallmentProgress` a `CoversPrice` plan takes.
  A later payment may be any open amount, so three (`MaxPayments`) reach the end of each
  plan, also two jobs behind; three attempts are the code's; one operator retry
  (`MaxReruns`) comes after them.
* Wallet: two top-ups, one of each gateway, since the gateways' code differs and two of
  one kind only meet in the sum; two handlers are enough for an overlap, of completions
  that overdraw too; two crashes hit any stage and can strand both top-ups; `MaxBalance`
  bounds the voluntary credits only.
* Settlement: one payment of each kind when serial; when interleaved, one online,
  one at the device and one recorded, with one request beside the worker, the
  smallest set in which every two of webhook, purchase, verification and job
  meet. Two failures use up the two attempts of a job in `settle_serial`, so that an
  operator retries it.
* Sales: two sales of the agent sharing a device, one of the office sharing the
  other device and the stock; a stock of three in two batches for demands of
  two, two and one, so that a batch runs out within a sale; a balance of four
  that pays either of the agent's sales but not both; one failure, anywhere; two
  operators.
* Field: two devices, so that an installation is a loop that can stop in the middle;
  two tasks, so that one is made by hand beside the sale's; one device is tokenable and
  one is not; a request of people beside one of what runs by itself or for a payment;
  two attempts and one mail failure, so that a job is repeated; one rerun; one request
  failure, anywhere but between locating a device and queueing its job (section 4).
* Stock: a delivery of two, so that a request for three or a kit of two units with a
  lamp beside it meets the end of a batch; three batches are two at one warehouse and
  the one a transfer makes at the other; one transfer and one sale of the same stock.
* Invoices: a price of three with amounts of one and two, so that a master can be
  split and a part of it paid; three invoices are a master and two children, or
  a voided master and the one that replaces it; three payments pay everything by ones.
* Agents: two accounts, one of which has two categories, so that a merge must leave the
  other profile alone; two devices for the bulk assignment; two top-ups put money into
  two wallets. `agents_merge` has three accounts because the loss needs two duplicates.
* Back office: two customers compete for one address; two rejections let a resubmission
  answer the wrong one; two rows of the same names find each other's customers; three
  attempts are the code's; two devices of one sale and one of another, two failures;
  two rows of a batch and one death; two sales and two sellers over two devices, the
  smallest set in which a device is contested and another is not, three versions. `edits`
  needs one sale and one device.

### Fairness

* `WF` on the steps of a running handler, slot or request: the event loop resumes a
  request whose database call returned. Crashes are steps of their own.
* `WF` on jobs (`InstallmentPlan`, `AgentWallet`); `SF` on `process-next-payment`
  (`PaymentSettlement`) and on the device worker (`FieldWork`): BullMQ hands jobs out
  first in, first out, so jobs that keep coming cannot starve one. The set of
  jobs has no order, hence strong fairness for what the order guarantees.
* `SF` on `ReceiveSuccess` in `wallet`: the gateways repeat a notification
  until it is acknowledged. This is an assumption about Paystack and Ogaranya,
  not about this code. The Ogaranya controller answers 200 also when its handler
  threw, so that a failure there is not repeated; `CollectedIsPosted` is checked
  without such failures.
* Nothing is assumed of people: no fairness on payments, retries, edits or reversals.

## 4. What holds only under an assumption

Some properties are true of the code only as long as something does not happen.
The assumption is then a constant of the module (named in the theorem, where there
is one), and changing it in the run's configuration makes TLC refute the property:

| property | needs | otherwise |
|---|---|---|
| `CompletedMeansPaid` | `CoversPrice` of the plans; in the theorem, plans that differ in their price (`PlansApart`), so that a restored sale can be told | with a starting price above a month, `calculateInstallmentProgress` counts the months of the whole total, and a sale with 8 of 10 paid is COMPLETED |
| `CompletedIsFinal` | no restoration before the step; in the theorem, the same and `StartsBelowPrice` | the next payment after a restoration recomputes the status; a starting price that is the whole price (the check against it is commented out, `sales.service.ts:1427`) starts a plan of no months, which a late job recomputes |
| `CongratulatedOnlyWhenPaid` | plans longer than the attempts of a job and the operator's repetitions; in the theorem, `PlansApart`, `PaidAtOnce` and `StartsOnce` | each retry of the first payment counts a month; so does each payment whose total meets the starting price |
| `PostedAtMostOnce`, `IdealSpec` | `~Overlap`, `~LateFailures` | two deliveries at once, or a failure after a success, credit a top-up twice |
| `LedgerAgrees` | `~Overlap`, `~LateFailures` | the second delivery adds what the ledger has once |
| `CollectedIsPosted` | the webhook is repeated | an operator's verification cannot replace it: each attempt inserts a row under the reference it verifies, which the unique index refuses |
| `QuietMeansSettled` | `~Concurrent`, only jobs fail, `~LateFailures` | a stale sum is written last; a payment COMPLETED by a request that failed is never processed |
| `IssuedOnce` | `~LateFailures` | a payment that fell back to FAILED is verified, and its tokens issued, again; `Concurrent` only changes the number: webhook and verification that both pass the status check issue twice |
| `NextPaymentIsKept` | requests do add their job | a payment without a job |
| `StockAccounted` | `~Racing` | two requests between their checks and their transactions |
| `NothingGoesBack`, `OpenTaskHasSale`, `OneCodePerInstallation` | the pairs in `Overlap` (in the theorems, `HandlersApart`); files that name no earlier status (`FilesForward`) | a late answer of an installer overwrites a cancelled task, an administrator an installation; a task is created while its sale is reversed; a restoration file turns an installed device back |
| `InstallationIsAnswered` | no failure at "queueing" | the location is stored, the job never is, and a device can not be located again |
| `StockConserved` | products of one inventory each (`OneEach`; in the theorem, `InventoriesApart`), sales and fulfilments apart (`StockApart`) | units beyond the first inventory are never promised; both take the batches both chose |
| `TransferMovesOnce`, `WarehousesInOrder` | fulfil and fulfil, fulfil and reject apart (`TransfersApart`); create and create, delete and request apart (`WarehousesApart`) | stock moves twice, or for a rejected request; two main warehouses; a request to a deleted one |
| `InvoicesAddUp`, `CacheAgrees`, `VoidIsFinal` | the pairs in `Overlap` (in the theorems, `InvoicesApart`), `Careful`; for `InvoicesAddUp` a tax of zero, since `createSubInvoice` compares the amount before tax | payments beside payments or voids; a payment pending when its invoice is voided revives it |
| `AssignmentsAgree` | requests for devices apart, merges alone | two agents hold a device; an assignment to an agent that is being deleted |
| `MoneyKept` | merges alone, of one duplicate (`Careful`) | `agents_merge`; a top-up between the reading and the writing is overwritten |
| `NobodyIsLost` | merges alone, of accounts with one profile (`Careful`) | deleting the user of a duplicate deletes the other profile too |
| `CustomersInOrder` | `CustomersApart` of `CustomerOverlap`: creations and changes apart, a resubmission apart from others and from approvals | one address for two, an approval that survives a resubmission, a rejection marked twice. Of its parts, `OnlyApprovedBuy` needs only that no approval overlaps a resubmission (`NoApprovalMeanwhile`), `ResubmissionsAnswer` nothing |
| `PaymentsInOrder`, `NeverOverpaid` | `~PayMeanwhile` | the total is written from what was read before; a code is paid for twice |

`OverdraftBounded`, `SalesInOrder` and `ChargedIsRecorded` need nothing: they say what
overlapping requests can do at worst.

`InstallmentPlan!NeverOverpaid` is stated and not checked: nothing in the code
serialises two payments of one sale, and TLC refutes it in a few steps.

## 5. Proofs

All theorems are checked by TLAPS for every value of the constants that the
named assumptions of the module allow. Sets that are summed over (handlers, sales,
batches, agents, rows) are assumed finite. Where a theorem names more than the
assumptions of section 4, it says so below. The inductive invariants were
checked by TLC on the runs' instances before they were proved.

* `SumTheorems`: `SumAdd`, `SumRemove`, `SumChange`, `SumSame`, `SumLess`, `SumNat`,
  `SumUnion`, `SumSingle`, `SumPlus` and `SumConstant` about `SumFunctionOnSet`. The
  provers have no induction over sets; `MinimalSubset` replaces it: among the subsets of
  a finite set that would refute a law there would be a minimal one, and taking an
  element from it refutes that. `UpTo` is induction over the numbers, for a set in place
  of a property.
* `InvoiceAndPlanProofs`, about `Invoicing`. `InvoicesApart` says which operations may
  overlap at all: a view with a view, with the creation of the master or of a
  sub-invoice; the creation of a sub-invoice with another, with that of the master or
  with a receipt; a void with a void or a receipt. Nothing runs beside a payment.
  * `VoidedStaysVoided` (`VoidIsFinal`): `RowsFit` says that one master is active, that
    a sub-invoice is active only with its master, and that no payment is left on a
    master that was voided; `TaskFits`, for each operation and step, that what the
    request has read is still so: the invoice a payment is about to write is active,
    the one about to be voided has no payment, and nobody waits for the gateway. A
    write of the cache then never meets a voided invoice. `Beside` is `InvoicesApart`
    seen from one of the two operations.
  * `InvoicesDoAddUp` (`InvoicesAddUp`), with a tax of zero: `Room(i, n)` says that what
    is paid and n more on invoice i, with what the sub-invoices then still ask for, fit
    in the price. `MoneyRows` says so of nothing and of the payment that waits, and
    `MoneyFits` of the payment a request is about to make; a sub-invoice about to be
    created has room beside the totals of the others (`Claims`), or finds its number
    taken by one that was created meanwhile. A payment takes as much from what is open
    as it adds to what is paid (`RoomPaid`), and what is open is never more than what is
    claimed (`OpensAreClaimed`). `AllCounted` is the part about payments: each is
    of the sale, of the active master or of one of its sub-invoices.
  * `CachesDoAgree` (`CacheAgrees`), for any tax: `CacheAgrees` says something only once
    no request runs, so `CacheInv` says what holds while some do. Until the side effects
    of a payment first failed, an active invoice that caches anything but what is paid
    has a request ahead that will write it (`Settles`: `SyncAhead` for the master,
    `PostAhead` for a sub-invoice), a payment without an invoice has one ahead that will
    link it (`NoneUnlinked`), and what a request is about to write is what is paid by
    then (`SawFits`, which nobody makes stale, since payments run alone). Each step keeps
    what it had ahead or has done it (`AheadKept`). `ReceiptsFit` needs the second: a
    receipt joins a payment without an invoice to the invoice it names, which is a
    sub-invoice only where a failed side effect left the payment unlinked.
* `InvoiceAndPlanProofs`, about `InstallmentPlan`
  * `TypeCorrect`; the lemma `ProgressType` says what the arithmetic returns.
  * `TotalIsSettled` (`SettledTotal`): it is inductive by itself. A step that
    leaves the queue empty either is the last job, which writes `collected`, or
    moves both sides by the same amount.
  * `CompletedIsPaid` (`CompletedMeansPaid`): the invariant `Paid` adds that the
    total never exceeds what was collected, that each waiting job's amount is
    within it, and that the plan covers its price. The lemma `MonthsArePaid`
    (division rounds down) carries `CompletedProgressIsPaid`, where the
    assumption `CoversPrice` is needed. `PaidUnlessLowered` says that `Paid` holds
    as long as nothing was given back.
  * `CompletedStays` (`CompletedIsFinal`) follows from `Paid`: the total of a sale
    that is paid is not below its price, whichever job writes it next, and
    `PaidProgressIsCompleted` says that the arithmetic then answers COMPLETED. Two
    edges of `calculateInstallmentProgress` need `StartsBelowPrice`.
  * `CongratulatedIsPaid` (`CongratulatedOnlyWhenPaid`). The branch for a total that
    equals the starting price takes a month off the plan each time it is run, so a short
    plan runs out of months before it is paid. `StartsOnce` excludes that: the first
    payment asked for is not below the starting price, no sum of `completeSalePayment`'s
    amounts and monthly payments meets it later, and the plan has more months than a job
    has attempts and an operator repetitions. `PaidAtOnce` says that a plan without
    monthly payments is paid by its first payment. The plans of the run satisfy both.
    `Steady` counts what is left: `MonthsLeft` ties the months to the attempts of the
    only job there is while the first payment is alone, `Begun` says of which payments a
    total below the starting price consists, so that none meets it a second time.
* `AgentWalletProofs`
  * `WalletTypeCorrect`, with `HandlersHaveTopUps`: a working handler has a top-up.
  * `PostedOnce` (`PostedAtMostOnce`): `PostingInv` says what each stage knows (a
    marking handler's row is not COMPLETED, a posting handler's is, and not yet
    posted), that a row that is not COMPLETED was not posted, and that two
    handlers are on different top-ups. The last part is where `~Overlap` is used.
  * `LedgerIsBalance` (`LedgerAgrees`, for any number of crashes): inductive with the
    finiteness of `Stranded` beside it and what `PostingInv` says of the handlers. A
    step either moves no top-up between the sets, or one into `Unposted` (marked, not
    yet posted) or out of it, and a lost handler leaves at most its own in `Stranded`.
  * `OverdraftIsBounded` (`OverdraftBounded`), whatever overlaps, crashes and fails late:
    it is inductive by itself. A completion starts only where the balance covers it, so
    that the balance is not negative then, and each one that takes its amount leaves the
    ones at work (`Debiting`), so that the bound falls by as much.
  * `WalletRefinesIdeal` (`IdealSpec`), completions and crashes included: initial states
    map to initial states and every step to a deposit, refund, withdrawal or stutter of
    `IdealWallet`, a completion to its approval and its later withdrawal.
* `PaymentSettlementProofs`
  * `SettlementTypeCorrect`, with `WorkIsDefined`.
  * `CountsOnlyCompleted`, for any concurrency and failures: a COMPLETED payment
    stays so, and every set of payments in the state came from a reading.
  * `NextPaymentNotForgotten`: `KeptInv` adds that a run about to finish has
    issued, and that only a `post` job works on a recorded payment.
  * `SerialSettles` (`QuietMeansSettled`), for any failures and retries of jobs:
    `ReadIsCurrent` says that what the running handler has read is still current;
    `NextNotLost`, whatever failed, that a recorded payment is counted or has a summing
    of its own ahead (`NextAhead`: a waiting, running or failed job of it);
    `NothingLost`, before the first failure, that a total or status that is behind at
    all has a summing ahead.
  * `TokensIssuedOnce` (`IssuedOnce`), for any concurrency, failures and retries: in
    `OnceInv`, `WorkedOnOnce` says that a payment that is not online is worked on by one
    slot, or by one `post` job that waits or failed; `WorkFitsPayment` that which jobs a
    payment has depends on its kind, and that what has tokens is COMPLETED; `IssuedFits`
    that the tokens of an online payment and the slots at work on it together are no more
    than can overlap, since nobody starts on it after the first mark, and that who may
    still issue for another finds no more tokens than there were failures.
* `SaleAndStockProofs`, about `SaleCreation`
  * `SaleTypeCorrect` (`TypeOK`, in which the balance is never negative).
  * `SagaIsConsistent` (`ChargedIsRecorded`), for any races and failures: `Saga`
    says for each stage whether the agent is charged, the payment recorded and
    the task asked for; `UndoneTasks` that a task an operator saw does exist.
  * `StockIsAccounted` (`StockAccounted`): `RequestInv` says that one request is
    validated at a time and that a PENDING payment has a sale; `StockInv` adds that what
    a validated request has chosen still fits into each batch, and that a rolled back
    one has no sale.
  * `RefundedOnce` (`NeverRefundedTwice`), for any races and failures: `RefundInv` is
    the inequality between balance and what the agent owes (`Owed`, which counts a debit
    that is not recorded yet), and `PaidInv` says that a total, also one an operator
    has read, is only there for a payment that is as long as the sale is.
* `SaleAndStockProofs`, about `StockRoom`. Each theorem names the pairs of requests that
  must not overlap and leaves every other pair free.
  * `TakeSums`: the loop of `processBatches` takes exactly what it is asked for, if the
    inventory has it. `TakeAt` gives the closed form of what it takes from a batch, and
    `UnitsBeforeStep` that what the batches before it hold grows by what it holds.
  * `StockTypeCorrect`, for any overlaps: `StockRows` bounds rows by the rows they refer
    to, and `Fits` says that the rows a request read are still there (`Grows`: none is
    ever removed) and that a fulfilment takes its quantity from batches of its own
    inventory. `OverlapsOnly` is what the next theorems use of `Overlap`.
  * `WarehousesStayInOrder` (`WarehousesInOrder`), under `WarehousesApart`:
    `WarehouseWork` says that a creation of a main warehouse still finds none, that a
    warehouse about to be deleted has no pending transfer, and that one a transfer is
    requested for is still live.
  * `TransfersMoveOnce` (`TransferMovesOnce`), under `TransfersApart`: `TransferWork` says
    that a transfer about to be fulfilled or rejected is not fulfilled yet.
  * `StockIsConserved` (`StockConserved`), under `StockApart` and `InventoriesApart`:
    `StockWork` says that what a request is about to take is still in each batch, and
    `Conserved` that what an item received is what its batches hold and what sales were
    given of it (`AllGiven`). `MoveAllIs` says that the loop of a fulfilment keeps what
    the inventories of an item hold together, whichever rows it adds to
    (`UpTo`, over the loop's steps). `SaleTaken` says that `TakenBySale` takes no
    more than there is; it is where `InventoriesApart` is needed.
* `AgentRecordsProofs`
  * `AssignmentsHold` (`AssignmentsAgree`): `StillFree` and `StillHeld` say that what a
    request for devices has read of them still holds when it writes, `StillMerging` that
    a merge has nothing of its duplicates left to lose when it deletes them: no customer
    from its second step on and, unless it had errors, no device. `ApartMeans` and
    `MayRunMeans` are where the assumption `RecordsApart` on `Overlap` is used; `Careful`
    gives that only the duplicates go (`GoingMeans`).
  * `NobodyIsLostHolds` (`NobodyIsLost`), one lemma for each action that takes a customer
    or an agent away (`LosesNobody`).
  * `MoneyIsKept` (`MoneyKept`): `MoneyInv` adds that the balance a merge has read is still
    the survivor's, and that its duplicates have no wallet when they are deleted.
* `FieldWorkProofs`. `HandlersApart` says that no two of the handlers that write a task
  by its id overlap, that no task is created while a sale is reversed, and that an
  administrator's edit of a status runs beside nothing else that writes one. Payments,
  the synchronisation and `revertTasksAccepted`, which looks at the status in its
  `where`, may overlap with any of them.
  * `OpenTasksHaveSales` (`OpenTaskHasSale`): `TaskIInv` says that a task an installer is
    about to write is still open (`TaskAsRead`), that a reversal has read every task of its
    sale, and that handlers are alone as assumed.
  * `FieldNeverGoesBack` (`NothingGoesBack`) follows from it, `StatusAsRead` and
    `FilesForward`.
  * `OneCodeEach` (`OneCodePerInstallation`): `CodeIInv` adds that a device has one job,
    of a sale that has it, that a device being located has none yet, and whether a code
    is still owed for each device (`Owed`).
* `BackOfficeProofs`, each about a component's specification alone; `BackOffice` checks
  the same properties on an instance, and a step of it is a step of the component or
  leaves its variables as they are.
  * `CustomerTypeCorrect`, for any overlaps.
  * `CustomersStayInOrder` (`CustomersInOrder`): of what a request has read,
    `AddressFree` says that the address it is about to write is still free but for
    resubmitted customers, `Pending` that a customer about to be resubmitted is
    still unapproved, has the count that was read and a rejection to answer, and
    `Answering` that after the write there is room for one more marked row.
    `Permitted` is where `CustomersApart` is used; `OneEach` and `Newcomer` say whom
    a request concerns. Marking a row raises the cardinality of a subset of the rows
    by at most one (`FiniteSetTheorems`).
  * Two of its parts hold under less. `ResubmissionsAnswerRejections` (for any
    overlaps): `CountsBelow` says that a resubmission about to be written counts from a
    number that is below the customer's rejections. `OnlyApprovedCustomersBuy` (under
    `NoApprovalMeanwhile`): `StillClosed` says that a customer a resubmission is on its
    way for may not buy until it is written, `Unborn` that one being registered is
    nobody else's yet.
  * `ImportStaysInOrder` (`ImportsInOrder`), for any files, attempts and failures: `JobsFit`
    says that the worker has an active job with attempts left, and `SessionCounts` that
    the session's numbers are the sum of the attempts that failed, which reaches the
    number of rows once every row has failed.
  * `OnlyContestedDevicesSoldTwice` (`SalesInOrder`), for any overlaps: `StillFree` says
    that what a request checked is, but for the contested, in no sale other than the one
    it edits, `KeptApart` that it is in no other request, and `WellFormed` that only an
    edit names a sale.
  * `CodesOncePerRow` (`BatchInOrder`), for any failures and deaths: `FileMeansNoCode`
    says that as long as the file is there, the rows an attempt has
    yet to come to have no code but one for each death.
  * `TotalsFollowPayments` (`PaymentsInOrder`) and `CodesPaidOnce` (`NeverOverpaid`):
    `SeesWhatIs` says that the codes the job read are
    still those of the devices, that payments made and missing add up to them, and that,
    until a failure, the payments of the sale are those it counted.

### Only model-checked

* Liveness (`PaidUpIsCompleted`, `CollectedIsPosted`, `NextPaymentIsSettled`,
  `InstallationIsAnswered`) is out of the prover's reach. Every other property of the
  passing runs is a theorem, under the assumptions of section 4.
* That the data satisfy those assumptions is not proved; the runs' instances do.

## 6. Plan

What is left, the most important first:

1. A theorem that what a sale of `StockRoom` takes of each item is what its products
   need.
2. The composition of `createNextPayment`'s debit (`AgentWallet`) with its
   payment (`PaymentSettlement`), and of both with `SaleCreation`.
3. The other operations of partly modelled components: the PAYGO master invoice, the
   products and installers of an agent, the retry of other queues' jobs, devices
   created with counted codes.
4. An abstract stock (a number of units per warehouse, moved in one step) that
   `StockRoom` implements when requests do not overlap; `StockIsConserved` has the sums
   such a refinement needs.

## 7. Abstractions

* Identifiers, references and random parts are fresh values; where uniqueness
  bites (`verifyPaystackTopUp`, sub-invoice numbers) it is modelled by its effect,
  the failing insert.
* Cash and wallet payments differ in `createNextPayment` only by the debit;
  `PaymentSettlement` has both as `NEXT`, `AgentWallet` has the debit.
* A process that dies and a statement that throws are one action where nothing after
  either runs. `TokenBatch`, `CsvImport` and `PaymentCorrection` separate them, because
  what a `finally`, a catch or the queue does next differs.
* A sale has one product and one amount in the payment modules; `StockRoom` has its
  items, `DeviceSales` its devices.
* Time is not modelled: the 10 and 30 s transaction limits appear as failures, the
  job's delay as the freedom to run late, a due date as nothing.
* A code is opaque: which one the vendor returns is not looked at, only how often it is
  asked for and stored.

## 8. Files

`MCX_run.cfg` configures module `MCX` for a run; each configuration gives every
constant and switches deadlock checking off, because all these systems may stop
(a sale can be finished, a file imported, and the rows are bounded).

The definitions commented "Mutant of ..." are plausible bugs of the definition
they name. They are not used by any specification; substituting one breaks the
property `PROJECT.json` pairs it with, which shows that the property depends on
the code it is about.

## 9. Further hazards

What the models meet or leave out beside the hazards listed in `PROJECT.json`:

* `auth/auth.service.ts:443`: when an unexpired reset token exists, it is replaced, and
  the mail carries the one that was replaced.
* `csv-upload.service.ts:1206`: a batch is created in every attempt of a row
  (`batches` counts them); `:1363`: the generator of sale numbers is never injected, so
  no row ever makes a sale.
* `sales-donation.service.ts:407`: all donations decrement one fixed batch, whatever
  is left in it.
* `data-mapping.service.ts:184`: imported customers have no address, so the search for
  an existing one matches anybody imported under the same names (`Matches`).
* `csv-upload.service.ts:1027`: an imported customer may buy before anybody reviewed it,
  because the column that says so defaults to true (`OnlyApprovedBuy` allows it).
* `device.service.ts:780`: the rerun of a device's generation does not load the sale's
  customer, so it stores a code it can not send (`RerunGeneration`).
* `csv-upload.controller.ts:419`: flushing the import's queue does not stop the row that
  runs.
* `device.service.ts:1291`: the counter of a device is overwritten with the service's
  return code.
* `sale-reversal.service.ts:134`: only a COMPLETED sale is refused, whatever has been
  delivered; `:205`: the refund is of `totalPaid`, which is still 0 until the job of
  the first payment has run, so a reversal before it refunds nothing
  (`NeverRefundedTwice` bounds the refund from above only).
* `invoice.service.ts:960`: a sub-invoice is numbered by counting: two at once get the
  same number, and the second fails.
* `sales.service.ts:1147`: `createNextPayment` validates against a total that the delayed
  job of the previous payment has not updated (`InstallmentPlan!NeverOverpaid`).
* `wallet.prisma:22`: the balance and the balances in the ledger's rows are floats; the
  models use integers.
* `agents.service.ts:341`: an agent is an account and a profile in two statements; the
  import repairs a missing profile, the endpoint does not.

## 10. Not modelled, and why

Of the components that are partly modelled, `PROJECT.json` says which operations are
left out. Not modelled at all: identifier generators (random values kept apart by
unique indexes); scheduled jobs (they send reminders: those that would reconcile are
commented out); authentication, users, roles and permissions, the audit log, products,
contracts and files (single-row records that no modelled decision reads);
analytics, reports and export (they read and format). These, the controllers, data
transfer objects, templates and mappings of columns are more than half of the lines of
the implementation; they keep no state of their own that several steps share. Mail,
SMS, file storage, the gateways and the vendor's token service are external: the models
contain what they may answer. The endpoint `initiate-failed-post-payment` (an
operator's rerun of `handlePostPayment`) is like `RetryFailedJob` but outside the queue.
