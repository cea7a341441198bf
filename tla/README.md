# Verified models of the ERP backend

`backend/` is a Go service over PostgreSQL. Its core is stock: sales take it out of a
branch, purchases bring it in, transfers move it, and every change leaves a row in
`stock_movements`. Each HTTP request runs one transaction that locks an order, then
inventory rows one at a time, and dozens of requests do so at once. This directory
models those requests statement by statement, then the payments of sales, the versioned
master data, the catalogue of products, users and roles, the reports, and the hub that
pushes events to browsers. TLC checks all interleavings of small instances; TLAPS proves
the main invariants for every instance.

## The system

| Component | State | Operations that change it | What makes it correct |
|---|---|---|---|
| Sales (`internal/sales`) | `sales`, `sale_items`, fulfilments | create, confirm, fulfil, complete, cancel, pay | a sale moves its stock once; its status agrees with its items |
| Purchasing (`internal/purchasing`) | `purchases`, `purchase_items`, receipts | create, order, receive, complete, cancel | the same, inwards |
| Inventory (`internal/inventory`) | `inventory`, `stock_movements`, `stock_transfers` | open a row, adjust, transfer | quantity = sum of movements, never negative, nothing lost |
| Products, categories, customers, suppliers (`internal/master`) | one table each, with versions | create, update, soft-delete | an update never overwrites one its author has not seen |
| Branches (`internal/branches`) | `branches`, `user_branches` | create, update, grant access | the same |
| Users, roles, permissions (`internal/users`, `roles`) | `users`, `roles`, `user_roles`, `role_permissions` | create, update, delete, assign | a role in use is not deleted; edits of lists do not mix |
| Authentication (`internal/auth`) | `refresh_tokens` | login, refresh, revoke | a token is spent once |
| Realtime hub (`internal/realtime`) | registered clients, send buffers | register, unregister, broadcast, close | a channel is closed once; a slow client blocks nobody |
| Migrations (`pkg/database`) | `schema_migrations` | migrate at start-up | each file applied once, in order |
| Reporting, dashboard (`internal/reporting`, `dashboard`) | none of their own | read, in several statements | the parts of a report count the same rows but for what changed meanwhile |
| Audit (`internal/audit`) | an append-only log | append | an entry with each change |

Components meet in the database. Sales and Purchasing write Inventory's tables through
its repository in their own transaction; they ask Products and Branches questions *on
another connection*, so that the answer may be stale when it is used. Nothing is shared
in memory except the realtime hub.

What is hard here: two requests that read, check and write back the same quantity; two
that lock the same rows in different orders; an order touched twice by a retry; a request
cut off between two lines; an `int64` sum that wraps; a refused confirmation that is not
rolled back; a role given to a user while it is deleted; lists replaced row by row by two
authors; a report whose statements see different states. `PROJECT.json` lists each hazard at its line.

## The modules

| Module | Models |
|---|---|
| `StockTx` | the tables, the transactions in progress, row locks, COMMIT, ROLLBACK, failure |
| `Sales` | `sales/service.go`: create, confirm, fulfil, complete, cancel |
| `Purchasing` | `purchasing/service.go`: create, order, receive, complete, cancel |
| `Inventory` | `inventory/service.go`: open a row, adjust, transfer |
| `StockSystem` | the three services over one database, and the properties |
| `StockLedger` | the abstract specification: the same operations, each in one step |
| `MCStock` | the instances TLC checks; one `.cfg` for each |
| `StockSystemProofs` | the TLAPS proofs about stock rows, types and locks of `StockSystem` |
| `OrderProofs` | the TLAPS proofs about its orders, and that it implements `StockLedger`, on top of those |
| `SalePayments`, `MCPayments`, `SalePaymentsProofs` | payments of a sale against each other and against its status |
| `VersionedRecords`, `MCRecords`, `VersionedRecordsProofs` | master data edited by several authors under versions |
| `Catalogue`, `MCCatalogue`, `CatalogueProofs` | products with two unique keys, and the categories they refer to |
| `Roles`, `Users` | `roles` and `users`: their tables, locks and statements |
| `Accounts`, `MCAccounts`, `AccountsProofs` | `Roles` and `Users` over one database, and the properties |
| `Reports`, `MCReports`, `ReportsProofs` | the reports and the dashboard beside what they count |
| `RealtimeHub`, `MCHub`, `RealtimeHubProofs` | the websocket hub and its clients |

`Sales`, `Purchasing` and `Inventory` EXTEND `StockTx`; `StockSystem` EXTENDS the three.
`Users` EXTENDS `Roles` and `Accounts` EXTENDS `Users`, since the two services write each
other's table `user_roles`. The others stand alone: a payment reads a sale's status and
total and no stock, what sales and purchases ask about a product is already in `StockTx`,
a report only reads and has in `Reports` the few changes that matter to it, and no service
publishes to the hub yet.

`StockSystem` ends with `INSTANCE StockLedger WITH ...`: the committed tables map to those
of the abstract specification by name, and buffers, locks and requests in progress map to
nothing.

### The stock engine: state and actions against the code

A *session* is one request and its transaction. `pc[s]` says which statement it runs
next, `req[s]` what was asked, `todo[s]` which inventory rows it has left to lock. What
it has written is in `wrow`, `wmov`, `wstatus` and `wdone`, invisible to others until
COMMIT (READ COMMITTED); `orderLock` and `rowLock` are the `SELECT ... FOR UPDATE` locks
and the locks of inserted rows. An action is what runs between two points at which
another request can come between:

* `Request...`: the checks made before the transaction begins (an active product, a
  positive quantity). They are made once, and may be stale afterwards.
* `ConfirmSale`, `FulfillSale`, `CompleteSale`, `CancelSale` and their counterparts in
  `Purchasing`: the lock on the order, the checks of its status and of the input, and the
  decision which rows to lock and which status to write.
* `FulfillItem`, `ReceiveItem`, ...: one turn of the loop over the lines. It locks the
  row, compares and writes the quantity, inserts the movement, writes the item.
* `CheckProduct`: `CompletePurchase` and `CancelPurchase` ask about the product between
  two lines.
* `LockTransferRow`, `MoveStock`: a transfer locks both rows, lower branch first, then
  writes both.
* `Commit...`: COMMIT. `Abort`: a statement fails, the user has no access to the branch,
  the client disconnects, or the process dies; in each case nothing of the transaction
  remains. Permission and branch checks are therefore not separate actions.
* `Leak`, `EndRequest`: `ConfirmSale` and `OrderPurchase` have an unnamed result, so a
  business refusal (`return ErrInvalidSaleTransition`) is not seen by their deferred
  function and nothing is rolled back. The order stays locked until net/http cancels the
  request's context and database/sql ends the transaction.

A row lock is held to the end of the transaction, therefore a row's committed quantity is
the quantity read. Items are quantities by product: both services refuse an order that
names a product twice. `Wrap` is Go's `int64` addition; `QuantityAllowed` is the table's
CHECK, the only thing that catches an overflow of `CancelSale`, `ReceivePurchase`,
`CompletePurchase` and `CreateTransfer`. `ledger` and `posted` are sums of
`stock_movements`, by row and by order.

### Payments

A payment's amount is a `float64`. What matters of it is a pair: `cents`, what
`moneyCents` makes of it (`math.Round(v * 100)`), which `CreatePayment` compares, and
`stored`, what the `NUMERIC(20,2)` column makes of the float the INSERT passes. PostgreSQL
rounds the decimal text, Go the binary product, so the two may be a cent apart;
`PaymentsAssumption` says no more than that. The difference a float makes beyond 2^53
cents is left out. `CreatePayment` locks the sale, checks its status and adds
`paidCents + amountCents` in `int64` (`Wrap`); `CommitPayment` makes the row visible.
`ChangeStatus` stands for confirm, fulfil, complete and cancel, which lock the same row and
look at no payment. `widest` is a history variable: the largest amount accepted, which
`Wide` uses to say when the sum may have wrapped.

### Versioned records

The module follows `master/customers`. An author reads a record (`Read`), and
`BeginUpdate` sends it back with the version read, possibly a second time after the answer
was lost. The checks before the transaction (`BeginUpdate`, `CheckCode`) are steps of
their own; so are the UPDATE's row lock with its condition (`UpdateRow`), the unique index
(`InsertCode`) and COMMIT, since other requests come in between. `Contends` is
PostgreSQL's rule for a unique index: a key in a row that another transaction has written
and not committed is waited for, not refused. An INSERT is an update of version 0 of an
unused identifier. `DeleteMissed` ends without a rollback (`if err :=` hides the error from
the deferred function), and since the UPDATE may have waited for the row, it may hold it.
What else a record says is abstract: `fresh` remembers whose view of it is current.

Suppliers differ in the check for a duplicate code, which skips deleted ones, while the
index does not; branches are never deleted and their code is checked only if it changes.

### The catalogue

Products are versioned records with more to them: two unique keys, of which the barcode may
be missing, and a category. `CheckCategory`, `CheckSku` and `CheckBarcode` are the
statements before the transaction. `EnterSku` and `EnterBarcode` are the two indexes, in the
order they were created; between them a transaction is in one index and not yet in the
other. `KeepCategory` is the foreign key check: it locks the category FOR KEY SHARE
(`catSharers`) and is made only for a new or changed category, so that a product may keep a
category whose row somebody else is about to delete.

A category is really deleted. `BeginCategory` is the read with the count of products,
`ScanCategory` the snapshot of `DELETE ... WHERE NOT EXISTS`, `LockCategory` the wait for the
row and `CheckReferences` the foreign key, which also sees deleted products: it locks one that
refers to the category FOR KEY SHARE, and therefore waits for an update that is changing
the product's SKU, which is a key (the index on barcodes has a condition and makes none). A
soft deletion that finds the product deleted (`DeleteMissed`) may keep its row, as in
`VersionedRecords`. That a product
refers to no category that is gone rests on the foreign key alone (`ReferencesHold`); the
seeded fault is its absence.

### Users and roles

`roles` and `users` hold the committed rows with their links: a role's permissions, a user's
roles. The four kinds of lock are variables of their own: `roleLock` (FOR UPDATE, UPDATE,
DELETE), `sharers` (the foreign key check of `user_roles.role_id`, FOR KEY SHARE),
`userLock`, and `linkLock` for the rows of `user_roles` that a DELETE removes. `work` is what
a transaction has found and written: `todo` the role names left to look up, `role` the one
just found, `got` the roles given, `dropped` the rows its DELETE removes, which are those of
that statement's snapshot.

* A request has an author (`actor`), who holds a role when it comes in (`Ask`, for
  `RequirePermission`). The last statement before COMMIT inserts a row of `audit_logs`, which
  refers to the author: its foreign key check locks the author's row FOR KEY SHARE and waits
  for whoever deletes the author or changes the author's e-mail (`ContendsForActor`). It is
  the conjunct `Audited` of `CommitRole`, `CommitRemoval`, `CommitUser` and `CommitDeletion`:
  one step with COMMIT, since a transaction that has this lock waits for nothing more.
* Editing or deleting a role begins with `FindForUpdate`. `EnterName` is the unique index,
  `ReplacePermissions` the DELETE and the INSERTs. `CountHolders` counts, `RemoveRole`
  deletes, and `CommitRemoval` includes the cascade to `user_roles`.
* `ReadUser` and `ReadRoles` are two statements; an author who sends an update has the
  version of the first and the roles of the second. `WriteUser` compares the version,
  `DropRoles`, `LookUpRole`, `AddRole` replace the roles one by one. `LookUpRole` takes no
  lock; `AddRole` waits for whoever edits or deletes the role.
* Deleting a user reads and checks it before the transaction (`BeginDelete`,
  `CheckProtected`), and drops its roles *before* it locks its row (`RemoveUser`), where an
  update locks the row first. `CascadeRoles` removes what was given in between.
* `Failed`: in `Create`, `role, err :=` hides an error from the deferred function, as in
  `ConfirmSale`; the transaction stays open until `EndRequest`. So does a deletion that
  finds the user gone (`RemoveMissed`).

### Reports

A sum over rows is determined by which rows it takes in. A report is therefore a sequence of
statements (`SalesReport`, ..., `Dashboard`), each with the tables it reads, the conditions
it repeats (`over`: the days asked for, the server's clock, the branches) and its parts; what
a part shows is the set of its rows. `Scopes` is `resolveBranchScope`, which runs once,
before the statements: for a user whose list of branches is empty it yields no condition.
`CreateOrder`, `PlaceOrder`, `CompleteOrder`, `CancelOrder`, `WriteEntry`, `SetMaster`,
`SetActive` and `Midnight` are what other requests and the clock do in between.

`counted` is COMPLETED: an order that is confirmed and then delivered in parts never becomes
COMPLETED, so the reports count only orders that are completed as a whole; the inventory
report's summary has the movement types IN, OUT and ADJUSTMENT, while deliveries, receipts
and transfers write other types (`deliveries`). `day_items` are dropped where the summary has
no day for them, as in the code.

### The realtime hub

Every goroutine is a process: the HTTP handler that starts a client, the client's
`readPump` and `writePump`, the publishers inside `Broadcast`, and `Shutdown`. `Hub.mu`
is a guard: `CanLock` and `CanRLock`, with `sending` as its readers and `mu` as a writer
that keeps it over several steps. `Broadcast` visits the clients one step at a time,
holding the read lock. `Client.Close` runs under `sync.Once`: the first caller does
`EnterClose`, `Unregister` and `CloseConnection`, the others wait for it (`Closed`), as
`Once.Do` does. A client's `send` channel is `inbox` and membership in `closed`.
`Shutdown` copies the map, unlocks, and closes the clients one by one; the
repository calls it from its tests only. Messages are a publisher and a number, enough to
tell order and repetition.

### Seeded faults

A definition `Fault_X` before `X` is `X` with a plausible bug (a check dropped, a lock
not taken, an off-by-one). Nothing uses it. `PROJECT.json` names, for every property of
every run, a fault that makes TLC refute that property when it takes the place of `X`.

## What is checked

| Run | Instance | Properties |
|---|---|---|
| `sales` | 2 sessions; a sale of two products (2 and 1 pieces) delivered in parts, a sale created meanwhile, a stock row that may be missing, adjustments | `MovedOnce`, `ProgressMatchesStatus`, `Refinement` |
| `purchasing` | 2 sessions; no stock rows at first, two purchases, one product switched off and on, adjustments | `ProgressMatchesStatus`, `Refinement` |
| `system` | 3 sessions; a sale and a purchase of two products each, transfers, an opening and adjustments over the same rows | `TypeOK`, `LedgerBalanced`, `NoLostUpdate`, `LocksGoUp`, `NoDeadlock` |
| `liveness` | 2 sessions; confirmations refused without a rollback, completions, transfers | `EveryRequestEnds` |
| `payments` | 3 sessions, one sale of 2 cents, amounts of every rounding, amounts that wrap | `TypeOK`, `OverpaidByACentAtMost`, `PaidWhilePayable`, `SummaryNeverRegresses` |
| `payments_cent` | 2 sessions, 2 sales, one amount that the table rounds up | `NeverOverpaid`, violated |
| `records` | 3 authors, 2 records, 2 codes, versions up to 3 | `TypeOK`, `NoBlindOverwrite`, `NoFalseConflict`, `NoDeadlock`, `DeletedStaysDeleted` |
| `catalogue` | 2 sessions, 2 products, 3 SKUs, 2 barcodes, a category | `TypeOK`, `ReferencesHold`, `OnlyRivalsDeadlock` |
| `accounts` | 2 sessions, 3 roles, 2 users, 2 names and 2 e-mails to exchange, a third e-mail, authors who edit each other, versions up to 3 | `TypeOK`, `HoldersHaveRole`, `NoBlindOverwrite`, `OnlyKnownDeadlocks`, `NoAssignmentLost`, `EditsAreWhole` |
| `reports` | 1 reader of all six reports; a sale, its payment, a purchase, stock, 2 branches, 3 days in 2 months | `TypeOK`, `FiguresExplained`, `LaterPartsHoldMore` |
| `hub` | 2 clients, 2 publishers, `Shutdown` | `TypeOK`, `BroadcastIsSafe`, `ShutdownLeavesNobody` |
| `hub_liveness` | 1 client, 2 publishers of 2 messages, a buffer of 1, `Shutdown` | `InOrder`, `BroadcastEnds`, `LostClientGoes`, `ShutdownEnds` |

* `LedgerBalanced`: the quantity of a row is the sum of its movements.
* `NoLostUpdate`: a quantity about to be overwritten is still the committed one.
* `MovedOnce`: an order's movements add up to what its status and its items say.
* `ProgressMatchesStatus`: never more than ordered; PARTIALLY_ means some and not all.
* `LocksGoUp`, `NoDeadlock`: the lock order, and what it is for.
* `Refinement`: every behaviour is one of `StockLedger`, in which a request happens at
  once and moves a whole order or nothing.
* `EveryRequestEnds`: no request waits for ever.
* `OverpaidByACentAtMost`: concurrent payments exceed a total by the difference of the two
  roundings at most, unless the `int64` sum may have wrapped.
* `PaidWhilePayable`: a payment appears only while its sale is confirmed or later and not
  cancelled.
* `SummaryNeverRegresses`: UNPAID, PARTIALLY_PAID, PAID, in this order only.
* `NeverOverpaid`: what the error text "payment exceeds remaining amount" says. The run
  shows that 1.005 for a remaining 1.00 is accepted and stored as 1.01. The other way past
  the comparison is in `payments`, where `Wide` excludes it: after a first payment an amount
  near 2^63 cents wraps the sum below zero.
* `NoBlindOverwrite`: an update replaces only what its author has read, and is applied once.
* `NoFalseConflict`: whoever is told to reload has an outdated view.
* `DeletedStaysDeleted`: no update changes or revives a deleted record.
* `NoDeadlock` (`records`): records that are given each other's code. `CheckCode` looks
  needless, since there is an index; without it two updates can each hold their row and
  wait for the other's code (the run's seeded fault).
* `ReferencesHold`: no product, deleted or not, refers to a category that is gone.
* `OnlyRivalsDeadlock`: requests on products and categories wait in a circle only if two of
  them ask for one SKU or one barcode, or one deletes a category that a second enters and in
  which a third changes a SKU. In that circle of three the deletion has the category and
  waits for the third's product, the third waits for the SKU the second is giving up, and
  the second for the category. PostgreSQL aborts one of them. Two products that are given
  each other's keys do not wait, thanks to the checks before the transaction.
* `HoldersHaveRole`: nobody holds a role that is not there.
* `NoAssignmentLost`: a role is deleted only while nobody holds it, although the DELETE would
  cascade. It is the FOR UPDATE before the count that does it (the seeded fault reads
  without).
* `EditsAreWhole`: two edits of one list leave the list of one of them.
* `NoBlindOverwrite` (`accounts`): whoever replaces a user's roles has seen them, although
  the version was read by an earlier statement than the roles.
* `OnlyKnownDeadlocks`: requests on users and roles wait in a circle only if one of them
  deletes a user, two of them edit roles, or one changes the e-mail of the author of another.
  All three happen: a deletion locks the roles first and the row last, an update the other
  way round; two renamings may enter each other's names; two administrators who change each
  other's e-mail wait at their audit rows, and so does an administrator who edits a role
  that is just being assigned to that administrator along with a new e-mail. PostgreSQL
  aborts one.
* `FiguresExplained`: every part of a report shows the rows it should, except rows that were
  completed, cancelled or written while it ran, and for the dashboard days and branches that
  changed. The parts of one report agree with each other except for these rows.
* `LaterPartsHoldMore`: what is only ever added (payments, movements) is never in an earlier
  part and missing from a later one.
* `BroadcastIsSafe`: no send on a closed channel, no map written while ranged over.
* `InOrder`: a client gets each publisher's messages in order and at most once.
* `ShutdownLeavesNobody`: `Shutdown` returns only when its clients are gone.
* `BroadcastEnds`, `LostClientGoes`, `ShutdownEnds`: a client that does not read blocks
  nobody, a lost client's goroutines end, `Shutdown` returns.

TLC also finds no deadlock in the stock runs. In the others the system may really stop:
sales paid and final, clients gone and messages sent.

**Bounds.** `MaxInt` stands for the largest `int64`. It is 3, 2 or 1, so that sums
overflow within the model, and since quantities stay in `0..MaxInt` the state is finite
with no other limit on how long a behaviour runs. Two sessions make every pair of
operations overlap at every step; deadlocks with three parties need the third, which
`system` has. Two products and two branches are the least that make
lock orders disagree in either coordinate. Sessions are interchangeable, and the safety
runs use them as a symmetry set; `liveness` does not.

For records, two codes make an exchange, three authors let one delete or create between
the steps of two others, and `MaxVersion` 3 lets a record be edited twice, so that a view
can be outdated by another's edit and by one's own. No bound limits how long a behaviour
runs otherwise. For payments `MaxInt` is 7: a sum of an amount of 6 or 7 and one cent paid wraps below
zero, as in `int64`, and small amounts do not. One sale suffices for the payments that
meet on it; the violation run has a second one to show that nothing depends on its
being alone. In the hub a buffer of one or two messages overflows at once, where the
code's 16 would need as many sends; two publishers give `Broadcast` a second reader of the
lock, and two clients let one be closed while the other is visited. `MaxMessages` bounds
how much a publisher sends: with a buffer of one and two messages from each publisher, a
message is dropped, taken, or queued behind another's.

In `catalogue` two products, two barcodes and two SKUs make every exchange of keys, and the
third SKU lets two products ask for one key that is free. The circle of a deletion, a product
that enters the category and one that changes its SKU needs a third session, which this run
does not have; the theorem covers any number. In `accounts` there are roles for
the administrator, for one that is created, renamed and deleted, and for one created under
the name just given up, and a third e-mail to give to somebody else's author; every circle of two requests can form, and three would need a third
session, which these runs do not have. `MaxVersion` 3 lets a user be edited twice after its
creation. A reader of reports meets nobody but the tables, and readers do not meet each
other, so one session is enough; one row for each table, on two branches, tells the conditions of
a statement from their absence, as what a statement selects is decided row by row. Of the
three days two are in one month, so that the dashboard's condition on the month differs
from one on the day and from none.

**Fairness.** `EveryRequestEnds` assumes strong fairness of each session's `Progress`.
PostgreSQL queues waiters on a row lock, so a request that can get its lock again and
again does get it; weak fairness would let others overtake it for ever. No fairness is
put on the arrival of requests, on `Abort` or on products changing. A session is *not*
assumed to fail in order to end. That `EndRequest` is fair is net/http's guarantee that a
handler that returned has its context cancelled; without it (the run's seeded fault) one
refused confirmation blocks its sale for good.

The hub's liveness assumes weak fairness of each goroutine's next step, which is Go's
scheduler, and strong fairness of `Unregister`: `sync.RWMutex` holds new readers back once
a `Lock` waits, so a client's `Unregister` is not overtaken for ever by broadcasts.
`WriteMessage` on an unresponsive connection ends because of the write deadline
(`WriteFails`). Nobody has to connect, publish, lose a connection or start a shutdown.
`BeginShutdown` needs no fairness, since `ShutdownEnds` starts from the lock it took.

## What is proved

For any set of sessions, orders, products, branches and requests, and any `MaxInt`:

| `StockSystemProofs` | Statement |
|---|---|
| `TypeCorrect` | `Spec => []TypeOK`; in particular no committed or buffered quantity leaves `0..MaxInt`, although the services add first and the database checks afterwards |
| `LedgerAlwaysBalanced` | `Spec => []LedgerBalanced` |
| `NoUpdateIsLost` | `Spec => []NoLostUpdate` |
| `RowsLockedInOrder` | `Spec => []LocksGoUp` |
| `NoneDeadlocks` | `Spec => []NoDeadlock`, for any finite set of sessions |

from `IdsAssumption` (identifiers are numbers, sales are not purchases), `TablesAssumption`
(the tables start within their types), `RequestsAssumption` (a request decodes into its
Go struct) and, for `NoneDeadlocks` only, `SessionsAssumption` (finitely many sessions: with
infinitely many, each could wait for the next). TLC evaluates them in every run.

None of the first four is inductive alone, therefore they are proved together. `LedgerBalanced`
needs to know, at COMMIT, that what is published for a locked row is the old quantity plus
the movement (`NoLostUpdate`) and that a row that is not locked has no movement
(`BufferInv`). `NoLostUpdate` needs that only the holder of a row's lock publishes it.
`TypeOK` needs that a request in progress is one of those that may be there
(`RequestInv`), and that what is left to lock consists of rows of that request
(`TodoInv`). Their conjunction `IInv` is inductive, and TLC has checked it on the
instances above.

The system has some thirty actions of few shapes: a session starts, takes an order, leaks,
writes a row, prepares a transfer, moves stock, commits in one of three ways, or ends.
Lemma `StepShapes` shows that every step is one of these and keeps for each what its guard
established; each part of the invariant is then proved once per shape.

`NoneDeadlocks` follows from `LocksGoUp` in three steps. `WaitsUpwards`: who holds a row that
another waits for cannot be waiting for an order, and wants a row that comes after it; who
holds an order does not wait for another (`HolderInv`). `HighestRow`: among finitely many
waiting sessions one wants a row that no other wanted row comes after. So in a set of
sessions that all wait for each other, somebody waits for a row, and its holder would
have to want a still higher one than the highest.

| `OrderProofs` | Statement |
|---|---|
| `ItemsAgreeWithStatus` | `Spec => []ProgressMatchesStatus` |
| `StockMovedOnce` | `Spec => []MovedOnce` |
| `Implements` | `Spec => Refinement`: `StockSystem` implements `StockLedger` |

from the same assumptions. What an order has moved is decided when its row is locked and
happens much later, a row at a time, so the first two statements are not inductive without what lies
between. `InHand` says it, for a session that holds an order: the order's status still is
one that allowed the operation and determines the status about to be written (`Decided`);
the rows locked and those left to do are together the rows of what is planned
(`PlannedRows`); the rows locked carry the movements planned for them; and the items have
grown by what was delivered of them so far. At COMMIT nothing is left to do, and the
movements published are those of the whole plan (`CommitMoves`), the difference between
what the order had delivered and what its new status and items say (`CommitDelivers`). `ListInv` adds
that an empty list of items was refused before, without which a delivery of nothing would
become PARTIALLY_FULFILLED. `OInv` puts this together with `IInv`.

For `Implements`, `OInv` says all about orders that the refinement needs; `LInv`
adds what a transaction of the inventory service has locked and is about to move
(`StockInHand`). `InitLedger` maps the initial states; `StepRefines` maps every step: the
commit of an order to `Accept`, `Deliver`, `Complete` or `Cancel` (one lemma each), that of
an inventory request to `Adjust` or `Transfer`, that of a new order to `Create`, and
everything else to a stutter, as it leaves the committed tables alone.

| `SalePaymentsProofs` | Statement |
|---|---|
| `PaymentsTypeCorrect` | `Spec => []TypeOK`; what is paid stays below 2^64 cents |
| `OverpaymentBounded` | `Spec => []OverpaidByACentAtMost` |
| `PaymentsOnlyWhilePayable` | `Spec => PaidWhilePayable` |
| `SummaryOnlyAdvances` | `Spec => SummaryNeverRegresses` |

for any sessions, sales, totals and amounts under `PaymentsAssumption`. The invariant says
that whoever has a payment under way holds the sale's lock, and that its check, made
before COMMIT, is still true then: status and paid sum cannot have moved. Lemma `RankGrows`
says that the summary advances with what is paid, for as long as sums fit `int64`; the
invariant gives that they do.

| `VersionedRecordsProofs` | Statement |
|---|---|
| `RecordsTypeCorrect` | `Spec => []TypeOK` |
| `NothingUnseenIsOverwritten` | `Spec => []NoBlindOverwrite` |
| `ConflictsAreReal` | `Spec => []NoFalseConflict` |
| `DeletionIsForGood` | `Spec => DeletedStaysDeleted` |
| `RecordsNeverDeadlock` | `Spec => []NoDeadlock` |

for any sessions, records and codes, from `RecordsAssumption`. The invariant (`ViewOK`)
says that a view is current exactly if its version is the row's and the row is not
deleted: versions grow with every edit and deletion is for good, so an outdated view never
becomes current again; `SessionOK` adds that whoever has passed the UPDATE's condition
holds the row, so that the condition stays true until COMMIT.

For `RecordsNeverDeadlock` there is no order of locks to argue from: an update holds its row
and waits for a code, which is in whatever row has it. What rules a circle out is time.
`NoCircle` says of every set of updates whose condition holds that one of them wants no code
of another's row, and it is inductive: an update enters such a set by `CheckCode`, which
found its code on no other row, so that every set with it has it as that one; and no
row changes its code while an update matches it. The statement quantifies over all sets of
sessions and needs no bound on their number.

| `CatalogueProofs` | Statement |
|---|---|
| `CatalogueTypeCorrect` | `Spec => []TypeOK` |
| `ReferencesAlwaysHold` | `Spec => []ReferencesHold` |
| `OnlyRivalsEverDeadlock` | `Spec => []OnlyRivalsDeadlock` |

for any sessions, products, categories and keys, from `CatalogueAssumption`,
by which a product to be written has a SKU (`validateProduct`). The invariant
says what the foreign key's locks are for: a category that a transaction shares exists, and
nobody has it locked; whoever has it locked and has found no reference will find none until
COMMIT, since a product can enter the category only by sharing it.

`OnlyRivalsEverDeadlock` repeats the argument of `RecordsNeverDeadlock` with two keys and two
checks: before `CheckBarcode` an update wants a SKU only, afterwards both. Who shares a category does not
wait, who deletes one waits at most for an update of a product in it, and who holds a
product's row waits for a key or to enter a category if for anything (`HoldersOK`). If nobody
in a circle waits to enter a category, it has two that ask for one key, or its updates are
a set that `NoCircle` excludes. If somebody does, it is for a deletion, which waits in its
turn for a change of a SKU in the category: the `Crossing`.

| `AccountsProofs` | Statement |
|---|---|
| `AccountsTypeCorrect` | `Spec => []TypeOK` |
| `HeldRolesExist` | `Spec => []HoldersHaveRole` |
| `EditorsHaveSeen` | `Spec => []NoBlindOverwrite` |
| `DeletionTakesNothing` | `Spec => NoAssignmentLost` |
| `ListsAreNotMixed` | `Spec => EditsAreWhole` |
| `OnlyTheseDeadlock` | `Spec => []OnlyKnownDeadlocks` |

for any sessions, roles, users, names and permissions, from `AccountsAssumption` and
`AsksAssumption`. The invariant has four parts for each session. `RoleOK`: a request that
edits or deletes a role has its row, nobody shares it, and once the count was zero nobody
holds the role. `ShareOK`: a role that was given is shared until COMMIT, and therefore there;
so an assignment that is about to be committed is never of a role that is about to go.
`UserOK`: a request that edits a user has its row at the version its author presented, and
what it drops is all the user has. `ViewOK`: an author who has the version of a user's row
has seen its roles, since roles change only together with the version; that CommitRemoval is
no exception is `RoleOK` again. Lemma `QuietStep` covers all steps that leave the tables
alone, `CommitStep` the four that change them.

`OnlyTheseDeadlock` needs to know who holds which of the three kinds of lock at which
statement (`KeepersOK`), that an e-mail past the unique index is nobody else's
(`EnteredAlone`, `EmailsUnique`), and `NoCircle` again, for e-mails. Without a deletion and
with one editor of roles at most, who holds a role's row or the rows of `user_roles` does not
wait, unless at its audit row, and who holds a user's row waits for an e-mail or at its audit
row if for anything. Who waits at an audit row waits for a deletion or for a change of its
author's e-mail, which is the third exception; without it the updates of a circle are a
set that `NoCircle` excludes.

| `ReportsProofs` | Statement |
|---|---|
| `ReportsTypeCorrect` | `Spec => []TypeOK` |
| `FiguresAreExplained` | `Spec => []FiguresExplained` |
| `LaterPartsNeverMiss` | `Spec => []LaterPartsHoldMore` |

for any readers, users, rows, branches and days, from `ReportsAssumption` and
`AsksAssumption`. Lemma `PartsFit` goes through the six reports and shows that each statement
repeats the conditions that each of its parts is read with (`Fits`), and where the parts stand
that are compared with one another (`Stands`); it is the part of the proof that
knows the SQL. `SelectedIsMeant` follows: a statement that runs now selects what its parts
mean now, but for the items of days that have no summary, and these days belong to rows that
have changed. `StoreStep` then needs of every other step that it notes in `changed` the rows
whose place in a report it moves. `LaterPartsHoldMore` is not inductive without `FoundStays`:
a payment or a movement once found is still meant, so that a later statement finds it too.
`Shape` says of `TypeOK` that a report has run its first *k* statements, by which a step of
`RunStatement` is the step from *k* to *k* + 1.

| `RealtimeHubProofs` | Statement |
|---|---|
| `HubTypeCorrect` | `Spec => []TypeOK` |
| `BroadcastNeverPanics` | `Spec => []BroadcastIsSafe` |
| `ShutdownClosesAll` | `Spec => []ShutdownLeavesNobody` |
| `MessagesInOrder` | `Spec => []InOrder` |

for any clients and publishers, any capacity and number of messages. `BroadcastIsSafe`
needs that a client's map entry and channel agree with how far its `Close` has come;
`ShutdownLeavesNobody` needs that a client `Shutdown` is done with, or which was never in
its way, has gone through the whole of `Close`. `InOrder` speaks of what a client got;
`OrderInv` says it of what it got, is given now and has in its buffer, one after the other,
and adds that no message on its way is ahead of its publisher, and that a publisher that has
yet to visit a client has not sent it the current message: so what `Broadcast` appends is
later than all that is there.

Only model-checked: the liveness properties (`EveryRequestEnds`, `BroadcastEnds`,
`LostClientGoes`, `ShutdownEnds`), since liveness and ENABLED are beyond this prover. Every
invariant and every action property of the runs has a theorem. `NeverOverpaid` is false.

## Not modelled, and why

* Permissions and branch access: a refusal is `Abort`. In `Accounts` the author of a request
  must hold some role, and which permissions that gives is left open.
* Totals, prices, notes, reference fields, audit metadata: no stock property reads them.
* Sale and purchase numbers: a new order gets an unused identifier. The search for a free
  number, and the retry of an INSERT in an aborted transaction, are left out.
* Lists and reads of single records other than those an update starts from: they change
  nothing and are one statement each.
* In `Accounts`: the branches of a user, which are replaced after the roles by statements of
  the same kind; names, passwords and whether a user is active, which no other request
  reads. That a user who holds SUPER_ADMIN is protected from deletion is checked once,
  before the transaction, and the model checks it there (`CheckProtected`); deleting
  a user of another branch is a refusal like `Abort`. A change of a branch's code is one more
  key a user's transaction may wait for (`user_branches`), outside `OnlyKnownDeadlocks`.
* In `Catalogue`: creating and editing a category, a name under a unique index; their waits
  are outside `OnlyRivalsDeadlock`. The share of a product that a category deletion keeps
  after it was refused only delays an UPDATE whose transaction holds nothing yet.
* The foreign keys of rows that a request only refers to: the author in the audit rows of the
  other services, and products, customers and users in orders, payments and stock rows.
  Their FOR KEY SHARE waits for an update of an e-mail, a SKU or a code. Such an update
  takes its row as its first statement and never waits for stock, orders or payments, so it
  closes no circle of theirs and only delays them. The deletion of a user does wait: the
  foreign keys of orders and movements refuse it if any of them is the user's, and it waits
  for an order that is locked by then. With a request of that very user on that order it
  may form a circle, which is outside the deadlock statements of the stock engine, of
  payments and of records; `OnlyKnownDeadlocks` leaves deletions out.
* In `Reports`: the filters on a product or a method of payment, further conditions of the
  kind that `over` lists.
* Authentication and refresh tokens; migrations, which run before the server takes requests:
  components of their own, left for later.
* HTTP routing, JSON, JWT, password hashing, the frontend: no state of their own.

## Plan

Done: the stock engine with its refinement and proofs, payments, versioned records, the
catalogue, users and roles, reports, the realtime hub.

Open, in order of importance:

1. `RefreshTokens`: rotation and families with two requests that present one token.
   `Migrations`: two instances starting at once, a crash between two files. Order numbers
   and their retries.
2. The safety part of `EveryRequestEnds`, as a theorem: in every state with a request in
   progress somebody can take a step, which follows from `NoneDeadlocks` and an argument
   about guards instead of ENABLED.
