# A verification of unitflow-backend-core

unitflow-backend-core is the backend of a multi-tenant application for factories
and their sales offices: an Express server over PostgreSQL (Prisma), a background
queue for message campaigns, socket servers for chat and broadcast, and a
connector to the Tally accounting program. This directory holds a formal model of
the parts of it that carry state which several requests change together, in TLA+;
TLC configurations that check the model on small instances; and proofs of its main
safety properties for instances of every size, checked by TLAPS.

Nothing in this program runs in one place. Each HTTP request is a handler that
awaits a dozen queries, often reads what it decides on *before* it opens its
transaction, and runs beside other handlers, in one process and in several. The
database runs at its default isolation level, READ COMMITTED: a transaction sees
what others have committed between two of its statements, an `UPDATE` waits for
the row lock and then looks at the row again, a `deleteMany` that waited does not
see rows inserted meanwhile. Most of what follows is about what the handlers
promise under these rules, and where the promise ends.

## Inventory of the system

| part | state | operations |
|---|---|---|
| Stock ledger (`inventoryLedgerService`) | `StockBalance`, `InventoryMovement` | seed a balance, apply a delta with or without a floor, create and update a movement |
| Inventory movements (`inventoryMovementController`) | movements of source MANUAL, OPENING | in, out, delete, adjustment, opening stock (also by CSV), listings |
| Production (`productionController`) | `ProductionLog` and its IN movement | create (many at once), update, delete, listings |
| Notes and month clean-up (`accountingController`) | `AccountingVoucher`, its lines and RETURN movements | vouchers, debit and credit notes, deletion of a client's month, ledgers |
| Permanent deletion (`hardDeleteService`) | everything that hangs on an order, purchase or payment | delete an order, a purchase, a payment |
| Orders (`orderController`) | `Order`, items, `OrderFulfillment`, ORDER and RETURN movements | create, CSV import, edit, change status (and dispatch), preview, cancel, delete |
| Invoices and payments (`invoiceController`, `paymentController`, `orderInvoiceService`) | `Invoice`, `Payment`, `PaymentAllocation` | allocate by hand and automatically, recompute an invoice's status, reverse a payment |
| Purchases and advances (`purchaseController`, `clientAdvanceService`) | `Purchase`, `PurchasePayment`, `PurchaseAdvance` | record, apply automatically, release, reverse |
| Message dispatch (`messageDispatchQueue`, `messageDispatchService`, `messageController`) | `MessageDispatchJob`, `MessageLog`, `MessageCampaign` | queue, poll, claim, send, finish, delete a campaign |
| Sessions (`authController`, `authSessionService`, `passwordResetService`, `authMiddleware`) | `UserSession`, `PasswordResetOtp` | log in, check and extend a session, revoke, reset a password by code |
| Roles and administration (`permissionMiddleware`, `rbacSeederService`, `adminController`, `internalPlatformController`) | `User`, `Role`, maps of roles and permissions, `CompanyPlatformConfig`, the role cache of the process | create and disable users, assign and revoke, seats, provision and suspend a company |
| Chat and broadcast (`chatController`, `broadcastController`, `sockets/`) | conversations, messages, unread marks, broadcasts, sockets and rooms | open, list, send, read, delete, announce, connect, join |
| Tally (`tally*Service`, `tally-agent.mjs`) | `TallyIntegration`, links of ledgers and vouchers, conflicts; the books of Tally | plan, push, report, snapshot, reconcile, resolve, rotate the token |
| Master data, reports, documents, numbering | single rows | create, read, update, delete |

How they interact:

- Every part that moves goods calls `createMovementTx` or `applyBalanceDeltaTx`
  of the stock ledger inside its own transaction. They share the rows of
  `StockBalance` and nothing else; the movements of each part carry a
  `source_type` and the id of the record they belong to.
- An order's dispatch creates fulfillments and OUT movements; a cancellation
  finds those again by the fulfillments it has read and posts RETURN movements; a
  deletion finds both and reverses them.
- Orders create and void invoices; payments are allocated to invoices; notes
  change what is due on an invoice or purchase. No trigger ties these together:
  each handler recomputes what it thinks it has changed.
- A campaign is sent either inside the request or by a job. The only thing two
  server processes share about jobs is the table.
- A request reaches a handler through the session check and the role cache; what
  an administrator or the platform changes meanwhile is seen or not. A socket is
  checked when it connects, and its handlers do what the requests do.
- A chat handler writes first and tells the connected clients afterwards.
- The Tally connector and the users of a company post snapshots to the same
  reconciliation, which reads, compares, and writes in a transaction later.

What is hard, and what correctness means, per part:

- *Stock ledger*: the balance is a maintained sum beside the rows it sums. It
  must equal their sum whatever order transactions commit in, including the
  moment a missing balance is created from the rows; no issue may overdraw it.
- *Production, notes, month clean-up, permanent deletion*: each keeps a record
  and its movement in step. The reads are outside the transaction, and three of
  them take back an amount they read earlier.
- *Orders*: dispatched in full or not at all, exactly once; cancelled means
  everything came back; deleted means nothing stays behind; the items of a
  dispatched order are those that were dispatched.
- *Message dispatch*: a job runs once however many processes poll; a recipient
  gets no second message from it after a lost answer or crash; its counters are
  true; queued jobs do not starve.
- *Invoices and payments*: no payment allocated beyond its amount; the stored
  status agrees with the allocations; the client's ledger and the summary agree;
  no money lies idle beside an open invoice.
- *Purchases and advances*: what remains of an advance is its amount less what
  recorded payments have taken, never negative; what is stored as paid is paid,
  and within the total.
- *Sessions, roles, administration*: a session that has ended stays ended; a
  replaced password leaves no session open; who is let in has a right to it, up to
  the time the cache keeps a role; a code takes a limited number of guesses; a
  company has no more active users than seats.
- *Chat*: what a connected client shows is what the conversation holds.
- *Tally*: a voucher marked synced is in Tally; its postings balance; an issue has
  one open conflict; conflicts are closed as applied by a run that applied something.

`PROJECT.json` lists every component with its files and every hazard at its line.

## The modules

| module | models | state |
|---|---|---|
| `StockLedger` | `inventoryLedgerService` | `balance`, `ledger` |
| `Inventory` | movements, production, notes, month clean-up, deletion of a note | `log`, `made`, `voucher`, `note`, `req` |
| `OrderDispatch` | orders, dispatch, cancellation, deletion | `order`, `req`, `other` |
| `Receivables` | invoices, payments, allocations, reports on them | `books`, `job` |
| `PurchaseAdvances` | purchases, their payments, advances | `books`, `job` |
| `DispatchQueue` | campaigns, the job queue and its workers, direct dispatches | `job`, `tally`, `log`, `delivered`, `worker`, `campaign`, `recipients` |
| `JobBoard` | abstract: what the queue promises about a job | `state`, `owner` |
| `Accounts` | users, seats, sessions, codes, roles, the role cache | `user`, `company`, `session`, `code`, `access`, `cache`, `job`, `now` |
| `Workspace` | chat and broadcast, on top of `Accounts` | `chat`, `notice`, `socket`, `joined`, `screen` |
| `Tally` | the exchange with Tally and the connector | `integration`, `client`, `voucher`, links, `conflict`, `books`, `job` |
| `Inventory_proofs`, `OrderDispatch_proofs`, `DispatchQueue_proofs`, `Workspace_proofs` (with those on `Accounts`), `Tally_proofs`, `Receivables_proofs`, `PurchaseAdvances_proofs` | theorems | |
| `SumTheorems` | theorems about sums over finite sets, which the others cite | |
| `MCInventory`, `MCOrderDispatch`, `MCReceivables`, `MCPurchaseAdvances`, `MCDispatchQueue`, `MCWorkspace`, `MCTally` | instances for TLC: symmetry, initial data | |

`Inventory` and `OrderDispatch` both EXTEND `StockLedger`, as the controllers all
require the service. They are separate because an operation of one sees of the
other no more than stock that comes and goes; `OtherMovement` in `OrderDispatch`
is that view of `Inventory`. `Workspace` EXTENDS `Accounts`, so that one request is
followed from its arrival to the last push: its handlers are guarded by what
`Accounts` has admitted, and roles, sessions and seats change beneath them.

Several modules carry history variables. They are no rows of the database and no
guard reads them; they record that something which may lose a property has happened
(two requests on one row, a manual edit), so that the property can say *only then*.
In the order of the modules: `plain` and `corrected` (Inventory); `shaky`, `crossed`
and `drift` (Receivables); `shaky`, `crossed` and `noted` (PurchaseAdvances);
`late` and `delivered` (DispatchQueue); `lost`, `kept` and `excused` (Accounts);
`stale` (Workspace); `overlapped` (Tally).

### StockLedger

`balance[c]` is the StockBalance row of a cell (a factory and a product), `NoRow`
before anything touched it. `ledger[c]` is the sum of all InventoryMovement rows
of the cell, which the database does not store but would compute at any moment
(`seedBalanceFromMovementsTx` does). A transaction's effect on stock is two
functions from cells to amounts, `PostTo(db, dl)`: what its updates add to the
balances and what its row inserts, updates and deletes add to the sums. For most
of the code the two are the same (`Post`); they differ exactly where the code
reverses an amount it read earlier. `Available` is the conditional
`UPDATE ... WHERE quantity >= amount`; `RowsExist` is the branch without a floor,
which fails when there is no row.

Quantities are decimals in the program and integers here: no property depends on
fractions, and sums of the database's decimals are exact. All totals are capped by
`Bound`, in the guards of `PostTo`; amounts that would pass it are not taken.

### Inventory

A handler that reads, then writes on the strength of what it read, is two actions:
`Start...` keeps the row it read in `req[r]`, `Commit...` applies the writes of its
transaction to the tables as they are by then. Handlers whose only decision is the
conditional update itself (`CreateIn`, `CreateOut`, `CreateDeleteMovements`,
`CreateAdjustment`, `CreateOpeningStock`, `CreateProduction`, `CreateNote`) are one.
`Fail(r)` is every way a transaction can roll back, and the death of the process.
Writing a transaction as one step is justified by the row locks: a commit's first
update of a row is decided on the row it finds then, and no other transaction can
come between it and the commit on that row; where a statement of the transaction
reads rows that it will write later (`hardDeleteService`), the read is the Start
step although it is inside the transaction.

- `StartUpdateProduction`/`CommitUpdateProduction`: the log is read, fields the
  request leaves out are filled in from it (`Amended`); in the transaction the log
  is amended column by column and `updateMovementTx` (`UpdateMovement`) rewrites the
  movement found there, taking the old amount back without a floor.
- `StartDeleteProduction`/`CommitDeleteProduction`: the movement is read, and its
  amount is taken back from the balance with a floor later, by which time the row
  that is deleted may hold another amount.
- `CreateNote`, `StartMonthDelete`/`CommitMonthDelete`,
  `StartEraseVoucher`/`CommitEraseVoucher`: a note with stock, and the two ways it
  goes. The first deletes its movement by id, which fails if the row is gone, the
  second with `deleteMany`, which does not.
- `LegacyLog` are production logs without a movement, which `updateProduction`
  provides for (581-603) and `deleteProduction` refuses (649).

A note has one stock line and is alone in its client's month: the clean-up treats
the notes of a month one by one and all in one transaction, so more of them would
only add cases where all roll back.

`plain` are the rows that are never edited, so that `RowsAddUp` can check `ledger`;
`corrected` the cells that went through the branch without a floor.

### OrderDispatch

Status values are grouped as far as the code distinguishes them. `order[o]` holds
the item quantities per product, the OUT rows per cell and the RETURN rows per
cell. Every handler but `createOrder` acts on an order it has read before, kept in
`req[r].was`, and the write itself only requires that the row still exists.

- `StartStatus`, then `CommitDispatch` (one of the trigger statuses, automatic
  deduction on, nothing committed for the order as read: the split over factories
  must match the quantities read, all cells must have the stock) or
  `CommitStatusOnly`.
- `StartCancel`/`CommitCancel`; `StartEdit`/`DeleteItems`/`CommitEdit` (the
  `deleteMany` is a step of its own because two edits can both run it before either
  inserts; the second then does not see the first one's rows: `missed`);
  `StartErase`/`FindMovements`/`CommitErase`, one transaction whose three reads see
  three moments.
- `AutoDeduct` is the set of values the company's feature flag may take during a
  run; with both, each dispatch may find it on or off.

### Receivables and PurchaseAdvances

`books` are the tables of one client. A transaction that allocates reads what is
free and what is due, works out amounts, and then increments rows that may have
changed since. So a request is two steps: `Submit` reads the books and works out
every row the handler will write (`before`, `after`), `Commit` adds the difference
to the books as they are by then: amounts are incremented, flags and labels set,
rows created. `Commit(r, late)` also says when the handler read what it derives a
status from: after the other's commit or before it; `late` is forced when the two
meet at the lock of an allocation row. `Broken` are the foreign keys that fail
because a row was deleted meanwhile, `Locked` the invoice or purchase that a handler
has written, and thereby locked, before it reads the rest. What a handler works out is plain
functions of the books: `Flow` and `AutoAllocate` (free payments, oldest first, to
open invoices, oldest first), `Release`, `Judge` (the status of an invoice),
`AutoApply`, `Back` and `Release` for advances. They are applied in the order of the
handler: a new payment is allocated as the request says, the invoices it names are
judged, free money is allocated over the books as they are then, and what that
touched is judged again (`Received`). `cancelOrder`, and the notes, write
without a decision on other rows and are one action.

Items, taxes and numbers are left out: an invoice is its total. Negative amounts in
`to`, and opening balances, are left out as well. Dates are the order of ids.

Three things to know when reading `Receivables`: an invoice that is void but active
still counts in the ledger, though not in the summary (`Ordinary` excludes it); a
payment for a cancelled order reopens its void invoice, which the automatic
allocation of the same request then fills like any other; `updateInvoice` changes a
total without recomputing the status or releasing what is too much.

### DispatchQueue and JobBoard

A campaign is recorded, its recipients are resolved (none, or all), and its count is
written (`Record`, `FinalizeCampaignCreation`): three separate writes, and a
request may die in between. It is then dispatched by jobs (`Enqueue`, polled by each
process's `Worker`) and by requests that run the loop themselves (`Direct`), which
share the log and the campaign but no lock. Each statement is its own transaction
here, so each is an action. `worker[w]` is the local state of one process's
`processNextJob` or of one direct dispatch; `isRunning` is its stage not being
`idle`. `Send(w, taken, answered)` is the provider: it takes the message or not, and
its answer arrives or is lost. `Abort` is every exception that ends a run; `Crash`
the death of the process. `delivered` counts messages per run and recipient.
`tally` are the counters in the job's row; `total_recipients`, which nothing reads
back, is left out. A campaign whose creation found nobody stays, can be dispatched,
and completes with zero. `CheckDelete` looks for jobs only: `deleteCampaign` does not
see a direct dispatch, and the campaign may go from under it.

`JobBoard` is what somebody who posts a job may rely on: taken once, by one worker
which has no other; ended by that worker only; never taken up again. `DispatchQueue`
implements it with `state <- job` and the owner of a job the worker that has claimed
it and not finished (`OwnerOf`).

### Accounts and Workspace

`Accounts` follows a request through the middlewares: `Arrive` and `FillCache` read
the user, the company and the roles, these through the cache; `FindSession` and
`Refresh` check the session and extend it, if it is still valid by then; `Permit` is
the decision of `permissionMiddleware`. `Login` reads and compares, `OpenSession` writes. A code is
asked for in two writes (`SupersedeCodes`, `IssueCode`) and guessed in a read and a
write (`GuessCode`, `WriteGuess`). Creating and enabling users counts seats first
(`CreateUser`, `EnableUser`) and writes later (`WriteUser`). The other operations of
the administrator are single transactions. `Configure`, `UpdateTenant` and
`ProvisionTenant` are the platform; `Restart` empties the cache and seeds the system
roles, which happens only at a start. Time is `now`, a small number that ticks;
session, cache, code and cool-down times are constants.

A user with no role left is STAFF, which lacks the chat. `provisionTenant` replaces
the owner's password without revoking sessions and activates the owner without
counting seats: `OldPasswordsExplained` and `SeatsExplained` name both. It does not
matter for them that `getOnlineUsers` is commented "not expired" and does not look at
`expires_at` (adminController.js:808-812); it is a listing.

`Workspace` adds what the handlers do. The same code serves requests and sockets
(`Posting`, `Reading`, `Resolving`, `Seeing`); a socket was authenticated when it
connected and goes on until it disconnects. `screen[u]` is what the client of `u` has
been told, under the contract that it lists a conversation, adds what is pushed and
takes away what is retracted; the client itself is outside this repository. A deletion
is announced to the room only, a message also to members outside it; `getMessages`
marks all unread messages read after it has listed them, those that arrived in between
included (`MarkListed`). Pages are not modelled.

### Tally

The connector runs one at a time: `TakePlan`, `Push` (with the subset Tally takes, and
perhaps the connector's death), `Report`, `Pull`, `Compare`, `Search`, `Record`. A user
may post a snapshot meanwhile, and the settings, the token, clients, vouchers and the
books of Tally may change. `Compare` reads UnitFlow again and lists issues,
`Search` looks for an open conflict of each, `Record` applies them or not by strategy.

Vouchers are kept as requests name them, with amounts in hundredths of the least unit
the database stores, and `Cents` is the rounding of a `Decimal(15, 2)` column.
`createInvoice`, `createPurchase` and `createVoucher` add up what is in the request and
leave it to each column to round: so goods (the subtotal), each charge, the total and
each line of an accounting voucher are rounded by themselves, in `Base`, `Charge`,
`Total` and `Postings`. `Accepts` is `createVoucher`'s check, on the amounts before they
are rounded. `Postings` is `mapVoucherRecord`: party, sales or purchase and the charges
of an invoice or a purchase, the halves of a generic tax included; the two sides of a
payment; one posting per line of an accounting voucher, or the fallback for a voucher
that has a single line, which `Accepts` lets pass with up to 0.0001.

Abstractions here: arithmetic is exact, that of JavaScript's numbers is not;
`interstate` also stands for a company that has `generic_gst_split` off, which takes the
same branch; the ledgers for freight, discount and other charges are one account;
subtotal and total are sums of line totals taken as they are, not of quantities and
prices; an amount in a snapshot is the total of the voucher that was booked.

Facts the model shows, which the properties are worded around: every run creates every
planned voucher again; a plan holds the `limit` records of each kind that were changed
longest ago, so the newest may never be sent; the connector's snapshots name no source
ids, so that their vouchers match nothing (`Matched`); when one ledger was applied, all
ledger conflicts of the run are closed as applied; a run may find a conflict open that
another one closes before it records, and then writes it again, so `AppliedForReason`
speaks of what the run found and not of what is new; a conflict whose cause has gone is
never closed.

## What the runs check

| run | instance | result |
|---|---|---|
| `production` | 1 factory, 2 products, 2 logs (one legacy), 2 requests, amounts 1-2, totals within 2 | about 400 000 states |
| `notes` | 1 factory, 2 products, 2 notes, 2 requests, the same amounts | about 166 000 states |
| `order_dispatch` | 2 factories, 1 product, 1 order, quantities up to 2, 2 requests, flag on and off | about 253 000 states |
| `receivables` | 2 invoices (1 of an order), 2 payments, amounts 0-2, 2 requests, 4 operations | about 397 000 states |
| `purchase_advances` | 2 purchases (1 linked), 2 advances, 2 payments per source, amounts 0-2, 2 requests, 4 operations | about 235 000 states |
| `dispatch_queue` | 2 jobs, 2 workers, 2 direct dispatches, at most 2 dispatches asked for, 3 recipients of which 2 are taken, 1 may have no address, 1 crash | about 653 000 states, with liveness |
| `workspace` | 3 users, 2 seats, 3 sessions, 2 codes, 2 roles, 2 permissions, 2 messages, 2 requests, 3 operations, 3 ticks | about 1 862 000 states |
| `tally` | 2 clients, 2 names, 5 vouchers of 4 kinds, plans of 1 voucher per kind, 3 operations beside the connector | about 7 017 000 states |
| `stock_is_derived` | as `production`, with 1 log and 1 note | violated |
| `cancel_returns_stock` | 1 factory, 1 product, 1 order, 2 requests | violated |
| `over_allocation` | 1 invoice (of an order), 2 payments, 1 request at a time, 5 operations | violated |
| `tally_receipts` | as `tally`, 2 operations | violated |

The properties of the passing runs say what is kept under every overlap, and for
what is not kept, exactly which overlap loses it:

- `StockDerived` (orders): the balance is always the sum of the movements, and a
  cell without a balance has none. `RowsAddUp` ties the auxiliary sum to the rows.
- `DriftOnlyFromStaleReversal` (production, notes): the two part only when
  `deleteProduction` reverses a movement that an update has amended since it was
  read, or a permanent deletion reverses one that the clean-up has removed.
- `ProductionPaired`, `NotePaired`: a record and its movement come and go together.
- `AgreementLostOnlyToStaleUpdate`: a log and its movement differ only after an
  update that filled the movement in from a log amended since.
- `OverdrawnOnlyIfCorrected`, `OverdrawnOnlyByExcessReturn`: stock goes below zero
  only through the branch without a floor; for orders, only when an order is deleted
  that had returned more than it took.
- `SoundnessLostOnlyToStaleCommit`: double dispatch, double or missing return, edits
  of dispatched items, movements of deleted orders: each needs a commit on an order
  somebody has changed since it was read. `CancelledUnlessStaleCommit`: the same
  for coming back from CANCELLED.
- `OverAllocationExplained`: a payment is allocated beyond its amount only if a
  released allocation of it was applied again, or two requests spent it at once.
- `StatusTellsPaid`: the stored status is that of the allocations, unless a note, a
  manual edit or an overlap came after the last recompute.
- `LedgerAgreesWithSummary`: two computations of what a client owes, one from
  documents and one from allocations, agree on ordinary invoices; so no money hangs on
  a deleted invoice or leaves with it.
- `MoneyIsPutToUse`: a request that allocates and is not overtaken leaves no free
  payment beside an open invoice, one that it has itself reopened included, and serves
  invoices in their order.
- `RemainderAgrees`, `SnapshotAgrees`, `PaidWithinNetTotal`: what is stored about an
  advance and a purchase is what the payment rows say, without overlaps on the row.
  `EditKeepsMoney`: editing a purchase takes no money from a supplier's account, though
  it splits, reverses and re-creates payments.
- `AtMostOncePerRun`, `CompletedIsAccountedFor`, `AtMostOneLateMessage`,
  `ImplementsBoard`, `QueuedJobEnds`: a run messages a recipient at most once, after
  lost answers too; its counters are true when it completes; after the campaign is
  deleted a worker sends at most the message it was about to send; the queue
  implements the board. The last one says
  that every queued job ends or is deleted, unless the worker that ran it is lost; a
  lost worker's job stays RUNNING for good.
- `EndedStaysEnded`: `Refresh` extends a row it read as valid; its condition on
  the row keeps it from bringing back a session revoked meanwhile.
- `OldPasswordsExplained`, `SeatsExplained`: the only ways to a session opened with an
  old password, or to more users than seats, are a login or activation that overlapped
  the change and what the platform does.
- `AdmittedByRight`: a role that was taken away lets in for at most the time of the
  cache, across overlapping reads that fill it late. `GuessesBounded`: each request
  in flight can make one guess beyond the limit, no more.
- `ScreensAgree`: a client that has the conversation open shows what is in it, but for
  what is about to be pushed, and exceptions that `stale` names one by one.
- `SyncedIsThere`, `OneOpenPerIssue`, `AppliedForReason`: see above.
- `VouchersBalance`: what a plan posts for a voucher adds up to nothing, but for half a
  unit of rounding for each amount stored rounded (`Figures`): goods, total and charges,
  or the lines. `createVoucher` checks sums that are not rounded yet: a debit of 0.03
  against two credits of 0.015 passes, is stored as 0.03 against 0.02 and 0.02, and is
  sent to Tally like that. Invoices and purchases of charges alone are excepted: their total is
  posted as the base beside the charges, and they do not balance at all.

What these leave to the next reader. A balance is seeded and posted to in one step, so
that no run interleaves two seedings. The recipients beyond the maximum of a run are
never sent to, and a second dispatch sends to all again: `CompletedIsAccountedFor` and
`AtMostOncePerRun` speak of one run and its own recipients, and flag neither. Double
dispatch and movements left behind by a deletion are the matter of
`SoundnessLostOnlyToStaleCommit`; balance and movements agree in both, so `StockDerived`
and `RowsAddUp` do not see them. `purchase_advances` has one purchase with a client and
one without; two that draw on one advance are the matter of the theorem alone
(`RemainderStays`).

The four violated properties are sentences of the repository that the code does not
keep. `StockIsDerived` (schema.prisma:731, "append-only movements; stock is
derived"): a production log of 1 is read for deletion, updated to 2, and deleted
with 1 taken back; the balance is 1 and there is no movement. `CancelReturnsStock`
(orderController.js:2169, a cancellation "reverses its inventory OUT movements by
creating RETURN (IN) movements"): an order is read for cancellation, dispatched,
and cancelled; the goods are gone, the order is CANCELLED and nothing came back.
`AllocationsWithinPayment` (paymentController.js:201, "Sum of allocations cannot exceed
payment amount"): a payment is allocated to an invoice, released when its order is
edited, and allocated again; the released row kept its amount, the upsert
(orderInvoiceService.js:147) increments it and sets it active, and the old amount counts
once more. No two requests overlap in that run. `ReceiptsDebitCash`
(tally-agent/README.md:20, "UnitFlow Cash/Bank debit, party ledger credit"):
`mapVoucherRecord` (tallyMappingRules.js:215) gives the two the opposite signs.

Why the bounds are enough: every interaction found in the code is between two
requests (a Start before and a Commit after somebody else's commit), on one record,
over at most two cells; two requests, two products or factories and amounts that
can differ (1 and 2) make each of them happen, including amounts that do not fit a
balance. `MaxOps` caps the operations begun in the larger modules: four are enough to
create an invoice and a payment and have two requests meet on them, and the initial
states of `workspace` and `tally` (in their MC modules: a company at work, with a
session, a code, a conversation; clients, vouchers and a link) put the interesting
operations within three. Times of 1 and 2 ticks let every deadline pass before, between
and after two steps of a request. Symmetry is used for requests, and for products or
factories, none of which any action or property names. Job ids are ordered, and `dispatch_queue`
checks liveness, so it uses none. `CHECK_DEADLOCK FALSE` there and wherever `MaxOps` or
`MaxTime` caps what happens: when the cap is reached nothing is left to do.

Fairness: only `DispatchQueue` assumes any, weak fairness of each worker's steps (not
of direct dispatches, which nothing retries).
`setInterval` polls as long as the process runs, and every await of a run returns or
throws. For e-mail the socket's timeout sees to that (`smtpService`); the WhatsApp
request is made without a timeout (`doubleTickWhatsAppService.js:44`), so for such
campaigns `QueuedJobEnds` also assumes that the provider's connections end: one that
stays open keeps `isRunning` set, and that process polls no more. Queueing a job, deleting a
campaign and crashing are not assumed to happen. At most `MaxCrashes` crashes.

## What is proved

The theorems hold for any sets of factories, products, records, jobs, processes,
users, invoices, payments, purchases and requests, any bounds, and a history of any length. Assumed of the
constants, and evaluated by TLC on every run: `NoRowIsNoNumber`, `BoundIsNat`
(StockLedger); `QtyIsPositive`, `LegacyIsLog`, `TablesAreFinite`, `NullsAreNoRows`
(Inventory); `OrdersAreFinite`, `MaxQtyIsPositive`, `AutoDeductIsFlags`,
`NoRowIsNoSnapshot` (OrderDispatch); `JobsAreNumbered`, `SizesAreNat`,
`NoJobIsNoJob`, `RecipientsAreNumbered`, `DirectIsNoJob` (DispatchQueue);
`AccountSets`, `AccountBounds` (Accounts); `ChatSets` (Workspace); `TallySets`, `TallyFinite` (Tally);
`BillsAreNumbered`, `ReceiptsAreNumbered`, `AmountsAreNat`, `NoBillIsNoBill`,
`TablesAreFinite`, `MonthIsOfTables` (Receivables); `IdsAreNumbered`, `SizesAreNat`,
`TablesAreFinite`, `MonthIsOfTables`, `NoneIsNone` (PurchaseAdvances). They say that ids of one kind are not ids of another, that the
values standing for "nothing" are none of the others, that amounts and limits are
numbers, and that tables and the requests in flight are finite where something is
summed or counted over them.

Every module proves one inductive invariant `IInv` (`Init => IInv`,
`IInv /\ [Next]_vars => IInv'`, one lemma per action) and derives its theorems from it.
`Workspace` and `Tally` start in any state their `Init` admits; the runs start in one
state of these (`MCSpec`), so the theorems cover more than the runs do.

`Inventory_proofs`: `TypeInvariant`; `ProductionStaysPaired`, `NotesStayPaired`,
`OverdrawnIsCorrected`, `RowsStayAddedUp`; the action properties `DriftIsStale` and
`DisagreementIsStale`. `IInv` is `TypeOK`, the properties, and `RowsHaveBalance`: a
cell with a movement row that can be edited has a balance row. This is what makes the
floor argument inductive: an issue seeds a missing balance from the sum of the
movements, and that sum must not be negative. The arguments about stock run through
one lemma: every step of `Next` is a `StockStep`, that is, posts some amounts, seeds a
row, or leaves stock alone. What posting and seeding preserve is proved once.

`OrderDispatch_proofs`: `TypeInvariant`; `StockStaysDerived`, inductive by itself
because every order operation posts the same amounts on both sides; `SoundWhenFresh`,
which also needs that what a request has read was a state the order could be read in;
`CancelledStays`; `OrdersNeverOverdraw`; `RowsStayAddedUp`. `IInv` adds to the types
`Knowledge`, what the snapshot of each kind of request says about its order, and
`NothingOwed`, that a new order has no movements; `RequestsKnow` proves it.

`DispatchQueue_proofs`: `TypeInvariant`, `AtMostOnce`, `CompletedAccounted`,
`OneLateMessage`. `IInv` says of each process how far its run has come (`Reached`: what
follows the current recipient is untouched, only what is being sent is logged QUEUED;
`CountsAgree`: the counters are those of the log), and that no two processes work on
one run (`Exclusive`), which follows from the conditional update that claims a job.
`QueueImplementsBoard` is the refinement: every step of the queue is a step of
`JobBoard` or none, under the mapping of the module.

`Workspace_proofs`: on `Accounts`, `SessionsStayEnded`, `OldPasswords`, `Admitted`,
`Seated`, `Guesses`; on the chat, `Screens`. The first five need what each
request in flight has read: the invariant relates the time in `job[r].at` to the moment
a role was last lost, counts a wrong guess that is yet to be written with those that
are (`GuessesInFlight`), and keeps `until` of a cache entry within its life of `now`.
`Screens` says in addition that a list about to be shown has what there is, but for
what its client was told meanwhile or is about to be.

`Tally_proofs`: `SyncedExists` (what the connector is about to report as synced is in
Tally), `PlansBalanced` (for each branch of the mapping, `GoodsBalance`, `LinesBalance`
and `TwoBalance`; `SumNear` bounds what rounding does to a sum, `ChargesPost` adds the
charges up by account and by charge), `OpenOnce` (for an issue that a run takes for new there is no open conflict, or the two
overlapped) and the action property `ClosedForReason`. `RunsInv` says that a key tells
whom an issue and a conflict are about, that what a run found is still there, closed
perhaps, and that its ledger issues are finitely many, so that they can be applied one
by one (`SnapshotTold`). `Taking`, which applies them, is a recursive function on the
subsets of the issues (`TakesExists`); by induction over these, the client of one of the
issues applied has what that issue says, although later ones may overwrite earlier ones
(`TakingIsGood`).

`PurchaseAdvances_proofs`: `TypeInvariant`, `RemainderStays`, `SnapshotStays`,
`PaidStaysWithin`, and the action property `EditKeeps`. `IInv` states the three claims
(`Claims`) of the books, of what each request in flight has read and of what it will
leave, each for the rows that no two requests worked on at once. `Plan` says which rows
a request may write and that it says so, `InTouch` and `Apart` how plans of several
requests stand to the books and to each other: two requests never create the same row,
and nobody writes the purchase that an edit has locked. A commit then leaves each row
as it is by now, as it was planned, or changed by both; in the last case the row is
excused. That a handler's plan keeps the claims is proved handler by handler
(`LeadsPurchase`, `LeadsAdvance`, `LeadsRow`): `FlowIs`, `FlowFromBound` and
`FlowIntoBound` show that what is applied never exceeds an advance or a purchase,
because what a pair gets is the overlap of two intervals; `BackIs`, `AllBack` and
`BackAtMostExcess` that a release gives back exactly the excess, newest first.

`Receivables_proofs`: `TypeInvariant`, `PaymentsAreNotOverspent`,
`StatusFollowsPayments`, `LedgerIsSummary`, and the action property
`AllocationUsesMoney`. The argument is that of
`PurchaseAdvances_proofs`, with other claims. `RowsOK` says that no allocation is
negative and that none outlives its payment or its invoice. `Claims` has three parts,
each for the rows without an excuse: `SpendOK`, that a payment does not hold more than
it is worth, counted whether the payment is reversed or not, because a request that read
it as recorded may still add to it; `StatusOK`, that the status of an invoice is the
verdict on its payments; `IdleOK`, that no recorded money lies on an invoice that is not
active. `Fulfils` lists what a plan may do to a row (`SharePlan`, `BillPlan`,
`ReceiptPlan`) and that it keeps each claim; it is proved for the plan of every handler
(`AutoAllocateLeads`, `ReleaseLeads`, `PaymentWrittenLeads`, ...), `SubmitStep` and
`CommitStep` once for all of them. `FlowFromBound` bounds what a payment gives by what
was free of it; `ReleasedIsPaid` shows that an invoice from which anything is released is
left exactly paid, so that the allocation that follows gives nothing back to it and the
row just released does not come back. `LedgerIsSummary` follows from `IdleOK`: what is
paid, summed by invoice, is what is allocated, summed by payment (`PaidIsAllocated`).

`AllocationUsesMoney` is about a plan first: every plan of a request that allocates is
`Poured` (`AutoAllocatePours`), and a commit that nobody overtook leaves the books of
the plan (`CommittedAlone`). `FlowFromIs` and `FlowIntoIs` say exactly what is poured
from a payment and into an invoice. So a payment with money left over (`LeftOver`) says
that less was due than free, and an invoice still open (`StillOpen`) that what was free
did not reach its end: never both. `Reached` says that money which reaches an invoice
has filled those before it.

`SumTheorems` are lemmas about sums of a function over a finite set: splitting, changing
one term, changing all (`SumChange`), pouring an amount into dues laid end to end
(`SumOverlap`), in an order of theirs (`SumMonotone`), and summing a table by rows and
by columns (`SumSwap`). The induction each of them needs is done by the smallest
counterexample among the subsets of the set (`SetInduction`), since no prover here instantiates the
library's induction rules, whose parameter is an operator.

Only model-checked: `QueuedJobEnds`, a liveness property, and of course the four
counterexamples. Every other property of a run is the subject of a theorem.

## Plan

The access of users to factories, which several controllers filter by; opening
balances, once two places repeat them.

## Not modelled

- Items, taxes and prices of invoices and purchases; opening balances; vouchers that are
  not notes: single inserts which nothing else repeats. What `Tally` sends of them is
  modelled there. `updatePurchaseStatus`, which
  writes a label nothing reads.
- `importOrdersCsv` and `importOpeningStockCsv` as operations of their own: row by row
  they do what `createOrder` and `createOpeningStock` do. The first looks for its marker
  before the transaction, the second has none, so that a repeated import repeats rows.
- Tokens of the platform, which the platform validates; the access of users to
  factories, which each request reads anew; conversations of more than two, typing,
  counts; templates of campaigns.
- Of Tally: dates, stock items and ledgers that belong to no client (some of which are
  always reported as missing in UnitFlow); the options a single request may give for
  strategy, tolerance, limit and range of dates.
- Requests that only read, pagination, filters, PDF and CSV layout, activity logs.
  Access checks, which are decided in the request on what it has loaded.
- Client and product master data, factories, branding: single-row writes under unique
  constraints of the database.
- Message providers and the platform service: outside this repository, seen through
  what they answer. Message contents, sender selection, rate limits (a delay).
- Order, invoice and voucher numbers: one upsert-increment each.
- Prisma's transaction timeouts: a rollback, `Fail`.
