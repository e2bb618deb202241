# Verification of contabilidad-pueblo

`src/api` is the accounting back end of a small company (NestJS, Prisma,
PostgreSQL); `src/frontend-contabilidad` is its web client. This directory holds
TLA+ specifications of both, the TLC configurations that check them on small
instances, and proofs checked by TLAPS.

1. [The system](#1-the-system)
2. [The modules and the code](#2-the-modules-and-the-code)
3. [What the runs check](#3-what-the-runs-check)
4. [What is proved](#4-what-is-proved)
5. [What the models found](#5-what-the-models-found)
6. [What is not modelled](#6-what-is-not-modelled)
7. [What comes next](#7-what-comes-next)

## 1. The system

All state is in PostgreSQL; the services keep nothing between requests. A request
is a handler that reads rows, decides, and writes in one or several
`prisma.$transaction` blocks under the default isolation, READ COMMITTED, with no
`SELECT ... FOR UPDATE` anywhere. What is hard is therefore always the same:

* what a handler read may be stale when it writes (most handlers read and check
  outside the transaction that writes);
* a handler that uses several transactions can stop between them, by a crash or
  by the refusal of a later step (documents are committed first and posted to the
  journal afterwards);
* only unique indexes, row locks taken by updates, and atomic increments stand in
  the way of two requests.

There are no queues, no timers and no retries in the back end; a client or a user
repeats what failed. No request waits for another except for a row lock, which
PostgreSQL gives or breaks. So there is nothing that must eventually happen by
the back end's own doing: its specifications assume no fairness and state no
liveness.

The web client is the other kind of program: handlers of one event loop, cut at
each `await`, whose answers come back in any order. There something must
eventually happen (a line that says it is loading stops saying so), and
`InvoiceForm` states it.

### Inventory of components

Paths are under `src/api/src/`, the front end's under
`src/frontend-contabilidad/`.

| component | state | operations | interacts with | hard behaviour | what makes it correct |
|---|---|---|---|---|---|
| Journal, numbering, periods (`accounting/accounting.service.ts`) | `JournalEntry`, `JournalLine`, `JournalSequence`, `AccountingPeriod` | create, draft, post, edit, reopen, delete, reverse, mass reverse; close, open, lock a period | called by every service that posts | stale reads of status, period and lines; idempotency by check and unique index; one transaction per reversal of a mass reversal | a document has one entry and one reversal; numbers are unique and without gaps; what is posted changes only by being reversed; nothing is posted into a closed period |
| Postings of the documents (same file, `post*`) | none of their own | a balanced set of lines for each kind of document | read the documents, write through the journal | the document is read outside the transaction; nothing retries | subsidiary ledgers and accounts agree |
| Reports, NIIF, exógena, year close (same file) | the closing entry | trial balance, ledgers, statements, `closeFiscalYear` | journal | which statuses a report counts | debits equal credits; a reversed entry and its mirror cancel out |
| Policies (`accounting/policies`) | none | who may post or close | journal | – | – |
| Fixed assets (`fixed-assets/`) | `FixedAsset`, movements, depreciation runs | create, improve, dispose, run a month (once or repeated), preview | journal | totals computed from stale rows; a repeated run undoes another | each month charged once; book value, accumulated depreciation and accounts agree; a disposed asset stays as it is |
| Inventory (`inventory/`) | `StockLayer`, `StockMove`, `StockConsumption` | adjust, transfer, produce | sales, purchases, journal | absolute writes of stale quantities; a failed consumption caught in its own transaction | layers, moves, consumptions and amounts agree; first expired, first out |
| Sales and receivables (`sales/`) | `SalesInvoice`, `AccountsReceivable`, `Installment` | create (with stock, with payments), update, void, post | treasury, inventory, journal | void decides on rows it has not locked; posting after the commit | balance, installments and receivable account agree; no void with payments |
| Purchases and payables (`purchases/`) | `PurchaseInvoice`, `AccountsPayable` | create (with stock), update, void | treasury, inventory, journal | check of the layers, then their deletion | the mirror image of sales |
| Treasury (`treasury/treasury.service.ts`) | receipts, payments, allocations, transfers | create each | receivables, payables, point of sale, journal | allocations of two receipts to one invoice | money goes to the oldest installment; nothing is counted twice |
| Bank statements and matching (`accounting/reconciliation/`) | statement lines, `reconciled` marks | import, match, confirm, undo | journal lines | several statement lines matched to one journal line | a mark stands for one statement line |
| Point of sale (`pos/`) | `CashSession`, `CashMovement` | open, move, close | treasury | check then create; two writes without a transaction | one open session; expected close is the sum of the movements |
| Payroll (`payroll/`) | `PayrollRun`, its entries | recognise, pay, contribute, advance | journal, employees | entry and run written apart | one recognition per month; a payment finds its recognition |
| Employees (`treasury/hr/`) | profiles, contracts, affiliations | create, update, close, deactivate | payroll | – | a profile stays, whatever ends |
| Bills of materials (`bom/`) | recipes | create, explode | inventory, sales | cycles through variants | the explosion ends and conserves quantities |
| Units, rounding, withholdings, taxes (`common/`, `withholdings/`, `taxes/`) | rules | conversions, selection of rules, thresholds | sales, purchases | boundaries | round trips; the rule that applies |
| Form of a new invoice (`app/(protected)/sales/new-invoice/`) | lines, default warehouse, open requests | choose an item, a warehouse, a quantity; add and remove lines | sales, inventory (over HTTP) | answers out of order, applied by index from a stale closure | a line shows its own stock; no line loads for ever |
| Accounts, items, parties, users, audit; other pages; scripts | master data | create, update, search | – | – | – |

`PROJECT.json` lists them with their status, and under `hazards` the places in the
code that are hard to test, each with the properties that would notice.

## 2. The modules and the code

| module | component | what it is |
|---|---|---|
| `DocumentLedger` | what the journal promises its callers | abstract specification: vouchers are posted once and cancelled once, by their mirror |
| `Journal` | journal, numbering, periods | every handler, concurrent, with crashes; implements `DocumentLedger` |
| `Books` | reports, year close | composes `Journal` with amounts, the sums of the reports and `closeFiscalYear` |
| `FixedAssets` | fixed assets | every handler; the preview as an algorithm |
| `Inventory` | stock layers | adjust, transfer, produce over shared layers |
| `Receivables` | credit sales and receipts | create, edit, void, receive, post |
| `Purchases` | purchases and payments | create (with stock), pay, void, post, against outputs of stock |
| `CounterSale` | sales with stock and payments, point of sale | a sale from the shelf to the drawer, in all its commits; composes sales, inventory, treasury and cash sessions |
| `Payroll` | payroll | the entries and the runs they feed |
| `BankMatching` | bank statements | import, delete, suggest, apply, undo |
| `InvoiceForm` | new-invoice form of the web client | the lines, the open requests and their answers |
| `JournalProofs`, `FixedAssetsProofs`, `InventoryProofs`, `ReceivablesProofs`, `PurchasesProofs`, `CounterSaleProofs` | | theorems about the module of the name; `JournalProofs` also about `Books` |
| `BackOfficeProofs` | | theorems about `Payroll`, `BankMatching` and `InvoiceForm` |
| `SumTheorems` | | what a sum over a finite set computes: lemmas the others cite |
| `MCJournal`, `MCBooks`, ... (one per checked module) | | instances for TLC: finite maps, symmetry |

**How a handler becomes actions.** A request is a process `p` of `Procs`. `req[p]`
holds what its handler has read and at which `stage` it is. A read outside a
transaction, or in a statement before the writing one, is an action that copies
rows into `req[p]`; the commit is one action, because the writes of a transaction
are invisible until then. Where the code updates a row before it reads what
depends on it (a receipt updates the receivable before it reads its installments)
the row lock makes the whole transaction one step. `Crash`, `Abort` or `Lose`
end a request before its next commit: a refusal, a constraint, a deadlock or the
death of the server. Row locks that only remove interleavings are left out. A
variable commented `history` is read by no guard and no assignment to another
variable, but for the bound on `stale` in `Inventory`: it lets a property name a
crash or a race that has happened.

**Journal.** `row` is the entry table with the lines of each entry; a line is
abstracted to the `createMany` it came from and its sign, which is all the
properties tell apart. `seq` is `JournalSequence.current`, `period` the periods
(absent, open, closed, locked, with `closedAt` and `allowBackPostUntil`). A source
is a document and the number of `_REV` suffixes on it; the unique index on
sources is a guard of the insertions. `PostDocument`/`InsertPosted` is
`createEntry` behind the period check and `ensureIdempotency`;
`CreateDraft`/`InsertDraft` and the `post`, `edit`, `delete`, `setDraft` stages are
the manual entries; `reverse`, `reverseWrite` and `mass` the reversals;
`EntryHandler` and `PeriodHandler` are the two halves of `Next`.

**Books.** Gives each insertion of `Journal` its amounts (`amount` for those of the
year close, `Content` for the others) and models what the reports select and sum.
`ReadYear` is `closeFiscalYear` up to its transaction, which is `WriteYear`:
closing entry and, when the result is not zero, the entry that carries it to
equity. `Posts(p)` lets everything through but documents with the year's sources.

**FixedAssets.** `asset` is the table, `dep` the depreciation movements by month,
`glCost` and `glAccum` the two accounts by asset. The improvement, the disposal
and the run are a read and a write each; the run is also split where it looks for
an earlier run. Money is in cents, rounded half up as the code does.

**Inventory.** `layer` is `StockLayer` with the sum of its consumptions, `kardex`
the sum of the moves, `amounts` the sum of what they post, quantity times unit cost.
Costs count the last decimal of their columns: `UnitCostOf` is the average cost the
code divides, stores rounded in a `Decimal(14,6)`, and multiplies back when it
posts. `Takings` is the set of ways `consumeLayers` may take a quantity (one, for
layers in a strict order). `FallShort` and `ReadAgain` are
`consumeLayersAllowNegative` catching the failure. History: `stale` counts commits
on layers changed since they were read, `overdrawn` the places where production took
more than the layers had, `gone` the units that went out at an average cost.

**Receivables.** `balance` and `plan` are the receivable and its installments,
`received` the sum of its allocations, `chosen` the invoices with an allocation
that names an installment, `entry`, `reversed` and `collected` what the journal
has on the receivable account. `PaidOldest` is
`allocateAgainstPendingInstallments`: the rest of the money before and after each
installment, as the loop computes it. The journal knows a receipt only by its
total; `collected` attributes it by the allocations of the receipt, whose amounts
are taken to add up to that total (the code does not check it; the client sends it
so). History: `edited`.

**Purchases.** `owing`, `balance`, `plan`, `paid` are the payable side; `stocked`,
`left`, `drawn` the layers an invoice brought, what they have and what was
consumed of them; `entry`, `reversed`, `settled` the payable account. `StartVoid`
is what `void` looks at (payments, layers), `CommitVoid` its transaction. What can
happen in between is an output (`ReadLayer`, `Consume`) or a payment (`Payment`),
and what protects the void then is the database: the foreign key of a consumption
(`Deletable`) and the update of a payable that is gone. History: `crossed`, the
invoices paid in that gap.

**CounterSale.** A request goes through the stages of `createWithStock` and
`createWithPayments`: `Plan` splits the quantity between prepared stock and
ingredients from rows read before the transaction, `Begin` reads the next number and
the layers, `CommitSale` writes invoice and moves, `PostSale` the entry,
`CheckPayments` is the check of the payments *after* those commits, `Receive` makes
one receipt at a time, and for one in cash `FindSession` and `DropCash` are the hook
of the point of sale. `ReadForOpen`/`OpenSession`, `ReadSession`, `WriteMovement`,
`AdjustExpected` and `CloseSession` are `PosService`. `Issue` is the plain `create`,
of which only the number matters here: it may come with the request (`dto.number`,
constant `Given`). History: `given` of an invoice (its number was not the next),
`failed` (invoices whose request was cut short), `stray` (movements without their
adjustment), `raced` (registers two openings of which overlapped).

**Payroll.** `entry` is what the journal has of each kind and employee (the source
of such an entry is the employee, hence unique), `run` and `runLines` the payroll runs.
A recognition is `InsertEntry`, `UpsertRun`, `ClearLines`, `FillLines`, four commits;
a payment `InsertEntry`, `LinkPayment` and, without a run, `MakeRun`. History:
`orphaned`, entries whose request ended before the run had them.

**BankMatching.** `statement` and `stored` are the statements and how often their
lines were inserted: import is `ReadHash`, `CreateStatement`, `StoreLines`.
`StartSuggest` reads the candidates once, `SuggestLine` writes one link after
another, with the score in integers as the code rounds it. Applying is
`StartApply`, `CheckOpen`, `CommitMarks`; undoing `StartUndo` (of all linked lines or
of those asked for), `CommitUndo`. History:
`crossed`, journal lines two applications found open at once.

**InvoiceForm.** `lines` are the lines of the form, `of` the item and warehouse
whose stock a line shows. A request for stock is a record in a slot of `calls`,
with the continuation of its handler: the lines still to ask for and whether a
new line follows. `Ask` is a handler up to its first `await`, `Return` what comes
after it, applied at an index. History: `astray`, the lines an open request
may answer wrongly (their item, warehouse or index changed under it, or the default
was asked for on a line with a warehouse of its own); `removed`.

## 3. What the runs check

Deadlock is checked in `Journal`, `Books` and `InvoiceForm`, which can always go on;
the other instances really stop when their bounds (assets, layers, money,
sessions, files) are used up, and say `CHECK_DEADLOCK FALSE`.

| run | instance | asks |
|---|---|---|
| `books` | 1 request at a time and the year close, 3 entries, 2 periods of one date, a sale, a draft, crashes (720,014 states) | does each handler keep its promises by itself: `NumbersGapless`, `ReversalMirrors`, `ReversedCancel` (in the reports), `ClosedHasNoDraft`, `ShutMonthsStand` |
| `journal_races` | 2 requests, 3 entries, a document beside drafts (680,546) | what stays true whatever was read stale: `ReversalPaired`, `PostedReversalMirrors`, `PostedIsFrozen`, and `ImplementsLedger`, the refinement of `DocumentLedger` |
| `assets` | 1 request, 2 assets, 3 months, both methods, repeated runs, runs with the inactive (4,569,701) | `NeverBelowResidual`, `LedgerAgrees`, `AccumulatedIsMovements`, `PreviewForesees`, `DisposedIsFinal` |
| `inventory` | 2 requests, 2 items, 2 warehouses, 3 layers (1,947,763) | `ConsumptionsExplain`, `StockAgrees`, `AmountsAreValue`, `FefoRespected`, `TransferKeepsLayers` |
| `receivables` | 2 requests, 2 invoices, two kinds of terms (3,393,381) | `BalanceIsUnpaid`, `PlanFollowsBalance`, `OldestFirst`, `SubledgerAgrees` |
| `purchases` | 2 requests, 2 invoices, 2 lines with stock, three kinds of terms (1,041,376) | `PayableAgrees`, `PlanAccounts`, `VoidIsUnpaid`, `ConsumedLayersStay` |
| `counter_sale` | 2 requests, 2 sales and an invoice without stock, 2 sessions on one register, one manual movement (6,028,747) | `PreparedAccounts`, `ReceiptsFollowEntry`, `ExpectedAccounts`, `OneOpenSession`, `ClosedIsStill` |
| `payroll` | 3 requests, 1 employee, 2 months, 3 payslips (204,006) | `RunsFollowEntries`, `EntriesReachRuns` |
| `bank_matching` | 2 requests, 2 files with 3 lines, 2 journal lines (199,807) | `LinesImportedOnce`, `MatchesAreGood`, `MarkStays` |
| `invoice_form` | 2 lines, 1 item, 2 warehouses, 2 requests open (504,473) | `OwnStock`, and the liveness property `StopsLoading` |
| `year_close` | the instance of `books` | *violation* `YearCloseEmpties`: the close of the year leaves balances |
| `receivables_void` | 1 request | *violation* `VoidHasNoPayments`: an invoice with receipts is voided |

Why the bounds are enough to mean something:

* Two requests, because a hazard here is one stale read against one commit: the
  handlers share no protocol that needs a third party. Payroll takes three: a
  recognition and a payment that cross, and another that finds what they left.
* `books` takes one request at a time besides the year close: its properties are
  what a handler does alone, and section 5 says what two do. `journal_races`
  takes the handlers of entries with periods that stay open; that a month is
  closed and opened under them is in `books`.
* Journal: a base, its reversal and a third entry is what a wrong pairing needs;
  two periods with one date each let an edit move an entry between periods. Batches
  of lines are used once, so no two insertions look alike.
* Fixed assets: 10 cents less a residual of 0 or 2 over 2 or 3 months leave a
  remainder in some cases and stop the declining balance at the residual; an
  improvement of 5 comes with or without another month of life.
* Inventory: the layers are a dear one that expires first, a cheap one after it and
  one without a date, so that order, cost and quantity can each be wrong alone; a dear
  unit with a cheap one averages 3.5, which the column cannot keep. The
  ingredient is not produced, since its only leaf is itself for want of a recipe. One
  stale commit suffices, since the properties that mention it ask for none.
* Receivables: 5 cents in installments of 3 and 2, paid by receipts of 2, are paid
  in part, across two, and beyond; the other terms have a down payment greater
  than the net and no plan. Purchases: the same, with withholdings that leave
  an uneven plan, and two layers of which an output may consume one.
* Counter sale: one sale takes prepared stock for two lines and is paid by two
  methods, the other has withholdings and is refused after its commit. Three numbers
  let an invoice without stock take the second before, between or after the sales, with
  which two sales that overlap have different numbers. Two
  sessions of one register are what a race of openings needs.
* Bank matching: two lines of one file and one of another want the same journal
  line; another journal line has the better reference and the other sign.
* Invoice form: with two slots a line can be asked about twice and answers come in
  either order; the second line is the one an index can miss after a removal.
* Counters are bounded by `MaxRev`, `MaxNumber`, `MaxCost`, `MaxLife`, `MaxRuns`,
  `MaxLayers`, `MaxStale`, `MaxCuotas`, `MaxReceived`, `MaxPaid`, `MaxSales`,
  `Given`,
  `MaxSupply`, `MaxMoves` and `MaxLines`, in guards; the widths of the columns are out
  of reach of these amounts.

**Fairness** is assumed in `InvoiceForm` alone: `WF_formVars` of the return of each open
request. A request is answered or fails (the network gives up at last), and the
event loop of the browser then runs what follows it. Nothing is assumed of the
user, who may stop or go on for ever; the property holds because `finally` clears
the flag at the index the request was made for.

Each property of a passing run has a mutant, a small wrong version of a definition
(named `Mut...`, beside it) under which TLC finds the property violated.

## 4. What is proved

The theorems hold for any number of requests, documents, assets, layers,
invoices, sessions, employees and statements, and for any amounts. Each module's
assumption on its constants (`ConstantsAssumption`, `BooksAssumption`,
`BankAssumption`) types them and, where a property sums over entries, accounts,
assets, items or the requests in flight, says there are finitely many.
`BooksAssumption` also says that the two entries of the year close go to one
journal, as they do (GENERAL), and that its accounts are not results.

Every safety property of section 3 that a run finds true is proved. Three kinds of
statement keep the hypothesis under which the run checks them:

* *one request at a time* (`OneAtATime`: two members of `Procs` are the same), for
  what a race breaks and section 5 describes: the theorems about `Books`, where the
  year close still runs beside the request, and those about `FixedAssets`;
* a history variable in the property itself (`stale`, `edited`, `crossed`, `raced`,
  `failed`, `stray`, `orphaned`), for what stays true however requests interleave
  until the event it records;
* a hypothesis on a constant: `TRUE \notin Repeats` (`MonthChargedOnce`),
  `Increases \subseteq {0}` (`DepreciationStops`), `Posts = {TRUE}`
  (`LedgerFollowsAssets`), `Reached(Sums)` (`PreviewAlwaysForesees`: no improvement
  brings an asset to a cost that assets are bought at, since the property knows an
  improved asset by its cost alone).

**Sums.** The models sum with the folds of the community modules, which are
recursive functions on the subsets of a finite set. `SumTheorems` proves that this
recursion has exactly one solution, from a counterexample with the fewest elements
(`WFMin` over the order of the naturals, so that no induction theorem with an operator
parameter is needed), and from it what a step does to a sum: `SumDiffer` (one term
changed), `SumImage` (the terms renamed), `SumTelescope` (differences of a sequence),
and sums of sums, of differences and of multiples.

**Journal.** `IInv == TypeOK /\ RowInv /\ RequestsHold` is inductive. Uniqueness of
sources and numbers is not inductive by itself: the reversals need to know that the
base a request read still has the source it saw, and that an entry born posted keeps
its lines (`RowsKeepBirth`, `HoldsBase`); the numbering needs that the numbers given
are below the sequence. From it follow `TypeCorrect`, `SourcesUnique`,
`NumbersUnique` (what the unique indexes keep, and the others rest on),
`ReversalsPaired`, `ReversalsMirror`, the action property `PostedFrozen`, and
`Refinement`: every step of the journal posts a voucher, cancels one, or changes
nothing a caller of `createEntry` can see.

**Books.** `BooksInductive` carries `IInv` over to the journal with its year close,
whatever races. For one request at a time `AloneInv` adds that nothing a request
read has moved since, that numbers leave no gap, and that reversals mirror their
base. Each step is then shown to keep it and what it may touch (`FirmStays`), from
which follow `NumbersStayGapless`, `EveryReversalMirrors` and
`ShutMonthsKeepTheirEntries`. `SealInv` adds what a request in flight knows of the
months `closePeriod` has closed (no draft was in the one it will close, the one it will
write into is not closed) and gives `NoDraftInClosedMonth`.
`ReversalsCancel` sums them up: the reversed entries and their mirrors leave every
account at zero, however long the chain of reversals of reversals, because pairing
each base with its mirror is an injection (`SumImage`).

**FixedAssets.** `TypeCorrect`. `MonthChargedOnce`: without repeats a month
charges an asset once, by `RunsInv`, which ties a run row to the movements that
carry its execution. For one request at a time `SerialInv` says that what a request
read is still so, and gives `LedgerFollowsAssets`, `DepreciationStops`,
`DisposedStaysDisposed` and, with the sum of the movements of an asset,
`MovementsExplainAccumulated`. `PreviewAlwaysForesees`: the schedule is computed by
recursion over the months of the life, and that this recursion has a solution is
proved from the least month without one (`ScheduleUnfolds`); `Told` then follows it
month by month beside the runs. `LifeChargesTheBase` bounds what rounding leaves over
at the end of a straight-line life, by half a cent a month.

**Inventory.** `IInv` adds to the bounds of the layers what a request remembers: it
takes only from layers of the items it has read, no more than it saw there, and it
saw no more than came in. `LayersStayBounded` then holds whatever is stale, and
`ConsumptionsStayExplained` while nothing is. `AllReadWell` says more of each request:
what it took of an item adds up to what it needs and was taken in the order of
expiry from what it saw. `FirstExpiredGoesFirst` follows where what it saw is what
there is. `StockInv` and `ValueInv` (quantity and value of the moves against those of
the layers) are inductive beside it and give `StockAlwaysAgrees` and
`AmountsAlwaysValue`, where each rounded average is half a last decimal away per unit
at most (`Rounded`); `TransfersKeepLayers` pairs each new layer with the one
its stock came from.

**Receivables.** `IInv` has three parts: the types; the plans (each status tells
what is paid, and a plan no receipt chose from is paid in order and is canceled
wholly or not at all, without which a canceled installment could stand before a
payable one); and the books (an entry of an unedited invoice debits its net, an
invoice not yet created has none, a request that will reverse holds a void
invoice). It gives `TypeCorrect`, `BalanceStaysUnpaid`, `StatusAlwaysTells`,
`OldestPaidFirst` and `SubledgerAlwaysAgrees`. `PlanAlwaysFollows` needs `AllFollow`
beside it: the installments owe the balance together, and where they owe more, none
of them owes anything that a receipt could still pay.

**Purchases.** `IInv` joins the types, the plans, what is so of each invoice
(`Sound`: only an issued one has a payable or layers, only layers that are there
were consumed, a void one with payments is in `crossed`) and what each request knows
(`Knows`: the invoice it will post or void is still what it saw, or was paid since,
which `crossed` remembers). It gives `TypeCorrect`, `PayablesAgree`,
`VoidsAreUnpaid` and `ConsumedLayersAlwaysStay`; with `AllAccount`, what the
installments were cut from and what was paid of them, `PlansAlwaysAccount`.

**CounterSale.** `OpenSessionsRaced`: a register has two open sessions only if two
openings of it overlapped. `Openings` is what makes it inductive: two
requests about to open one register, or one about to open it beside an open
session, have raced. With `ClosedStaysStill`, only who had found a session open
moves it once it is closed. `PreparedAlwaysAccounts` rests on `Floor`
(neither the layers nor what a sale has read of them are below what entered and was
not taken by then) and `InRow` (while every number was the next, invoices are numbered
in a row, and a sale whose number is still free has read the layers as they are);
`ExpectedAlwaysAccounts` on `Tills` (a session's expectation lacks just the
movements whose requests have still to adjust it, and the strays);
`ReceiptsAlwaysFollow` on `Receipts` (how many payments each request has made of the
sale it alone is at).

**Payroll.** `RunsAlwaysFollow` and `EntriesAlwaysReach`. Two requests never carry the
same entry (`Alone`, by the unique source); what a request carries is what it booked
(`Carried`); what it has not written yet is as the entry found it (`Fresh`,
`Waiting`). From these a crossed recognition and payment lose nothing of each other.

**BankMatching.** `NeverImportedTwice`, `MatchesAlwaysGood` and `MarksStay`, for any
amounts, dates and similarities. The least and the greatest candidate exist by
well-founded induction (`LeastOf`, cited from the library); `ScoreType` bounds the
score. `Apart` says that no two requests store the lines of one file, and that two
that mark one journal line are in `crossed`.

**InvoiceForm.** `OwnStockShown`. `FormInv` types the form, and says of each line not
in `astray` (`Minded`) that every open request which covers it asks, now or after the
answers to come, for the item and warehouse the line sells, and that it shows its own
stock unless a request covers it. `FormAssumption` says that there is room for a line and
that `None` is none of the items, warehouses and requests.

**Left to TLC.** `StopsLoading` is liveness: fairness and `ENABLED` are not
supported by the proof system. The two violation runs are counterexamples.

## 5. What the models found

Two disagreements with what the code says of itself are violation runs, described
in `PROJECT.json` under `findings`. Modelling met these others, which the
properties therefore leave aside. Where a document or a comment says otherwise, it
is named.

* Journal. `createEntry` checks the period before its transaction
  (`accounting.service.ts`:1337), so an entry may be posted into a period closed
  meanwhile. `lockPeriod` with unlock goes from locked to closed without the count
  of drafts that `closePeriod` makes: a month reopened, given a draft and locked is
  closed over it (`ClosedHasNoDraft` is of months not reopened). Two edits of one
  draft both insert their lines.
* Reports and year close. Those that take only POSTED entries drop a reversed entry
  and keep its mirror. The check of the balance sheet is off by twice the assets of
  credit nature. The end of a range is its midnight. The close of the year asks for all
  months closed and then posts on December 31st, so December must be opened
  between the check and the transaction.
* Fixed assets. An improvement read before a run and written after it puts the old
  totals back; a run planned before a disposal gives the disposed asset a book
  value again.
* Inventory. A production that falls short loses the consumptions it had made when
  it goes negative (`inventory.service.ts`:323, against the comment that follows). Two
  outputs of one layer lose one of the two quantities; the moves keep both. What is
  posted of an output differs from the cost of its layers by the rounding of the
  average.
* Stock moves, receipts and invoices are posted after their commit. What fails there
  is in the subsidiary records and in no entry; only a sale can be posted again.
* Sales. Editing an invoice writes its opening balance again, without the receipts
  it has, and does not post the difference. A void invoice can be edited and then
  owes again, and accepts receipts. A down payment is deducted from the opening
  balance and again by its own receipt. A receipt beyond the installments lowers the
  balance below zero. Two voids at once return the stock of a sale twice.
  Nothing checks that an installment a receipt names is of its invoice
  (`treasury.service.ts`:189); `Receivables` takes it to be.
* Counter sales. An invoice that is given a number (`sales.service.ts`:831) between
  two overlapping sales lets both commit, with different numbers: the layers then
  lose one of the two quantities. A sale with withholdings paid its net is refused
  after its commit: `withholdingTotal` is read (`sales.service.ts`:1378) and never
  written. Two lines of one product each take what both need.
* Payroll. The unique source allows one recognition per employee ever, although the
  check before it asks for the same month. The salaries payable (250505) are
  counted as a deduction, so the net of a run is always zero. `contributionsSimple`
  pays EPS, ARL and family compensation from 237010, 237020 and 237025; the
  recognition credits them to 237005, 237006 and 237010.
* Bank matching. A mark outlives its evidence when the statement is deleted or
  suggested again; undoing takes away marks of another statement on the same
  journal line.
* Invoice form. Removing a line while a later one loads leaves that one at "..." for
  ever. The answer for an item chosen before overwrites that of the item chosen
  since. Changing the default warehouse shows its stock on lines that sell from
  their own.

## 6. What is not modelled

The definitions map about 9 % of the implementation's lines. The modelled part
is that in which state changes under concurrency or failure; most of the
remaining lines are pages and forms of the web client (more than half of the
code), reports and their exports, data transfer objects, seed data and scripts.
A model of them would restate layout and formatting.

* The line sets of the `post*` handlers and the resolution of accounts: the journal
  takes a balanced line set as one batch. `Receivables`, `Purchases` and `CounterSale`
  model what five of them do to one account or two.
* The layouts of trial balance, ledgers, statements, NIIF and exógena, and all
  exports; the deferred tax entry and the special periods of the year close.
* In `FixedAssets`: the update of descriptive fields and the listing. In
  `Inventory`: warehouses, queries, unit conversion, and the posting of the moves. In
  `Receivables`: prices, taxes, due dates (rescheduling keeps the order of the
  installments), receipts in foreign currency. In `Purchases`: the edit of an invoice,
  attachments, due dates. In `CounterSale`: the stock a void returns, the count by
  denomination. In `Payroll`: the automatic retention and the previews. In
  `BankMatching`: the formats of the files, the trigrams of the similarity, and
  `reconciliation.service.ts`. In `InvoiceForm`: quantities, prices, services and the
  submission (with its fall back to another path on 404 and 405; a request repeated
  by the user after a late refusal makes a second invoice).
* Reversals of a sale's entry by hand from the journal are in `Journal` and not in
  `Receivables`: its subledger invariant is about the document handlers.
* Transfers between bank accounts: `createBankTransfer` makes a manual draft and
  posts it, which are `CreateDraft` and the `post` stage of `Journal`; their checks of
  the accounts and the marks they leave on the lines are left out.
* Recipes of several levels and their cycle check; units and rounding; rules of
  withholdings and taxes: pure computations over tables that nothing else writes.
  Their results enter the models as constants.
* Employees, contracts and affiliations: rows edited one at a time, of which payroll
  asks only whether there is a profile; a profile is never deleted.
* Policies (who may post), users, authentication, the audit log, which nothing reads
  back, master data, scripts, and `stock-anchors.ts`, which no file imports.

## 7. What comes next

Proofs: how much of what is proved for one request at a time (`Books`,
`FixedAssets`) survives races, with a history variable in place of `OneAtATime`.

Models, each of which would extend a module that exists: the stock a void returns
(`CounterSale`), the edit of a purchase (`Purchases`), the submission of the invoice
form (`InvoiceForm`), the explosion of recipes against a reference definition.
