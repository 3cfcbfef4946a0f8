# Verification of Buboo-BE

Buboo-BE is the backend of a household-finance application for couples: a Go
HTTP server (chi) over PostgreSQL (pgx).  This directory holds TLA+ models of
its core logic, TLC configurations that check them on small instances, and
TLAPS proofs of the theorems that matter most for instances of every size.

## 1. The system

### How it runs

Every HTTP request is served by a goroutine of its own.  A handler decodes the
body, calls repositories and replies.  Each repository call is **one SQL
statement on a pooled connection**; apart from the two `Reorder` methods
nothing opens a transaction, takes a row lock, or compares a version.  A handler
that changes a row therefore reads it, computes in memory, and writes the whole
row back, with other requests free to run between the statements.  The request
context is passed to every statement, so a client that disconnects makes the
rest of its statements fail.  A panic is caught per request (`Recoverer`).  The
process may stop at any point; what is in the tables stays.

The in-memory state shared between goroutines is the mutex of `SavingService`
and the three caches of `PriceService` (prices, exchange rate, dividend
histories).

### Components

| component | source | state | operations |
|---|---|---|---|
| Stock holdings and trades | `handler.go` 575-936, `pg_stocks.go`, `pg_stock_transactions.go` | `stock_assets`, `stock_transactions` | create, patch, buy, sell, delete |
| Saving service | `saving_service.go`, `handler.go` 315-374 | mutex; `transactions`, `stock_assets`, `other_assets` | ApplySaving: ledger entry, then asset, then rollback or backfill |
| Ledger | `handler.go` 288-569, `pg_transactions.go` | `transactions` | create, update, delete, monthly summaries |
| Fixed expenses | `handler.go` 1495-1558, 1812-2141, `pg_fixed_expenses.go` | `fixed_expenses`, `transactions` | create, update, delete, apply to a month, auto-creation for loans |
| Dividends | `handler.go` 1620-1806, `pg_dividends.go` | `dividends`, `transactions` | create, apply to the ledger, delete, summary |
| Other assets | `handler.go` 1191-1471, `pg_assets.go` | `other_assets` | create, update, delete |
| Manual ordering | `pg_stocks.go` 72-143, `pg_assets.go` 103-190 | `sort_order` columns | insert at the end or in the group, Reorder in a transaction |
| Roadmap | `roadmap.go`, `pg_roadmap.go` | goals, assumptions, baselines, net-worth snapshots | put goal, put assumptions, snapshot, projection |
| Projection arithmetic | `roadmap_service.go`, `dividend_history.go` | none | Project, raises of a dividend, the search for the required growth, NewBaseline |
| Tax arithmetic | `tax_service.go`, `pg_stock_transactions.go` 134-164, `handler.go` 960-1150 | none of its own; reads holdings and the log | cost basis and its blending, the tax of a year, the tax of selling everything |
| Price service | `price_service.go`, `dividend_history.go` 49-79 | price, rate and history caches; `price_snapshots` | fetch with TTL, fallback, invalidate |
| Accounts and invites | `auth_handler.go`, `pg_users.go`, `pg_invites.go` | users, couples, invites | OAuth callback, setup, invite |
| Diaries and photos | `handler.go` 2339-2513, `pg_diaries.go`, `storage/supabase.go` | `diaries`, object storage | create, update, delete, photo upload and delete |
| Plain tables | `handler.go` 2210-2333, 2520-2781 and their repositories | schedules, categories, fridge items, side dishes | single-statement CRUD |
| Plumbing | `cmd/main.go`, `internal/db`, `internal/auth` | none | start-up, pool, JWT, routing |

### How they interact

Holdings, savings and dividends meet in the tables: `ApplySaving` writes
`transactions`, then `stock_assets` or `other_assets`, then
`stock_transactions`, under its mutex, which the stock handlers do not take.
Fixed expenses and dividends post entries to `transactions` and refer to them by
identifier.  `portfolio` nets a person's realised gains of the log with the unrealised
ones of the holdings; `annualTax` bills the log alone.  A diary lists addresses of
files that live in a bucket or a directory.  The roadmap reads holdings, dividends and contributions, and prices
through the price service, and writes a snapshot from a background goroutine
after the reply.

### What is hard

* **Interleaving.** Read-modify-write of whole rows without transactions
  (holdings, assets, diaries, couples); check-then-insert without a unique key
  (dividends, fixed expenses, loans, goals, invites).
* **Partial failure.** Handlers of several statements where a later one fails:
  a sale logged and not applied, a saving whose rollback runs under the
  cancelled context that made it necessary, half a month of fixed expenses.
* **Staleness.** A cached quantity, basis, price or plan line used after another
  request replaced what it came from.
* **Ordering.** Background snapshots and cache fills that land after a later
  write; `Reorder` from a client with an old list.
* **Arithmetic.** A cost basis of 0 that means "unknown", plausibility windows,
  the yearly deduction shared by realised and unrealised gains.

### What makes each component correct

* Holdings: shares = opening + purchases - sales of the log; nobody sells more
  than is held; a sale's gain uses a won cost basis of the same purchases as the
  average; an unknown basis is never guessed and never sold; a row that is gone
  stays gone.
* Saving: a ledger entry exists exactly when its asset was credited, as long as
  nobody deletes the entry by itself; no saving loses another's amount; the mutex is
  always released.
* Fixed expenses and dividends: repeating a request that ended posts nothing
  twice; a loan that keeps its name finds the bill it has; an answer that a month was
  applied is true; a dividend marked as applied was posted.
* Roadmap: one active goal per couple; a stored plan line is never replaced, and
  is void after a change of what it was drawn from; a snapshot that a request posts
  does not land over that of a later request.
* Price service: a value served as live is younger than the TTL plus one call to
  the market; after an invalidation nothing fetched before it is served, unless
  the fetch overlapped it; a stored price is not replaced by an older one of the same
  exchange.
* Ordering: a reorder is applied whole and once; two groups share a position, or one
  is split, only after requests that overlapped or, until somebody reorders, as the
  backfill left them; transactions that wait for each other end.
* Accounts: a person is registered once, an invitation admits one, a couple has one
  husband and one wife; a couple whose set-up failed before its user can be set up
  again; the day that the ledger's month starts stays until somebody names another.
* Diaries: a photo that is shown has its file, a file is shown by some diary, and what
  was answered with success survives whoever else writes the row.
* Tax: a basis that may be sold against is what the shares cost; the announced tax is
  the tax that will be billed; a domestic sale is not taxed.
* Projection: each month and each raise counts once, table and chart agree, the plan
  line ends at the target.

## 2. Plan

In order of importance; each item is one component module, an MC module with its
configurations, and, where marked (P), a proof module.

| | module | subject | state |
|---|---|---|---|
| 1 | `Holdings` (P), `Position` | trades; a trade as one step | modelled, checked, proved |
| 2 | `Saving` (P) | ApplySaving beside the stock and asset handlers | modelled, checked, proved |
| 3 | `Posting` (P) | fixed expenses, loans and dividends posted to the ledger | modelled, checked, proved |
| 4 | `Roadmap` (P) | goal, assumptions, plan line, snapshot in the background | modelled, checked, proved |
| 5 | `SortOrder` (P), `ManualOrder` | inserts and reorders in transactions; an order applied whole | modelled, checked, proved |
| 6 | `PriceCache` (P) | cached fetches racing invalidation, the table behind them | modelled, checked, proved |
| 7 | `Accounts` (P) | callbacks, set-ups and invitations that race; the settings of a couple | modelled, checked, proved |
| 8 | `Tax` (P), `Projection` (P), `Sums` | the arithmetic, as state machines over purchases, sales and years, and over the search; the sums and powers they are made of | modelled, checked, proved |
| 9 | `DiaryPhotos` (P) | rows and the files they refer to | modelled, checked, proved |
| 10 | | how a dividend history is condensed, and the cached slice that two projections sort in place (`dividend_history.go`) | to do |

`schema.sql` has neither the table `couple_invites` nor the column
`users.google_sub` that the repositories use, and no unique key on `users` but `id`.
`Accounts` therefore lets the database refuse nothing; what the schema that is
deployed forbids, it forbids in addition.

Every safety property that a passing run checks is a theorem (section 6); what is left
of the plan is item 10 and the two liveness properties, which stay with TLC.

## 3. How the models read

**Steps.** One action is one SQL statement, one critical section, or one answer
of the market: whatever no other goroutine can see half done.  A goroutine of
request `r` is the record `req[r]`; its `pc` names the statement it will issue
next and its other fields are the locals it carries there (a copied row, a list,
a goal).  The first action of a handler goes from `idle` through the first
statement.  What a handler refuses before it has written anything changes nothing
and is no action.  A reply resets the locals, so that two states which differ
only in what a finished goroutine held are one.

`Tax` and `Projection` are about arithmetic and take coarser steps: a whole purchase
or sale (`Holdings` takes those apart), one trial of the search.

**Failures.** `Fault` counts a statement that fails for a reason outside the
model (connection, cancelled context); each statement has such a disjunct where
the code does something about it.  `Crash` (`Restart` in `Saving`) loses every
goroutine and everything in memory and keeps the tables.  `MaxFaults` and
`MaxCrashes` bound both.

**History.** Where a property is about the order of requests, `before` records which
requests had been answered when one began; two requests *overlap* when neither is in
the other's `before`. These fields, and `credited`, `posted`, `listed`, `marked`,
`recorded`, `persisted`, `inTurn`, the `stored` of a cached price, the `kept` and
`removed` of a diary's request, the `entry` that an editor of savings deleted, the
`by`, `through` and `blind` of an account's, and `paid` in `Tax`, are never read by a
guard.

**Data.** Values are abstracted to where they come from:

* an average price, and a won cost basis, is the set of purchases it was blended
  from; the 0 that means "unknown" is the empty set.  Whether a known basis
  passes `ValidateKRWCostBasis` depends on prices and is left open;
* a goal's target, an assumption, a plan line, a snapshot is the request that
  wrote or measured it;
* a market value is the time it was seen and the request that fetched it;
* shares and money are whole numbers; titles, amounts, notes and wording are left
  out.  Where arithmetic is the subject (`Tax`, `Projection`) prices, rates and gains
  are numbers too: a purchase whose average would not be whole is left out, and a
  growth or a raise is a whole factor.

**Faulty variants.** A definition whose comment begins "Faulty", or that stands
before its namesake with a longer name (`BlendKRWCostBasisUnchecked`), is the code
with a plausible mistake.  No specification uses one: replacing the real
definition by it violates the property it belongs to, which shows that the
property says something about the code.  `PROJECT.json` pairs them.

## 4. The modules

### Holdings, Position

`stocks` is `stock_assets` (present rows only), `log` is `stock_transactions`,
`issued` the uuids handed out, which never come again.

| actions | code |
|---|---|
| `CreateStock` | `createStock`: one INSERT, never with a won cost basis |
| `UpdateStockRead`, `UpdateStockWrite` | `updateStock`: FindByID, patch the copy, UPDATE of every column but the owner |
| `DeleteStockForced`; `DeleteStockRead`, `DeleteStockCheck`, `DeleteStockWrite` | `deleteStock` with and without `force`; an error of `HasSellInYear` counts as "no sale" |
| `BuyStockRead`, `BuyStockWrite`, `BuyStockLog` | `buyStock`: blend, UPDATE, then the log, whose failure is only warned about |
| `SellStockRead`, `SellStockLog`, `SellStockWrite` | `sellStock`: checks, the log first, then UPDATE or DELETE |

`Position` is what a reader of the API expects: shares and log move together.
`TradesAsOne` maps `held` to the quantity minus the sales that are logged and not
yet written, and `book` to the log plus the purchases that are written and not yet
logged.  The map is one for requests served in turn; interleaved requests do not
implement `Position`: section 7.

### Saving

Extends `Holdings`: the stock handlers run on the same rows, and `Next` of
`Holdings` is a disjunct of `SavingNext`.  `mutex` is `SavingService.mu`, `ledger`
the savings that have their entry in `transactions`, `assets` is
`other_assets`, `saver[x]` a goroutine in `ApplySaving`, `editor[r]` one in
`updateAsset`, `deleteAsset`, `updateTransaction` or `deleteTransaction`, which do not
take the mutex.  A request is for a holding, an asset or an entry.  `UpdateTransaction`
and `DeleteTransaction` act on a saving's entry from the moment it is there, while the
saving still runs too; neither touches the asset.

`Lock`, `CreateEntry`, then by the kind of the link `AddToStockRead`,
`AddToStockWrite`, `LogSaving`, or `CreateSavedStock`, or `AddToAssetRead`,
`AddToAssetWrite`, or `CreateSavedAsset`, or `RejectKind`; when the asset cannot be
credited, `Rollback`.  `Disconnect` cancels the request context: from then on every
statement of that saving fails, the rollback's too.  The result is the state
`orphan`, an entry without its asset, which the code calls best effort.

Two statements of the code are unreachable and so are no actions: the backfill of
the entry's link, after a new stock and after a new asset.  The entry is created
from a struct that shares its `SavingLink` pointer with the link that
`applyStock` fills in, so the two compare equal.

### Posting

`bills` is `fixed_expenses` with `is_active` and the title, `dividends` with
`is_applied`, `loans` the loans of `other_assets` with their names, `ledger` the entries
posted, each with its month and the bill it is linked to.  A title is that of some loan's
bill, by the name of the loan, or none of them.

`ApplyList`, `ApplyMonth`, then `Post`, `PostSaving` and `CreditSaving` for each bill
in any order, `ApplyDone` are `applyFixedExpenses`; bills of kind saving go through
`ApplySaving`, which enters as two steps (entry, then credit or rollback).
`CreateBill`, `UpdateBillRead`, `UpdateBillWrite`, `DeleteBill` are the handlers of
fixed expenses, which may give a bill any title; `CreateLoan`, `UpdateLoanRead`,
`UpdateLoanWrite`, `DeleteLoan` those of a loan, which may be renamed; `BillLoan` (the loan is
read), `FindLoanBill` (the bills, for one of the title the name makes), `InsertLoanBill` the
automatic bill of a loan; `CreateDividend`, `ApplyDividend`, `InsertIncome`, `MarkApplied`,
`DeleteDividend` the dividends; `UpdateEntry` and `DeleteEntry` an entry edited by
hand, which may be linked to any bill.

### Roadmap

`goals` lists `roadmap_goals` by age (the newest is active), `target`,
`assumptions`, `baselines` are keyed by goal as their tables are, `snapshot` is this
month's row of `networth_snapshots`, `background` the goroutines that outlive
their request.

`ProjectGoal`, `ProjectAssumptions`, `BaselineRead`, `SaveBaseline`, `BaselineReread`
are the projection, which draws a plan line when there is none (INSERT ... ON
CONFLICT DO NOTHING) and reads back whichever line won; `Background` is the
snapshot it leaves running.  `PutGoalRead`, `PutGoalWrite`, `DeleteBaseline` change
the goal, `EnsureGoalRead`, `EnsureGoalInsert`, `PutAssumptionsRead`,
`PutAssumptionsWrite`, `DeleteBaseline` the assumptions, `PostSnapshot` and
`RecordSnapshot` post a snapshot.  The answer `panic` is the nil plan line that a
projection dereferences when a change deletes the line between its two
statements.

### SortOrder, ManualOrder

`rows` is what is committed, `lock` the transaction that holds each locked row.
`List` is the client looking at the order it will send, `Begin`, `UpdateRow`,
`Commit` the transaction of `Reorder`, `UpdateFails` and `Deadlock` its two ways to
abort, `Insert` and `InsertCommit` the INSERT whose subselect reads a position
before the row becomes visible, `Delete` and `DeleteRow` the DELETE, which waits for
a lock.  Both tables are one: rows of one ticker are a group, and a row of
`other_assets` is a group by itself.  At first the rows have the positions of the
one-time backfill of `schema.sql`, which numbers the rows of a couple by age: `StockOf`
gives the group of each, so a stock that both spouses hold may begin on both sides of
another.  A request that has been answered forgets its list.

What PostgreSQL does at READ COMMITTED is assumed, not translated: a row is
locked from its UPDATE to the end of the transaction, others see it as it was
until then (`Written`), whoever waits goes on with the new row (`Blocker`), and a
ring of waiting transactions is broken by aborting one of them (`Deadlock`).

`ManualOrder` has positions and the orders asked for; an order is taken up whole and
once (`Arrange`), or given up (`GiveUp`).  `ReorderAsOne` maps the committed positions and
the lists of the requests in flight.

### PriceCache

`cache` is the three maps of `PriceService` as one, keyed by symbol with exchange, dollar
or dividend history; `table` is `price_snapshots`, keyed by the symbol alone (`SymbolOf`), so
that entries of two exchanges write one row; `now` counts ticks.  `Quote` looks
up, `FetchAnswers` and `FetchFails` are the market, `Store` fills the cache,
`Persist` writes the table, `Fallback` reads it, `Refresh` is `InvalidateAll`, which
leaves the histories.  `Tick` lets time pass; it does not pass a call's timeout and
not the moment between an answer and the fill of the cache.

### DiaryPhotos

`diaries` is the table, its row's `photos` the addresses; `stored` the files of the
bucket or, where `remote` is false, of the directory.  A file has the name of its
upload, as the code draws a fresh uuid for each.  `CreateDiary`; `UpdateDiaryRead`,
`UpdateDiaryWrite` (content and mood are written back, the photos are not);
`DeleteDiaryRead`, `RemoveFile` for each file with its error ignored,
`DeleteDiaryRow`; `UploadPhotoRead`, `UploadFile`, `AddPhoto`; `DeletePhotoFile`,
`DeletePhotoRow`.  A call to the bucket that fails may have taken effect, a
removal (`FileGone`, and those whose error is ignored) as well as an upload.  The path of
a photo's deletion names a diary and a file that nothing compares, so `DeletePhotoFile`
takes any pair.

### Accounts

`users`, `couples` and `invites` are the tables, a row named after the request that
inserts it.  `CallbackSub`, `CallbackEmail`, `CallbackLink` find a user by subject or by
address; `CallbackInvite`, `CallbackRole`, `CallbackCreate`, `CallbackMark` admit a new
one; `SetupLookup`, `SetupCouple`, `SetupUser`, `SetupInvite` found a couple;
`CreateInvite` invites; `UpdateCoupleRead` or `UpdateCoupleDay`, then
`UpdateCoupleWrite`, change the settings.  Three statements have their error ignored
(the lookup of a set-up, the list of members, the mark of a used invitation): `blind`
records that.  An invitation expires when it is looked up too late, since nothing else
reads the time.

### Tax

`holding` is `stock_assets` with its two averages, `gains` the sum of `realized_pnl` by
year, person and holding, `year` and `early` the two clocks: `annualTax` asks for the
year in the zone of the Dockerfile, a sale is dated in UTC.  `SellStock`, `BuyForeign`,
`BuyDomestic` are the handlers as one step each, `NewYear` and `NewYearInUTC` the turn of
a year.  `ValidateKRWCostBasis`, `KRWCostBasis`, `BlendKRWCostBasis`, `LiquidationTax`
are the functions of `tax_service.go`, `CapitalGainsTax` one line of
`CalcCapitalGainsTax`; `AnnualTax` and `EstimatedTax` are what the two handlers answer.
`paid` keeps the won that was paid for the shares, which no row holds.  At first a
foreign holding has the basis it was bought at, none, or one that took dollars for won,
which is how the comments in `tax_service.go` say damaged rows came to be.

### Projection

One call of `NewBaseline`: `TryHigh`, `TryLow` and `Halve` are the search,
`NewBaseline` its result.  `MonthsToRoll`, `RollMonth` and `Project` are the loop over
months, `RaisesSinceBase`, `DividendAt`, `MonthlyContribution` what a month gets, `Gathered`
what it adds to its year's row.  The loop is a recursive function of the months rolled so
far.  The yield that `NewBaseline` also returns is a quotient for display and left out.

`MCArithmetic` puts `Tax` and `Projection` side by side for one run: a behaviour is
trades and years, or one search, and the other half stands still.

## 5. What the runs show

| run | bounds | shows |
|---|---|---|
| `holdings_concurrent` | 3 requests, 2 in flight, 1 failure; 2 rows of one dollar ticker, 1 won row, 1 unused identifier among them | a basis that is unknown is never sold; basis and average cover the same purchases until an average is typed; no purchase counts twice; what is gone stays gone |
| `holdings_serial` | 3 requests, 1 in flight, no failure | log and shares agree and nothing is oversold; `Position` is implemented |
| `saving` | 2 savings, 1 other handler, 2 failures; a holding or asset is edited, or a saving's entry edited or deleted | an answered saving has its entry exactly if it credited its asset, but for a failed rollback or a deleted entry; savings into one asset add up; each saving gets its answer |
| `posting` | 3 requests, 2 in flight, 1 failure; 2 months, 2 bills to begin with, 1 dividend and 1 loan to be created, 2 names | repeating a request posts no bill twice, and a loan gets one while neither is renamed; "applied" is true; a mark has its income, and it is not posted again |
| `roadmap` | 4 requests, 2 in flight, 1 failure | a plan line is never replaced, and never older than a change that ended before it was drawn; all projections answer with the stored one; one goal; posted snapshots do not come back over later ones |
| `sort_order` | 3 requests on 3 rows, one stock on both sides of another, 1 failure | an order is applied whole and once, ties need overlap, splits too where the backfill made none, everyone is answered |
| `price_cache` | 3 requests on a symbol at two exchanges, the dollar and a history; TTL 2, timeout 1, time up to 3, 1 crash | how old a live value can be and how often the market is asked, what a refresh guarantees, how far a stored price can go back |
| `diary_photos` | 3 requests, 2 in flight, 1 failure; 2 diaries, 2 photos to begin with, bucket or directory | which file can be shown and gone, which kept and shown by nobody, and that an answered upload survives patches |
| `accounts` | 3 requests, 2 in flight, 1 failure; 3 people, no couple or one with a user and an invitation | one user per person, one person per invitation, a free role for each, but by overlap, an ignored error or a crash; the ledger's day stays |
| `accounts_spouses` | 3 people, 1 in flight, no failure | **violated**: a third person joins as a second wife |
| `arithmetic` | `Tax`: 2 people, 2 foreign and 1 domestic holding, 2 trades, 2 years; `Projection`: 58 dividend plans around the turn of a year, up to 4 months, 5 growths | the announced tax is what is billed; a sellable basis is what was paid; months and raises count once; the line ends at the target |
| `tax_domestic` | as `arithmetic` | **violated**: a gain on domestic stock is taxed |

**Why the bounds are enough.**  The hazards here are pairs: one goroutine holds
something stale while another replaces it.  Two requests in flight show every
such pair; one more, before or after them, sets up the state (a first purchase, a
first goal) or observes the damage (a sale, a projection), and `roadmap` needs two
more: a goal, its assumptions, a projection that overlaps one of them and one that
follows.  One failure puts an error or a crash at any statement; `saving` has two,
because its rollback has to fail after the asset did.  Quantities 1 and 2 allow a
part of a holding, the whole and too much.  `sort_order` needs two reorders over
two rows for the ring of locks, and an insert or a delete beside them; the third row is what
splits a stock from the start.  `posting` has two names, so that a loan or a
bill can be renamed, or bear the name of the other;
`price_cache` needs TTL + timeout ticks for a value to reach its greatest age, and two
exchanges for a row that two entries of the cache write.
`accounts` has three people because an invitation, a second and a third is what two
could not show: with two, nobody is left to use an invitation twice.  `Tax` has a
deduction of 3, rates 2 to 3 that pass the check and 5 that does not, and prices on
both sides of the average, so that gains, losses, a used and an unused deduction and
each kind of basis meet within two trades.  `Projection` draws its lines in the months
around the turn of a year, where the raises are counted by comparing months; two
halvings of five growths stand for sixty of an interval, and targets lie below, inside
and above the range.  Requests are interchangeable, so the safety runs use symmetry where the
properties do too; runs with liveness use none.

A model whose requests have all been answered has a `Finished` step, so TLC's
deadlock check finds every other state in which nobody can go on.  `arithmetic` and
`tax_domestic` alone do not check for deadlock: a behaviour ends when its trades and
years, or its search, are used up, and nothing there waits for anything.

**Fairness.**  `saving` assumes that the Go scheduler runs runnable goroutines and
that a statement ends (WF of `Apply`), and that `sync.Mutex` hands itself over to a
waiter that starved (SF of `Lock`: other savings may take it in between).  Nothing
is assumed of clients.  `sort_order` assumes WF of what the server and the database
do: a statement ends, a free row goes to who waits for it, PostgreSQL looks for
deadlocks.  No fairness makes a reorder succeed.

## 6. What is proved

`HoldingsProofs` proves, for any number of holdings, requests, requests in
flight and failures, from `HoldingsAssumption` alone (types of the constants, and
that requests and holdings name their own purchases), except where the theorem itself
names more:

| theorem | property | argument |
|---|---|---|
| `TypeCorrect` | `TypeOK` | `TypeOK` is inductive as it stands, because it says what a copied row must satisfy before it is written: shares left, and for a sale no more asked than the copy has.  One lemma for each statement, one for each handler |
| `UnknownNeverSold` | `UnknownBasisNeverSold` | `UnknownInv` adds that rows and copies in flight of such a holding have no basis, and that no sale of it is in flight; a stale copy cannot bring back a basis that was never there |
| `BasisConsistent` | `BasisCoversAverage` | `BasisInv` adds that the copy a goroutine will write has basis and average of the same purchases, and that an idle request has no operation yet (so that `AverageTyped`, once true, stays true) |
| `GoneForGood` | `GoneStaysGone` | from `TypeOK` and the way rows change: `RowSteps` |
| `SharesAreBought` | `NoSharesFromNowhere` | `RequestsInv`: only finitely many requests have come so far, so their shares have a sum; `CopyCovered`: the shares a goroutine will write are no more than the holding opened with and purchases *before* it added, its own counted in once it writes |
| `SerialLogMatches` | `HoldingMatchesLog` | under `Serial` (`MaxInFlight = 1`, `MaxFaults = 0`).  `SerialInv`: the copy of the one request in flight is the row (`Current`), an entry of the log is written at its trade's turn (`LogKept`), and shares and log balance when the half of a trade under way is counted in (`Balanced`) |
| `SerialTradesAsOne` | `TradesAsOne` | the refinement, under `Serial` and `Finite` (finitely many requests and holdings, so that `Position` has a greatest number of shares).  `Capped` bounds the shares that have been bought, then every step of a handler is a step of `Position` or none |

`SerialStep` says what one step of any handler does to a holding when no other is in
flight; `SerialInv` and the refinement are both proved from it.  The hypothesis `Serial` is
what the properties are about: two requests in flight break them (section 7).

The lemmas `RowSteps`, `LogSteps` and `LocalSteps` say once, over all actions, how a
row, a log entry and a goroutine's copy can change; the invariants are proved from
them and not from the actions.

The same module proves of `Saving`, from `SavingAssumption` (stocks and assets have
different identifiers, there is an asset to be had) and `HoldingsAssumption`, for any
number of savings, editors and stock handlers at once, failures and restarts:

| theorem | property | argument |
|---|---|---|
| `SavingTypeCorrect` | `SavingTypeOK` | holds mutual exclusion: a saving past the lock is the holder of the mutex, and every way out of `ApplySaving` gives it back |
| `EntryMatchesCredit` | `EntryIffCredited` | `SaverOK`, by where a saving stands: an entry from the statement after `entry` to the end of the rollback, unless a request deleted it (`Removed`), no credit before the last statement that can fail, and a credit only with an entry or a deleted one |
| `SavingsKept` | `SavingsAddUp` | `CopyFresh`: as long as no patch or stock handler has touched the row, what a saving will write back is what the row has and its own amount, because the mutex keeps other savings away; the row has what it opened with and the amounts of all savings that credited it (`SumOf`), and an identifier that has not been handed out opens at zero |

Each action of a saving is shown to be a `SaverStep` (what one saving may do to mutex,
entry, tables and credit), each other one an outside step; the invariant is proved of the
two.  The steps of the stock handlers are those of `Holdings`, and their lemmas carry over.

Both components speak of sums over a set of requests, savings or log entries.  `SumOf` (of
`Sums`) is the fold of the community modules; that a sum grows by what is added to the set, whatever
the order, and moves with one element (`SumTake`, `SumPart`, `SumMove`) is proved
here from its definition.  The prover cannot instantiate an induction theorem of the library, which
takes an operator, so these are proved by the smallest subset for which they fail
(`SmallestSubset`): proper inclusion on the subsets of a finite set is well founded, a
theorem of the library that takes none.

`ArithmeticProofs` proves of `Tax`, from `TaxAssumption` (prices and rates are positive, a
plausible rate is above 1: it is 700 in the code), for any people, holdings, prices, trades
and years:

| theorem | property | argument |
|---|---|---|
| `BasisIsPaid` | `SellableAsPaid` | `PaidInv` adds that rows and payments are numbers, and is inductive.  `BlendedIsExact` says that the blended average times all shares is what all shares cost; a bad basis becomes 0 and fails the check; a basis in dollars implies the rate 1 and fails it too |
| `SaleMovesTax` | `SaleKeepsTotal` | an action property, under `Finite` (finitely many people and holdings, so that there is a sum).  `GainsInv` types what has been realised.  `SaleGains` and `SaleUnrealized`: a sale moves one person's gain from the unrealised to the realised, and nobody else's; so the year's tax rises by the difference that `LiquidationTax` then no longer announces (`SaleBilled`, `SaleAnnounced`), in every case of a gain, a loss and a deduction that is used up |

`BasisIsPaid` says of prices what `UnknownNeverSold` and `BasisConsistent` say of the
purchases a basis is blended from: there whether a basis passes the check is left open, here
it is computed.

The same module proves of `Projection`, from `ProjectionAssumption` (the range of growths is
not empty and the halvings exhaust it, inputs are what `IsInput` says):

| theorem | property | argument |
|---|---|---|
| `TableIsChart` | `TableMatchesChart` | `ProjectRolls`: after `k` months (`Rolled`) the chart has those months, and the row of each year has the sums over the points of that year and the worth of the last one.  One month (`RolledStep`) goes on with the last row or adds one, because the year of the next month is the same or the next (`YearsPass`) |
| `PaymentsRaised` | `RaisesCounted` | `RaisesAreCounted`: the difference of years, with its corrections for the months, is the number of raise months after the base (`RaiseMonthsCounted`, month by month), and less than one where there is none.  `SumNonzero`: a holding that does not pay in a month adds nothing |
| `PlanReaches` | `PlanReachesTarget` | `SearchInv`: while it halves, the target lies between the ends of the two growths (`Bracket`) and what is left of the range is at most the power of two of the halvings that are left.  That a greater growth ends higher is not needed, so it need not hold |

What `Project` and `Power` compute they compute by recursive functions, and an induction
theorem of the library takes an operator.  `LeastNumber` stands for it: a set of numbers up to
`n` has a least one, from the well-foundedness of inclusion again, so a claim about numbers
is proved of the least that fails it.  That way a recursive function exists (`PowersExist`,
`RollsExist`), satisfies its equation (`PowerSolves`, `ProjectSolves`) and keeps an invariant.
The lemmas on sums stand here once more because a module that extends both `Tax` and
`Holdings` would define the names they share twice.

The other proof modules each rest on one inductive invariant.  The properties say what
is true of requests that have been answered; the invariant adds what a goroutine in the
middle of its handler holds, and, where only an overlap may break the property, that
whatever a request has read and is not true any more was changed by a request that had
not been answered when it began.  Each invariant has been checked by TLC on the instance
of its run before it was proved.  Each proof has one lemma per action.

`PostingProofs`, from `PostingAssumption` (bills and dividends are told apart, there is a
month):

| theorem | property | argument |
|---|---|---|
| `PostingTypeCorrect` | `TypeOK` | with `LocalOK` and `HoldsOK`, which say what is held at each step |
| `BillsPostedOnce` | `BillsOnce` | `TodoOK`: a bill that is still to be posted has no entry by a request that was answered before this one began, so a posting can only double one it overlaps with; `Links` that an entry nobody edits is linked to its own bill.  For loans: `Named` and `BillStands`, that a loan and a bill nobody renames keep name and title, so that `FindLoanBill` finds the bill; `LoanOK`, that a request whose loan has a standing bill from before makes none |
| `AnswersAreComplete` | `AnswerIsComplete` | `ListedOK`: a bill that was listed is still to be posted, or has its entry, while nobody edits it by hand |
| `DividendsPostedOnce` | `DividendsOnce` | `HoldsOK`: a mark only after the entry; `MarkedOK`: a dividend that was marked is no later request's |

`RoadmapProofs`, from `RoadmapAssumption`:

| theorem | property | argument |
|---|---|---|
| `RoadmapTypeCorrect` | `TypeOK` | with `LocalOK` and `Owners`, which say who wrote what is stored |
| `StaleLineNeedsOverlap` | `BaselineFollowsChanges` | `Lines` of stored plan lines, `DrawnOK` of the lines that goroutines hold: they disagree with a goal or an assumption only if its writer was not answered before the projection began |
| `OneGoalAndItsPlan` | `OneGoalOnePlan` | `GoalsOK`: whoever will insert a goal began before any goal was answered for; `PlanOK`, while nothing is changed, has the stored line in place when it is read again |
| `PostedSnapshotsInOrder` | `PostedSnapshotReplaced` | inductive with `Owners`: a post is written before its answer, so none is still to land when a later request begins.  Nothing like it holds of what the background writes |
| `StoredLineStays` | `BaselineKept` | an action property: every action deletes the line or leaves it |

`SortOrderProofs`, from `SortOrderAssumption` (the rows there are at first are distinct,
are not requests, and belong to groups named after one of them):

| theorem | property | argument |
|---|---|---|
| `SortTypeCorrect` | `TypeOK` | with `ListsFit` and `RowsNamed`: a name in a list that is gone does not come back, so no new row slips under a lock |
| `OnlyOverlapDisorders` | `DisorderNeedsOverlap` | `ListComplete`: without overlap the list of the one request that places rows has every row (an injection of as many places as there are rows is onto them), group by group; `RowFits`: a new row ties and splits nothing.  What the backfill split may stay so (`LeftApart`) until a reorder is answered, and `ListComplete` shows that then it no longer is.  `NewPosition` is a least or a greatest element, which exist because positions are numbers and `Bounded` |
| `ReorderIsOneStep` | `ReorderAsOne` | the refinement.  `LocksKept`: a transaction has locked every row of its list that it has come to and that exists, so that at its commit `Held` is the whole list (`HeldRows`) and what becomes visible is `Arrange` of `ManualOrder`; every other step is `Ask`, `AddOrRemove`, `GiveUp` or none |

`PriceCacheProofs`, from `PriceCacheAssumption` (TTL and timeout are at least a tick):

| theorem | property | argument |
|---|---|---|
| `CacheTypeCorrect` | `TypeOK` | with `LocalOK` |
| `EntriesKeptForTTL` | `TTLIsKept` | `CacheOK`: an entry is stored at most a timeout after it was seen; `EntriesLast`: without a refresh or a crash only a later answer replaces it |
| `RefreshIsEffective` | `RefreshTakesEffect` | `RefreshClears`: nothing in the cache was fetched by a request that was answered before a refresh began |
| `TableNeverGoesBack` | `TableGoesForward` | `CacheGoesForward` and `AnswersGoForward`: neither the cache nor a later answer has what an earlier one of the same exchange had got over.  `AnswersWereSeen` bounds the age of a live value against the time it was asked for, which is by how much a price of another exchange can be older |

`DiaryPhotosProofs`, from `DiaryAssumption`:

| theorem | property | argument |
|---|---|---|
| `DiaryTypeCorrect` | `TypeOK` | with `LocalOK` |
| `ShownFilesAreStored` | `ShownIsStored` | `Placed` and `Removed`: a photo in a list was stored, no file is stored twice, and a delete removes files of its own diary only |
| `StoredFilesAreShown` | `StoredIsShown` | `Deleting`: a delete misses only what was added to its diary after it had read the list |
| `AnsweredStays` | `AnsweredIsKept` | `UploadKept` and `PatchKept`, with `Copied`: a copy that was read after a patch was answered shows it, or a reason not to |

`AccountsProofs`, from `AccountsAssumption`:

| theorem | property | argument |
|---|---|---|
| `AccountsTypeCorrect` | `TypeOK` | with `Named` and `RefersOK`: a couple that users and invitations refer to has its first user |
| `SignUpsInTurnDoNotCollide` | `SignUpsCollideOnlyOnOverlap` | for subject, invitation and role: what a request has looked up and found free is taken since only by a request it overlaps with (`SubOK`, `LetterOK`, `RoleOK`); an invitation that was used and is open is about to be closed (`OpenOK`) |
| `ChosenDayIsKept` | `StartDayKept` | `DayOK`: a request that names no day holds the last that was chosen, or one that was superseded |

Model-checked only:

* The two liveness properties, `SavingAnswered` and `EveryRequestEnds`: TLAPS does not
  reason about ENABLED.
* The two runs that end with a counterexample.

## 7. Where code and comments disagree

Two are runs that TLC ends with a counterexample.

* `tax_domestic`: `portfolio` leaves domestic stock out of the tax, as its comment says
  it must (`handler.go:1105`), and `AnnualGainsByUser` sums the sales of every currency,
  so both handlers tax a domestic gain that was realised and let it use up the deduction.
* `accounts_spouses`: the role that is "still available" (`auth_handler.go:85`) is wife
  whenever husband is taken, and `createInvite` does not count; the third member of a
  couple is its second wife.

The others are outcomes of the models that the properties except, by overlap or by
name, so that what remains can be checked:

* Holdings: read, compute, write back the whole row, without a transaction or a
  version.  A patch of a memo undoes a purchase, while `stock_transactions`, "the audit
  log for tax calculation", keeps it.  `HoldingMatchesLog` is checked for requests
  served in turn.
* The average price of a dollar holding moves without its won cost basis, by a saving or
  by a typed average, and the next sale computes its gain from the old basis.
  `BasisCoversAverage` excepts holdings with a typed average.
* "Already-applied ones are skipped" does not hold of two requests at once;
  `transactions` has no unique key on bill and month.  `BillsOnce` excepts overlap, and
  so does `DividendsOnce`.
* "The next query draws it anew" does not hold after a projection that overlapped the
  change; its plan line stays.  `BaselineFollowsChanges` excepts overlap.
* "A stale client can never leave gaps or duplicates" (`handler.go:1477`) does not hold:
  the identifiers of deleted rows are counted too (`pg_assets.go:182`), which leaves gaps,
  and rows the list does not know keep their positions, which the list then gives to
  others as well: duplicates.  `DisorderNeedsOverlap` is about ties and splits, and counts
  a request whose list others changed the rows under as one that overlaps them.
* The backfill numbers rows by age (`schema.sql:151`), while the repository keeps the rows of
  a ticker together; a stock held by both spouses may stay split around another until
  somebody reorders.  `DisorderNeedsOverlap` excepts just that.
* A loan's bill is known by its title alone (`handler.go:1519`): when the loan or the bill has
  been renamed, a second request, in turn, bills the loan again, and a bill of the same title
  made by hand or by another loan stops it.  `BillsOnce` excepts what is renamed.
* An entry linked to another bill by hand makes that bill look applied
  (`handler.go:2057`); what repeats or is missing because of such an edit is excepted.
* Deleting or editing the entry of a saving by itself (`handler.go:386-409`) leaves the asset
  credited; nothing takes the amount back.  `EntryIffCredited` excepts entries that a request
  deleted.
* The cache is keyed by symbol and exchange, `price_snapshots` by symbol
  (`schema.sql:72`): a cached price of one exchange overwrites a newer one of another, in
  turn.  `TableGoesForward` bounds by how much it is older.
* The background snapshot of a projection may overwrite one that was posted after the
  projection was answered (`roadmap.go:515`), and stays until the next one is taken.
  `PostedSnapshotReplaced` is about where posted snapshots land.
* An invitation whose acceptance stopped before it was marked admits another person;
  `SignUpsCollideOnlyOnOverlap` excepts that.
* For nine hours of a new year a sale is billed to the old one, where the announced tax
  no longer looks; `SaleKeepsTotal` excepts them.
* A plan whose target month is not after its anchor has no month; the search takes its
  net worth for 0 and answers the greatest growth.  `PlanReachesTarget` excepts it.

## 8. What is not modelled

* How a dividend history is condensed to payments and raises (`dividend_history.go`),
  and the cached slice that two projections sort in place without the mutex
  (`dividend_history.go:108`): planned, section 2.
* Plain tables (schedules, categories, fridge items, side dishes): one statement per
  request and no invariant between rows.
* Start-up, connection pool, tokens, routing: library calls and I/O.
* The rounding of `float64`: shares, averages, growths and raises are whole here, so
  "nothing left" is exact and a blended average loses nothing; a sale of fractional
  shares may leave dust (`handler.go:911`), and a plan line truncates each month's
  dividend to a won before it is shown.
* In `Tax`: a typed average (`Holdings` has it), holdings that appear later, and a
  holding of which not even a stored price is known, which `portfolio` leaves out of
  the announced tax.  In `Projection`: taxes, exchange rates and shares of a payment,
  which multiply it by a constant.
* Formatting, validation messages, and reads that only build a reply (summaries, the
  roles that `getInviteByCode` answers).
* The market's and the bucket's protocols: only answers and failures are seen.
* In `Posting`: a bill that changes its kind, an asset that changes its type (to or from a
  loan) or loses its payment day.  In `Saving`: what an edited entry says, which nothing
  there reads.
* An `orphan` entry, background snapshots out of order and a saving lost to a patch
  of its asset are in the models as what they are; no property excludes them, because
  the code promises nothing there.  The list of hazards in `PROJECT.json` says which.
