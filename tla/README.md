# A verification of the trading platform

TLA+ modules, TLC runs and TLAPS proofs about the paper-trading platform of this
repository: a PostgreSQL schema whose functions and triggers move money and shares
(`schema.sql`), a Flask application that calls them (`backend/`), a worker that matches
and expires orders (`backend/worker.py`), and the scripts that feed prices.

Every definition is translated from the code; `PROJECT.json` names, for each, the lines
it stands for. What is not part of the repository (PostgreSQL's locks and snapshots,
TimescaleDB's aggregates, psycopg2's pool, APScheduler, Flask-Limiter, a browser) is
modelled by what the code relies on and marked external.

## 1. The system

| Part | State | Operations | Talks to | What makes it correct |
|---|---|---|---|---|
| Trading core (`schema.sql`, handlers of `backend/app.py`) | wallets, audit_logs, orders, trades, portfolio, realized_pnl | deposit, withdraw, place_order, execute_trade and its triggers, process_limit_orders, expire_stale_orders | prices cache, scheduler | money and shares are conserved, every change is logged, an order is filled at most once and never after it was cancelled, the history has one version per instant |
| Background jobs (`backend/worker.py`, `start_scheduler`) | the running jobs | matching run every 30 s over all assets, expiry sweep every 5 min, shutdown | trading core | each job runs once per interval; a due order is eventually settled |
| Database access (`backend/database.py`) | the connection pool | get_pool, transaction, close_pool | everything | commit or roll back, and always give the connection back |
| Market data (`scripts/`, `schema.sql` section 5) | market_data, latest_prices_cache, market_data_daily | live ticks, backfill, demo seed, reset, aggregate refresh | trading core reads the cache | the cache shows the newest price; the aggregate agrees with the data |
| Money (`backend/money.py`) | none | parse, quantize, format | handlers | no value changes between parsing, column and display |
| Accounts (`backend/app.py`) | users, cookie sessions, CSRF tokens | register, login, logout | every handler | a session stands for a user that exists |
| Reports (`backend/app.py`, `analytics_queries.sql`) | none | list of trades, charts, statistics, P&L, order book | all tables | no trade is left out of the pages; a chart shows what is stored |
| Rate limits (`create_app`) | counters per process | count, reset | every handler | the limit bites where it should |
| Migrations (`scripts/migrate.py`) | schema_migrations | apply, record, adopt a baseline | schema | each file applied once, in order |
| Dashboard (`templates/`, `static/js/`) | the selected asset, the last answers | polling loops, order form | HTTP endpoints | what is shown belongs to what is selected |

How they interact: handlers and jobs run PL/pgSQL functions, each in one transaction of
`database.transaction` at isolation level READ COMMITTED; triggers on `trades` and
`wallets` run inside the statement that fires them. The only communication between
transactions is through rows: row locks, and the snapshot each statement takes.

What is hard here:

* the statements of different transactions interleave, and a statement that waited for a
  row lock goes on with a row other than the one it found;
* NOW() is the time a transaction began, not the time it changes a row;
* the matcher fills a whole batch in one transaction: one failure undoes all of it;
* buying locks wallet then portfolio, selling portfolio then wallet: deadlocks;
* more than one process may run the same job;
* connections and processes are lost in the middle of a transaction;
* state is kept where a reset of the database does not reach it: cookies, the ledger of
  the migrations, the cache of a process;
* the page shows the answers that come, in the order in which they come.

`PROJECT.json` lists each hazard at its line with the properties that cover it.

## 2. Modules

| Module | What it models | Composed with |
|---|---|---|
| `RowLocks` | a table row as PostgreSQL keeps it: committed value (`old`), value the lock holder has given it (`new`), lock holder (`lock`) | EXTENDed by `Exchange` |
| `Exchange` | the trading core, the two jobs, crashes and deadlocks: one action per SQL statement that locks a row or takes a snapshot | |
| `Brokerage` | the abstract specification: cash, positions and an order book that change in single steps | |
| `Sums` | sums over things that are numbered, as orders are, by a recursive function | EXTENDed by `Brokerage` and `ExchangeBooks` |
| `ExchangeBooks` | cross-table properties of `Exchange`, what holds of its rows in between, and the balances, positions and book the refinement of `Brokerage` maps to | EXTENDS `Exchange`; INSTANCE `Brokerage` |
| `Scales` | digits: parsing, quantizing and the scales of the columns, for one account | stands beside `Exchange`, which has whole units |
| `Scheduler` | the processes that may run the jobs, intervals, the reloader, signals and shutdown | gives the condition and the fairness `Exchange` assumes of its jobs |
| `ConnectionPool` | `backend/database.py`: the pool, the three kinds of callers, lost connections, `close_pool` | below every other module |
| `MarketData` | ticks, cache and aggregate; the feed, `seed_demo`, the refresh policy; the charts | gives `Exchange` its prices |
| `Accounts` | register, login, logout, cookies, requests on the way, a schema built anew | |
| `WalletBalance` | `_wallet_operation` in its statements, beside other payments and trades on the account | on the level of `Brokerage`: a trade is one step |
| `TradeList` | paging through `/api/transactions` while trades are committed out of order | |
| `RateLimit` | fixed windows per address and endpoint, one store per process or one for all | |
| `Migrate` | `scripts/migrate.py`: runners, failing files, edits, kills, `init_db` | |
| `Dashboard` | the page of the markets: selection, loops, late and failed answers | |
| `PortfolioTotal` | the total at the top of the page, added up from strings | |
| `MCExchange`, `MCConnectionPool`, `MCRateLimit` | values of constants and symmetry for TLC | `MCExchange` EXTENDS `ExchangeBooks` |
| `Application` | `backend/app.py` and the processes it runs in: its parts side by side | EXTENDS `Accounts`; INSTANCEs of `WalletBalance`, `TradeList`, `RateLimit`, `Scheduler` |
| `MCServices` | the application, the digits and the market data for TLC | EXTENDS `Application`; INSTANCEs of `Accounts`, `Scales`, `MarketData` |
| `MCProcesses` | what runs for ever beside the trading core, for TLC, with the fairness of each | EXTENDS `Migrate`; INSTANCEs of `Migrate`, `Scheduler`, `ConnectionPool`, `MarketData`, `RateLimit`, `Dashboard` |
| `ExchangeProofs`, `BooksProofs`, `BrokerageProofs`, `ScalesProofs`, `MarketProofs`, `PoolProofs`, `WebProofs`, `MigrateProofs` | theorems and their proofs (section 4) | `BrokerageProofs` EXTENDS `BooksProofs`, which EXTENDS `ExchangeProofs` and `ExchangeBooks`; `WebProofs` EXTENDS `Application`; the others the module they are about |

Definitions with a comment "Mutant:" are changed forms of the one that follows, of the kind
a bug would have; `PROJECT.json` pairs each with the property it breaks.

### Exchange

`wallet`, `holding` and `orders` are tables of rows. Three tables of the schema are only
ever written by a transaction that holds a certain other row, and that row carries them:
a wallet its `audit_logs` rows, a holding (the current portfolio row of a user and an
asset) its closed versions, an order its `trades` row with the `realized_pnl` row and the
`REALIZED_PNL_BOOKED` log row of a sale. Orders are numbered by the request that places
them. `cache` is `latest_prices_cache`, `now` the database clock. `tx[s]` is the open
transaction of a connection: `pc` names its next statement, `start` is its NOW(), `order`
the order it fills, `todo` the rows a job has found and not reached. `left[s]` holds the
assets a matching run has still to process. `seen` is the one subtle field: when a
`SELECT ... FOR UPDATE` on `portfolio` finds a version locked by another transaction, it
waits for *that* row; if the row is no longer current when the lock is free, READ
COMMITTED drops it, and the statement returns no row although there is a newer version.
`seen` remembers which version that was, as its number (`Version`), or 0 if it found none.
A trigger that found none does not wait at its SELECT but at its INSERT, on
`idx_portfolio_unique_current`, and fails when there is a current version by then
(`TradeFails`).

| Action | Code |
|---|---|
| `RequestCash`, `MoveCash` | `/wallet/deposit`, `/wallet/withdraw`; the UPDATE of deposit_money / withdraw_money with trg_audit_wallet_changes |
| `PlaceOrder` | `/order`: place_order up to the INSERT, with a market order going on to execute_trade in the same transaction |
| `CheckFunds`, `CheckHolding` | the SELECT ... FOR UPDATE of execute_trade and its check |
| `WaitForHolding` | that SELECT on `portfolio`, or the trigger's, sees its snapshot while another transaction holds the position |
| `UpdatePortfolio` | INSERT INTO trades: trg_update_portfolio_after_trade, which fires first (by name) |
| `UpdateWallet` | trg_update_wallet_after_trade, the audit trigger, `status = 'filled'` |
| `StartRun`, `ReadPrice`, `OpenCursor`, `NextOrder` | process_pending_limit_orders, and process_limit_orders for one asset |
| `FindStale`, `ExpireOne` | expire_stale_orders: its UPDATE scans a snapshot, then locks row by row and tests its WHERE clause again |
| `Commit`, `Raise`, `Crash` | database.transaction: commit, exception, lost connection |
| `AbortDeadlock` | PostgreSQL's deadlock detector |
| `PriceTick`, `Tick` | a new price in the cache; time |

`Book`, which `ExchangeBooks` gives to `Brokerage`, is the committed table of orders, with one
difference: an order that the expiry job has cancelled while a matching run has it in hand
(in `todo`, or locked) is shown as open. The run may fill it, which is then the abstract
`Settle`; or the run ends without it, which is then the abstract `Cancel`. Cash and positions
are the committed ones.

`execute_trade` marks an order it refuses as cancelled and then raises; the exception
rolls the mark back with everything else, so the refusal is `Raise` and nothing more.
A request that is refused before anything is written changes no state and is not an
action; a SELECT without a lock whose result the transaction does not use is left out.
Money and shares are whole units; the average price is rounded to a unit, which shows the
effect of rounding larger than it is. A balance that does not fit `NUMERIC(15,2)` is one
above `MaxBalance`.

### Scales

All numbers are counted in grains, the digits of a quote; `Cash`, `Share` and `Price` are
the steps of the columns, so `Quantize` is what `to_decimal` (ROUND_HALF_UP) and an
assignment to a NUMERIC column do. `ToDecimal` refuses before it quantizes, as the code
does, so an amount can become 0. `Deposit`, `Withdraw`, `PlaceMarket` and `PlaceTarget` are
the requests, `Match` the matcher, which compares the exact quote and pays the rounded one.
`exact` and `paid` are history: the balance without rounding, the prices paid.

### Scheduler

`state`, `wait` and `running` of each process. `Schedules` is who schedules: a worker
always, `python -m backend.app` as its main block decides (reloader, DEBUG,
ENABLE_SCHEDULER), gunicorn's workers never. `Fire` skips a run whose last one is under way
(max_instances=1), `HandleSignal` and `Shutdown` are worker.main, `Kill` is the system's.

### ConnectionPool

`idle` and `used` are the two lists of the pool `_pool` refers to, `conn` the client's view
of each connection (link, transaction status, autocommit), `call` what each thread does.
Uses: `transaction` (database.transaction), `raw` (ingest_data's get / release pairs) and
`refresh` (seed_demo's autocommit session). `Build` is get_pool's creation under its lock,
`ClosePool` may come at any step, `Break` takes a link down, which the client notices at its
next use. A connection is an object, so a new one has a name of its own.

### MarketData

`rows` are committed ticks, `daily` the rows the aggregate reflects, `proc` where each
process is: the feed goes from backfill (`CheckHistory`, `FetchHistory`, `Insert`,
`RefreshAggregates`) to live (`FetchPrice`, `Insert`), the seeder through its reset
(`Truncate`, `Clear`, `CommitReset`; the table is locked from TRUNCATE to COMMIT),
`Generate`, `InsertSeries` and `RefreshAggregate`, or `RefreshFails`, which is logged and
ends the script like the other. An INSERT commits with its trigger, so it
is one step; between the stamping of a price and that step others write. `Chart` and
`DayChart` are what get_ohlc_history and get_price_history return. Time is in units of
which `Day` make a day.

### Accounts

A session is in a cookie (`cookie`), a request carries the cookie of the moment it was sent,
and the answer may set it again (`set`; Flask refreshes a permanent session with every
answer): that is the interleaving here. Each handler is one step, as each has one statement
that counts and UNIQUE constraints decide between two INSERTs. `Letters` stands for names
and addresses but for case (CITEXT). `left` is history: whether a browser that received the
answer to a logout still had a request with a session on the way ("late") or not ("out").

### WalletBalance, TradeList

`WalletBalance` has the statements of `_wallet_operation`: the UPDATE of deposit_money or
withdraw_money, which waits for the row and reads it again, the SELECT after it, the COMMIT, a
statement that fails. `due` is history, what the account has by everything that was
committed, and `existed` every value of it since the request was done, so that the property
does not take the balance from the row it is about. `Exchange` shows that a trade is one
step for its readers (`IsBrokerage`), which is why it may be one here. In `TradeList` a trade
has the stamp of its transaction's start and is seen at its commit; `Pages` is the set of
pages ORDER BY ... LIMIT ... OFFSET may return, rows of one stamp in any order.

### RateLimit, Migrate, Dashboard

`RateLimit`: a window begins with its first request and is counted down by `Clock`; several
limits are counted shortest first up to the first that is exceeded. `asked[c][e][t]` and
`served[c][e][t]` are history: what a client asked for, and was served, in the last `t` units
of time, so that a bound on a span is a bound on one number. `Migrate`: `effect` is
what the database really has of each file, `ledger` what schema_migrations says; `Execute`
and `Record` are apply_one, one transaction. `history` and `overlap` are history: what has been
applied, and whether two runners have been up at once; no guard reads them. `Dashboard`: `flight` is the set of requests not
answered, each with what was selected when it was sent; `shown` is what each part shows.
`PortfolioTotal` adds amounts the way the page does: JSON delivers them as strings, and the
concatenation of two of them is no number (`Concatenated`).

### Modules that run several components

`Application` puts `Accounts`, `WalletBalance`, `TradeList`, `RateLimit` and `Scheduler` side
by side: in every step one of them moves and the others stay, in any order (`AppNext`). They
share no state. A step of one cannot enable, disable or change anything of another, which is
what the lemma `EachPart` of `WebProofs` says: a behaviour of the application is one of each
part's specification. The product holds nothing for TLC that the parts do not, so in
`MCServices`, as in `MCProcesses`, a behaviour is about one part at a time. The variable `part`
says which; the variables of the others stay as they began. Every component thus has all
behaviours of its own specification, within the bounds of the part, and none else, and an
invariant about it that does not mention `part` is true of the others as they began. Three
components have more than one part, with different bounds: more requests on the way of one
browser or more browsers, prices that change or processes that are killed, two web processes
that stay or one that is replaced.

## 3. What the runs check

All bounds are constants (`MaxCalls`, `MaxNow`, `MaxCrashes`, ...); no action is cut off by
anything else. Symmetry is used for interchangeable connections and threads, in runs that
check invariants only.

### Runs that pass

| Run | Instance | Shows |
|---|---|---|
| `market` | two connections, three requests, a crash, a price change, balances up to 6 | trades, deposits and withdrawals on one account, one of them beyond the width of the balance. `AuditChain`: the log leads without a gap from the opening balance; `PositionsAddUp`: positions are what was bought less what was sold; `TradesArePaidFor`: each trade has its balance change; `CostBasisHolds`: realized profit and average price account for what was paid, up to a stated rounding error |
| `orders` | market, limit and stop-loss orders and withdrawals beside a matcher and an expiry job, two requests, a crash, two prices | `NoLateRefusal`: a fill that passed the check of execute_trade is never refused by the triggers after it; `FilledOnce`: an order is filled once; `IsBrokerage`: whatever interleaves, the system is the abstract brokerage, in which cash, shares and the order change in one step or not at all, and no order is settled after it has left the book. Deadlock is checked |
| `fair` | a connection that places market and limit orders, a matcher and an expiry job, two requests, money for every order, one price | `FilledIsFinal`: a filled order stays as it is, an expiry that had found it open included; `TransactionsEnd`: every transaction ends; `DueOrdersSettle`: each due order settles. Deadlock is checked |
| `pool` | two threads, each of which may be any of three kinds of callers, a pool of one to two, two lost links, one `close_pool` at any step | `ExclusiveLoan`, `PredictableSession`, `ErrorMeansUndone` (a refused or failed call has changed nothing, unless the pool was closed or a link lost in the middle), `NoSlotLost` (for `database.transaction`) |
| `services` | parts: two browsers that register, log in and pay in, one request each ("accounts"), the same under a reset ("resets"), a browser with two requests on the way ("logouts"); two payments on a wallet beside trades ("wallets"); four trades and two page sizes ("trades"); a client of two web processes that stay ("limits") and of one that is replaced ("restarts"); docker-compose.yml and Flask's reloader ("compose", "reloader"); two trades with any payments, raw amounts below half a step and above the magnitude ("digits"); a feed and a seeder that may clear everything ("prices"), which may fail once and be killed and started again ("killed") | `OneOfEach`: no two users share a name or an address but for case; `SessionTrue`, `DepositCounts`; `LogoutEnds`: a browser that was told it is logged out, with nothing older on the way, has no session; `BalanceExisted`: a payment returns a balance the account has had; `NoTradeSkipped`: no trade that was there is left out of the pages; `AllowanceHolds`: what is served in any span is at most two windows for each store; `PacedIsServed`: who polls within the limits, from an address of its own, is never refused; `OneRunAtATime`: of each job, in either deployment; `StopsClean`: a worker that has stopped has abandoned no run; `DriftBounded`: half a cent per trade at most is lost; `TargetKept`: a target is kept although the exact quote is compared and a rounded one paid; `AverageBetween`: averages stay between the prices paid; `CacheShowsNewest`; `SeedShown`: once seed_demo has ended and its refresh has not failed, the chart has its days |
| `processes` | parts: two migration runners with edits, faults and a reset ("runners"), a runner that is run again ("deploys"), a worker with two jobs whose runs may outlast their interval ("worker"), two threads and one connection ("pool"), a feed and a seeder ("quotes"), two clients of the login limit ("retries"), the chart and the book of a page ("page") | `LedgerAccurate`: until a reset, the ledger lists what the database has; `AppliedInOrder`: as long as no two runners are up at once, each migration is applied once and in the order of the numbers, over all runs; and under fairness `DeploysArrive`, `JobsGoOn`, `CallsReturn`, `QuotesKeepUp`, `RetriesAreServed`, `PageSettles` |

Why these bounds are enough: two connections, one matcher and one expiry job give every pair
of conflicting transactions the code can run. A fill locks one wallet, one position and one
order, and conflicts are between two transactions at a time (a deadlock over wallet and
position needs two). Three requests give a position a history of two closed versions; two, a
batch of two orders, one of which expires while the run has it, or an order and a third party. Five payments and trades are enough for two payments
on one wallet, with a trade before, between and after them; four requests of a browser for a
registration, a login, a logout and one that was on the way before it. The limits of a login
are 3 in one unit of time and 4 in three, at up to 6 requests a unit, so that the longer limit
is used up over two windows. Eight grains make a dollar, four a step of prices and cents, and
two a step of quantities, and the quotes 1, 3, 5 and 11 are paid as nothing (refused), 4, 4 and 12: an
average of two prices is rounded, and products do not fit the steps. Intervals 2 and 5 overlap in every way. Two threads on a pool of one
exhaust it; on a pool of two, two lost links leave nothing of it.

Deadlock is checked except in `market`, `services`, `processes`, `sell_race`, `logout` and
`total`: in each of them the model may rightly stop, once the bounded requests, edits, clicks or trades are
used up, or when a worker has shut down.

### Where the code does not do what the repository says

Each is a finding of `PROJECT.json` with the sentence it contradicts:

| Run | Shows |
|---|---|
| `two_matchers` | two processes that schedule the matcher (the default, if app and worker are started as README.md says) fill one order twice: the cursor's snapshot is not checked again under the lock |
| `expiry_race` | for the same reason a matcher fills an order the expiry job has just cancelled |
| `sell_race` | a sale that waits for another trade in the same asset is refused as if the position were empty |
| `logout` | an answer that was on the way before the logout, and comes after it, sets the session cookie again |
| `allowance` | two processes serve a client more than two times the allowance within the span of a limit, as a span meets two windows of each |
| `total` | with two positions the total at the top of the page is a concatenation, shown as $0.00 |

`FilledOnce` is thus checked twice: it holds for one matcher and fails for two. `logout` and
`allowance` have their counterparts in `services`, which say what the code does ensure:
`LogoutEnds` and `AllowanceHolds`.

### What the properties leave out, and why

These behaviours were met while the code was modelled. They are why some properties above
have a condition; no run is about them.

* A transaction that began earlier and trades later closes a portfolio version before it
  began, since NOW() is the transaction's start (`schema.sql:362`).
* The REALIZED_PNL_BOOKED row of a sale of the whole position is 0: the wallet trigger reads
  the average price after the portfolio trigger has closed the version (`schema.sql:308`,
  `:331`). Wallet history lists that row among the changes, and lists rows by their
  transaction's start, so what it shows need not add up (`app.py:345-358`).
* Two of the reports, `portfolio/stats` and `pnl_summary`, combine figures of two
  transactions; with a trade in between, the sum is one that never held (`app.py:417`,
  `:793`). Reports of one statement are of one moment by READ COMMITTED alone, whatever the
  code does. Neither kind is modelled.
* After `schema.sql` has been run again, a session from before may stand for nobody, whose
  deposit is still answered as successful (`schema.sql:612` does not test FOUND), or for
  another user with the same id. `SessionTrue` and `DepositCounts` hold until then.
* The feed's refresh of the aggregate runs inside a transaction, which TimescaleDB refuses
  (`ingest_data.py:92`): what it backfills is not shown in a chart until the policy comes to
  it. `SeedShown` is about seed_demo.
* A refresh that fails in seed_demo is logged and the script ends as if all were well
  (`seed_demo.py:143-144`); what it has inserted is then in the chart only as far as the
  policy reaches. `SeedShown` is about the ends without that failure.
* A backfill that is interrupted and run again inserts its bars twice, as no unique index
  lets ON CONFLICT find them (`ingest_data.py:54`).
* `schema.sql` drops every table but the ledger, which then lists what is gone
  (`schema.sql:13`); `LedgerAccurate` holds until then.
* Two migration runners started together both apply a file whose statements can be repeated
  (`migrate.py:117`); `AppliedInOrder` holds until two runners have been up at once.
* A request of historyLoop that fails ends the loop (`dashboard.html:829`); `PageSettles` is
  about a page none of whose requests has failed.
* One order that cannot be paid aborts the batch and the run behind it, each time
  (`schema.sql:445`); `DueOrdersSettle` is checked where everybody can pay.

### Fairness

| Component | Assumes | Because |
|---|---|---|
| `Exchange` (`FairSpec`) | WF of `StartRun`, `ReadPrice`, `FindStale`; WF of `AbortDeadlock`; SF of `Statement` | interval triggers never end (`JobsGoOn` shows it); PostgreSQL breaks deadlocks and queues the waiters of a row lock, so a waiter is served although others come in between |
| `Scheduler` | WF of time, `Fire`, `End`, `Shutdown` | a thread that can go on does; runs end (`TransactionsEnd`) |
| `ConnectionPool` | WF of each thread's step | threads are scheduled; a pool that is exhausted raises and does not wait |
| `MarketData` | WF of each process | the scripts are loops; kills are bounded |
| `Migrate` | WF of starting a runner and of its steps | a release is deployed again; faults are bounded |
| `RateLimit` | WF of time and of asking once more | only `RetriesAreServed` is about clients that keep asking |
| `Dashboard` | WF of timers and of each answer | timers of a page go off; failed answers are bounded |

All but the first are the conjuncts of `Fairness` in `MCProcesses`, each for the part it
belongs to. Nothing makes users call, prices move or connections fail.

## 4. What is proved

Every theorem is for all values of the constants: any number of users, assets, connections,
threads, processes, runners, browsers, prices, inputs and bounds. Every safety property and
every action property of a run that passes is a theorem, `IsBrokerage` among them.

| Module | Theorems | Inductive invariant |
|---|---|---|
| `ExchangeProofs` | `TypeCorrect`, `RowsStayCoherent`, `AuditIsComplete` | `Coherent`: a free row shows its committed value, a committed order stays an order, and each transaction has what its next statement needs. A matcher writes the price it read into an order it found, so types alone are not inductive. `Chains`: the committed and the pending value of every wallet are chained |
| | `FillsNeverRefusedLate` | `FillsCovered`: a purchase past its check keeps the wallet locked with the money in it, a sale the position with the shares in it, and whoever has changed a position holds its owner's wallet or is one statement from locking it. So a purchase that waits for a position, wallet in hand, never sees a change of it committed: why the defect of `sell_race` cannot hit a purchase |
| `BooksProofs` | `OneMatcherFillsOnce`, `OneMatcherLeavesFilled`, if at most one process schedules the matcher | `Once`: a row has at most one trade and has it when it is filled; what the one matcher has found and not reached is open or cancelled in the committed table and locked by nobody who fills it |
| | `OneMatcherAddsUp`, `OneMatcherCosts`, under the same condition | `Balanced`: the committed version of every position agrees with the committed fills, and the version a transaction is writing with those fills and its own (`Pending`), one statement before the order says so; a fill that is not committed holds the position and, once it is paid, the wallet (`FillHeld`), so that no two transactions have fills of one position in hand |
| | `OneMatcherPays`, under the same condition | `PaidUp`: in both versions of a wallet and its log there are, of each amount that is no deposit's or withdrawal's, as many changes as filled orders worth it. The wallet and the order change in one statement, by the same amount |
| `BrokerageProofs` | `ExchangeIsBrokerage`, the refinement of `Brokerage`, if at most one process schedules the matcher | `Deals`: what a transaction has locked and found is what its commit will show: a request that has been placed, orders that were found open and triggered, orders that have expired. `Standing`, of all of these, is what a step is proved from; `OthersInHand` says that no step changes what another's run has in hand. `Funded`: a wallet that is being written differs from the committed one by the worth of the fills and the payment its transaction will commit |
| `ScalesProofs` | `Types`, `Drift`, `Targets`, `Averages`, under `ScaleAssumption` | the order is one the handlers accept, and the average lies between the prices paid; rounding is bounded by lemmas on integer division |
| `MarketProofs` | `MarketTypes`, `CacheIsRight`, `DayChartIsRight`, under `MarketAssumption` | one reset at a time, with the table locked; the cache has nothing the reset has not read; a series is of one asset |
| | `SeedIsShown`, with one seed_demo at a time | `SeedKept`: what a seeder that has ended with its refresh has inserted is in the aggregate; `FeedsKnown`: no feed has anything in hand that passes for it |
| `PoolProofs` | `LoansAreExclusive`, `SessionsArePredictable`, `DoneIsDurable`, `SlotsComeBack` | idle connections are outside a transaction and not in autocommit; a call has the connection, mode and transaction its next step expects; a closed pool has none |
| | `PoolTypes` | `Limited`: no more than DB_POOL_MAX connections are idle or lent, of the names that there are, finitely many or not |
| | `FailedCallsAreUndone` | `Undone`: while no pool has been closed and no link lost, every connection is up, and a call that is on its way to an error has not committed; it shows why the two exceptions of the property are the only ones |
| `WebProofs` | `UsersAreDistinct`, `WelcomeIsTrue`; `SessionsAreTrue`, `DepositsCount` up to the first reset; `LogoutIsFinal`, with any number of requests on the way | the sequence of ids is ahead of the table; what is on the way carries a session of a user; a browser that is out has nothing with a session on the way but what a later login brings |
| | `BalancesExisted` | `WalletInv`: the row of a wallet is locked by the request that has updated it and by no other (`Locks`), so what its SELECT returns is the committed balance and its own amount (`Kept`); and the committed balance is what was committed adds up to (`due`) |
| | `TradesShown` | `ListInv`: a trade still to be shown that shares its stamp with none has at least as many newer ones as the offset of the next page |
| | `PacedAreServed` | `PacedInv`: a counter of an address that is one client's has, within its window, no more hits than the client has asked (`Own`), also after a restart |
| | `AllowancesHold` | `LimitInv`: what a client has been served in the last `k` units is at most the sum of what each store has room for (`Room`: what its window has let through and, where the span reaches back past the window, one window more), and a window for each restart. The sum is a sequence of partial sums (`Within`), with the stores numbered |
| | `OneSchedulerOneRun`, if at most one process schedules; `WorkersStopClean` | `Runs`: runs are of processes that schedule, one at a time, none where a worker has stopped |
| | `TypesHold` | the parts' own invariants, and `Counts` and `Waiting` for the accounts |
| `MigrateProofs` | `MigrateTypes`; `LedgerIsAccurate`, `StatusIsTruthful` up to the first reset; `RunnersKeepOrder`, of any number of runners that are up one at a time | what a runner has read as pending is above everything applied, until two have been up at once (`overlap`) |

How the results fit together: `OneSchedulerOneRun` says when at most one matching run is under
way, and docker-compose.yml, with its one worker and gunicorn for the web, is such a
deployment; the theorems of `BooksProofs` and `BrokerageProofs` are what that is worth.
`ExchangeIsBrokerage` is why a trade may be one step in `WalletBalance` and `TradeList`.

The hypotheses are needed. `two_matchers` is the run without the one of `OneMatcherFillsOnce`.
`expiry_race` shows why `ExchangeIsBrokerage` cannot be about the committed table of orders
when the expiry job runs beside the matcher: in it a row goes from cancelled to filled, which
is no step of a brokerage. The theorem is about `Book`, in which an expiry takes effect when no
matching run has the order in hand any more.
Section 3 says what happens without those about resets and runners.

How the proofs are laid out: one step per action and, under it, one per conjunct that the
action disturbs. Steps of other transactions are lemmas that only use what a step leaves alone
(`OthersReady`, `LeavesOthers`), and the actions of `Exchange` are put into a few shapes before
sums and logs are looked at (`StepShapes`). Sums are recursive functions on numbered things;
the lemmas about them (adding one, changing one, comparing two) are by induction with a set in
place of a predicate (`AllNaturals`), which needs no operator parameter. All proofs use the
assumptions named in the modules (`SessionAssumption`, `PoolAssumption`,
`ApplicationAssumption`, ...), which TLC evaluates on the runs. Those of `Scales` and
`MarketData` are hypotheses of their theorems: `MCServices` has instances of these modules
with its own values, of which it assumes them (`ServiceAssumption`) and of which it checks the
properties these theorems are about.

Theorems about properties that no run lists, because they are proved in general:
`RowsStayCoherent`, `DoneIsDurable`, `WelcomeIsTrue`, `StatusIsTruthful`, `DayChartIsRight`
(the day chart ends at the price orders are filled at) and the types of `Scales`, `MarketData`
and `Migrate`. The term of `AllowanceHolds` for processes that are replaced is checked for one
and proved for any number.

Only model-checked: liveness (the temporal properties of the runs `fair` and `processes`),
which is out of the provers' reach with its fairness and ENABLED, and with it `Dashboard`,
whose property is of that kind; the runs that end in a violation, `PortfolioTotal` among them,
which are refutations. What a recursion over data computes for every input cannot be proved
here in general; the only recursive definitions of the modules with theorems are partial sums,
and the lemmas about them go as far as the invariants need.

## 5. What is not modelled, and what could follow

Not modelled: configuration parsing (`config.py` is read once; its defaults are constants of
the models); portfolio, leaderboard, `portfolio/stats`, `pnl_summary`, wallet history, `recent_trades`, `asset_stats`, the order book, the indicators
and `healthz`, single SELECTs that write nothing, whose work is arithmetic inside SQL;
`yf_candles`, which asks another service; `analytics_queries.sql`, which no code runs; HTML,
forms, the other pages, CSRF tokens, password hashes, formatting and logging; benchmarks and
packaging, except for the processes they start. The random walk of simulated prices is any
price. Trades with one timestamp may be ordered differently for each page of
`/api/transactions`; `NoTradeSkipped` is therefore about distinct stamps.

What could follow: `Exchange` with the prices of `MarketData` in place of any price; the order
form of the dashboard with retried requests; the liveness properties for all values of the
constants, if the provers come to support fairness.
