------------------------------ MODULE Exchange ------------------------------
(***************************************************************************)
(* The paper-trading core: the PL/pgSQL functions and triggers of          *)
(* schema.sql that move money and shares, called by the Flask handlers and *)
(* by the two scheduler jobs of backend/app.py and backend/worker.py.      *)
(*                                                                         *)
(* Every call runs in a transaction of its own (database.transaction) and  *)
(* every action below is one SQL statement of such a transaction: the      *)
(* points where another transaction can get in between are exactly the     *)
(* statements that lock a row or take a new READ COMMITTED snapshot.       *)
(*                                                                         *)
(* Three tables are only ever written while another row is locked, and the *)
(* row carries them: a wallet its audit_logs, a holding its closed         *)
(* portfolio versions, an order its trades (with the realized_pnl row of a *)
(* sale).  Money is counted in whole cents and shares in whole units.      *)
(***************************************************************************)
EXTENDS Integers, Sequences, FiniteSets, RowLocks

CONSTANTS
  Users, Assets,
  Web,          \* connections that serve HTTP requests
  Matchers,     \* one per process that schedules process_pending_limit_orders
  Expirers,     \* one per process that schedules expire_old_orders
  Sides, Kinds, Quantities, Targets, Expiries, Amounts, Prices,  \* inputs
  Opening,      \* opening balance of each wallet
  Endowed,      \* [quantity, avg_price] each user starts with, per asset
  Quotes,       \* initial latest_prices_cache, None where there is no price
  MaxBalance,   \* largest balance NUMERIC(15,2) can hold
  MaxCalls,     \* bound: requests of users that write
  MaxNow,       \* bound: clock ticks
  MaxCrashes    \* bound: connections or processes lost in mid-transaction

Sessions == Web \cup Matchers \cup Expirers
Keys     == Users \X Assets
OrderIds == 1 .. MaxCalls

ASSUME SessionAssumption ==
  /\ None \notin Sessions \cup Users \cup Assets \cup Int
  /\ Web \cap Matchers = {} /\ Web \cap Expirers = {} /\ Matchers \cap Expirers = {}

ASSUME InputAssumption ==
  /\ Sides \subseteq {"buy", "sell"}
  /\ Kinds \subseteq {"market", "limit", "stop_loss"}
  /\ \A S \in {Quantities, Targets, Prices} : S \subseteq Nat \ {0}
  /\ Expiries \subseteq Nat
  /\ Amounts \subseteq Int \ {0}

ASSUME InitialAssumption ==
  /\ MaxBalance \in Nat
  /\ Opening \in [Users -> 0 .. MaxBalance]
  /\ Endowed \in [Keys -> [quantity : Nat, avg_price : Nat]]
  /\ Quotes \in [Assets -> Prices \cup {None}]

ASSUME BoundAssumption == MaxCalls \in Nat /\ MaxNow \in Nat /\ MaxCrashes \in Nat

VARIABLES
  wallet,    \* wallets and audit_logs
  holding,   \* portfolio: the current version of each key, and the closed ones
  orders,    \* orders, trades and realized_pnl
  cache,     \* latest_prices_cache.price
  now,       \* the database clock
  tx,        \* the open transaction of each session
  left,      \* assets still ahead in the current run of each matcher
  calls,     \* user requests so far, which also numbers the orders
  crashes

rows == <<wallet, holding, orders>>
vars == <<rows, cache, now, tx, left, calls, crashes>>

-----------------------------------------------------------------------------
(* Rows and transactions *)

AuditRow == [old_value : Int, new_value : Int, timestamp : Nat]
Wallet   == [balance : 0 .. MaxBalance, audit : Seq(AuditRow)]

\* A closed portfolio version, and a key: quantity 0 when it has no current one.
Closed  == [quantity : Nat, avg_price : Nat, valid_from : Nat, valid_to : Nat]
Holding == [quantity : Nat, avg_price : Nat, valid_from : Nat, closed : Seq(Closed)]

\* A trade, with the realized_profit and the REALIZED_PNL_BOOKED amount of a sale.
Trade   == [price : Nat, profit : Int, booked : Int]
NoOrder == [status |-> "none", trades |-> << >>]
Order   == [status : {"open", "filled", "cancelled"}, user : Users, asset : Assets,
            side : Sides, kind : Kinds, quantity : Quantities, price : Nat \ {0},
            target_price : Targets \cup {None}, expires_at : Expiries \cup {None},
            created_at : Nat, trades : Seq(Trade)]

Row(V) == [new : V, old : V, lock : Sessions \cup {None}]

\* pc names the statement that comes next; "next" is the end of a call or of an
\* iteration of a job's loop.  start is NOW(), which stands still in a transaction.
Transaction ==
  [pc     : {"idle", "cash", "check", "portfolio", "wallet", "cursor", "next"},
   start  : Nat,
   user   : Users \cup {None}, amount : Int,                  \* deposit, withdrawal
   order  : OrderIds \cup {None}, profit : Int,               \* execute_trade
   seen   : Nat \cup {None},                                  \* Version, if it waits
   asset  : Assets \cup {None}, price : Prices \cup {None}, todo : SUBSET OrderIds]

Idle == [pc |-> "idle", start |-> 0, user |-> None, amount |-> 0, order |-> None,
         profit |-> 0, seen |-> None, asset |-> None, price |-> None, todo |-> {}]

TypeOK ==
  /\ wallet  \in [Users -> Row(Wallet)]
  /\ holding \in [Keys -> Row(Holding)]
  /\ orders  \in [OrderIds -> Row(Order \cup {NoOrder})]
  /\ cache   \in [Assets -> Prices \cup {None}]
  /\ now     \in 0 .. MaxNow
  /\ tx      \in [Sessions -> Transaction]
  /\ left    \in [Matchers -> SUBSET Assets]
  /\ calls   \in 0 .. MaxCalls
  /\ crashes \in 0 .. MaxCrashes

Init ==
  /\ wallet = [u \in Users |-> Fresh([balance |-> Opening[u], audit |-> << >>])]
  /\ holding = [k \in Keys |-> Fresh([quantity   |-> Endowed[k].quantity,
                                      avg_price  |-> Endowed[k].avg_price,
                                      valid_from |-> 0, closed |-> << >>])]
  /\ orders = [o \in OrderIds |-> Fresh(NoOrder)]
  /\ cache = Quotes
  /\ now = 0
  /\ tx = [s \in Sessions |-> Idle]
  /\ left = [s \in Matchers |-> {}]
  /\ calls = 0
  /\ crashes = 0

-----------------------------------------------------------------------------
(* Transactions: begin, commit, roll back *)

Begin(s, job) == tx' = [tx EXCEPT ![s] = job]

\* Mutant: what the transaction did to wallets survives its failure.
RollbackKeepsWallets(s) ==
  /\ wallet' = Keep(wallet, s)
  /\ holding' = Undo(holding, s)
  /\ orders' = Undo(orders, s)
  /\ tx' = [tx EXCEPT ![s] = Idle]
  /\ left' = [m \in Matchers |-> IF m = s THEN {} ELSE left[m]]

\* Mutant: the connection goes back to the pool without a ROLLBACK.
RollbackForgotten(s) ==
  /\ UNCHANGED rows
  /\ tx' = [tx EXCEPT ![s] = Idle]
  /\ left' = [m \in Matchers |-> IF m = s THEN {} ELSE left[m]]

\* The exception leaves database.transaction, which rolls back; a matching run
\* ends there too, with the assets it had not reached (process_pending_limit_orders).
Rollback(s) ==
  /\ wallet' = Undo(wallet, s)
  /\ holding' = Undo(holding, s)
  /\ orders' = Undo(orders, s)
  /\ tx' = [tx EXCEPT ![s] = Idle]
  /\ left' = [m \in Matchers |-> IF m = s THEN {} ELSE left[m]]

Raise(s) == Rollback(s) /\ UNCHANGED <<cache, now, calls, crashes>>

Commit(s) ==
  /\ tx[s].pc = "next" /\ tx[s].todo = {}
  /\ wallet' = Keep(wallet, s)
  /\ holding' = Keep(holding, s)
  /\ orders' = Keep(orders, s)
  /\ tx' = [tx EXCEPT ![s] = Idle]
  /\ UNCHANGED <<cache, now, left, calls, crashes>>

-----------------------------------------------------------------------------
(* Wallets: deposit_money, withdraw_money and the audit trigger *)

\* Mutant: no limit but the CHECK constraint.
FitsAnyWidth(b) == b >= 0

\* wallets.balance: NUMERIC(15,2) and CHECK (balance >= 0).
Fits(b) == b \in 0 .. MaxBalance

\* Mutant: only debits are logged.
AuditedDebits(w, b, start) ==
  IF b >= w.balance THEN w.audit
  ELSE Append(w.audit, [old_value |-> w.balance, new_value |-> b, timestamp |-> start])

\* fn_audit_wallet_changes
Audited(w, b, start) ==
  IF b = w.balance THEN w.audit
  ELSE Append(w.audit, [old_value |-> w.balance, new_value |-> b, timestamp |-> start])

\* UPDATE wallets SET balance = b
SetBalance(s, u, b) ==
  Write(wallet, u, s,
        [balance |-> b, audit |-> Audited(wallet[u].new, b, tx[s].start)])

\* POST /wallet/deposit (amount > 0) and /wallet/withdraw (amount < 0).
RequestCash(s, u, amount) ==
  /\ tx[s].pc = "idle" /\ calls < MaxCalls
  /\ calls' = calls + 1
  /\ Begin(s, [Idle EXCEPT !.pc = "cash", !.start = now, !.user = u, !.amount = amount])
  /\ UNCHANGED <<rows, cache, now, left, crashes>>

\* Its UPDATE.  A withdrawal that finds too little in its snapshot matches no row
\* and raises at once; otherwise the statement waits and decides on the latest row.
MoveCash(s) ==
  LET u == tx[s].user
      b == wallet[u].new.balance + tx[s].amount
  IN
  /\ tx[s].pc = "cash"
  /\ \/ /\ Seen(wallet[u], s).balance + tx[s].amount < 0
        /\ Raise(s)
     \/ /\ Free(wallet[u], s)
        /\ b >= 0 /\ ~Fits(b)
        /\ Raise(s)
     \/ /\ Free(wallet[u], s)
        /\ Fits(b)
        /\ wallet' = SetBalance(s, u, b)
        /\ tx' = [tx EXCEPT ![s].pc = "next"]
        /\ UNCHANGED <<holding, orders, cache, now, left, calls, crashes>>

-----------------------------------------------------------------------------
(* execute_trade, the statements of one fill *)

TheOrder(s) == orders[tx[s].order].new
Key(s)      == <<TheOrder(s).user, TheOrder(s).asset>>
Cost(o)     == o.price * o.quantity

\* Mutant: every trade credits the wallet.
CreditAlways(o) == Cost(o)

\* What a fill adds to the wallet.
Proceeds(o) == IF o.side = "buy" THEN -Cost(o) ELSE Cost(o)

\* Mutant: the SELECT forgets FOR UPDATE.
CheckFundsUnlocked(s) ==
  LET u == TheOrder(s).user IN
  /\ tx[s].pc = "check" /\ TheOrder(s).side = "buy"
  /\ \/ /\ Seen(wallet[u], s).balance < Cost(TheOrder(s))
        /\ Raise(s)
     \/ /\ Seen(wallet[u], s).balance >= Cost(TheOrder(s))
        /\ tx' = [tx EXCEPT ![s].pc = "portfolio"]
        /\ UNCHANGED <<rows, cache, now, left, calls, crashes>>

\* SELECT balance ... FOR UPDATE, and the check that follows it.
CheckFunds(s) ==
  LET u == TheOrder(s).user IN
  /\ tx[s].pc = "check" /\ TheOrder(s).side = "buy"
  /\ Free(wallet[u], s)
  /\ \/ /\ wallet[u].new.balance < Cost(TheOrder(s))
        /\ Raise(s)
     \/ /\ wallet[u].new.balance >= Cost(TheOrder(s))
        /\ wallet' = Lock(wallet, u, s)
        /\ tx' = [tx EXCEPT ![s].pc = "portfolio"]
        /\ UNCHANGED <<holding, orders, cache, now, left, calls, crashes>>

\* The number of the current version of a key, 0 when it has none.
Version(h) == IF h.quantity = 0 THEN 0 ELSE Len(h.closed) + 1

\* The current portfolio row SELECT ... FOR UPDATE returns to s: none (quantity 0) when
\* it waited, and by then the version it had found was closed, or it had found none.
Current(s) ==
  LET h == Seen(holding[Key(s)], s) IN
  IF tx[s].seen \in {None, Version(h)} THEN h ELSE [h EXCEPT !.quantity = 0]

\* That SELECT finds a current version locked by another transaction, and waits; or
\* the portfolio trigger finds none, and its INSERT waits on idx_portfolio_unique_current
\* for the transaction that has inserted one.
WaitForHolding(s) ==
  LET h == holding[Key(s)] IN
  /\ \/ tx[s].pc = "check" /\ TheOrder(s).side = "sell" /\ h.old.quantity > 0
     \/ tx[s].pc = "portfolio"
  /\ tx[s].seen = None /\ ~Free(h, s)
  /\ tx' = [tx EXCEPT ![s].seen = Version(h.old)]
  /\ UNCHANGED <<rows, cache, now, left, calls, crashes>>

\* SELECT quantity ... FOR UPDATE for a sale, and the check that follows it.
\* With no committed current version there is nothing to wait for.
CheckHolding(s) ==
  LET k == Key(s) IN
  /\ tx[s].pc = "check" /\ TheOrder(s).side = "sell"
  /\ Free(holding[k], s) \/ holding[k].old.quantity = 0
  /\ \/ /\ Current(s).quantity < TheOrder(s).quantity
        /\ Raise(s)
     \/ /\ Current(s).quantity >= TheOrder(s).quantity
        /\ holding' = Lock(holding, k, s)
        /\ tx' = [tx EXCEPT ![s].pc = "portfolio", ![s].seen = None]
        /\ UNCHANGED <<wallet, orders, cache, now, left, calls, crashes>>

\* NUMERIC division: to the nearest unit, halves up (the operands are not negative).
RoundDiv(n, d) == (2 * n + d) \div (2 * d)

NewQuantity(o, h) == IF o.side = "buy" THEN h.quantity + o.quantity
                                       ELSE h.quantity - o.quantity

\* Mutant: the mean of the two prices, whatever was bought at each.
UnweightedAverage(o, h) ==
  IF o.side = "buy" /\ h.quantity > 0 THEN RoundDiv(h.avg_price + o.price, 2)
  ELSE IF o.side = "buy" THEN o.price ELSE h.avg_price

\* A purchase averages prices by quantity; a sale leaves the average alone.
NewAverage(o, h) ==
  IF o.side = "buy" THEN RoundDiv(h.avg_price * h.quantity + Cost(o), NewQuantity(o, h))
                    ELSE h.avg_price

\* SET valid_to = NOW() on the current version, if there is one.
Closing(h, start) ==
  IF h.quantity = 0 THEN h.closed
  ELSE Append(h.closed, [quantity |-> h.quantity, avg_price |-> h.avg_price,
                         valid_from |-> h.valid_from, valid_to |-> start])

\* Mutant: the purchased quantity replaces the one held.
TradedOver(o, h, start) ==
  [quantity   |-> IF o.side = "buy" THEN o.quantity ELSE h.quantity - o.quantity,
   avg_price  |-> o.price,
   valid_from |-> start,
   closed     |-> Closing(h, start)]

\* The portfolio after order o trades on version h: a new version starts at NOW(),
\* unless nothing is left.
Traded(o, h, start) ==
  LET some == NewQuantity(o, h) > 0 IN
  [quantity   |-> NewQuantity(o, h),
   avg_price  |-> IF some THEN NewAverage(o, h) ELSE 0,
   valid_from |-> IF some THEN start ELSE 0,
   closed     |-> Closing(h, start)]

\* What makes fn_update_portfolio_after_trade fail: 'Insufficient holdings', and a
\* second current version (idx_portfolio_unique_current).
TradeFails(s) ==
  IF TheOrder(s).side = "sell"
  THEN Current(s).quantity < TheOrder(s).quantity
  ELSE Current(s).quantity = 0 /\ holding[Key(s)].new.quantity > 0

\* INSERT INTO trades: trg_update_portfolio_after_trade fires first (by name).
UpdatePortfolio(s) ==
  LET o == TheOrder(s)  h == Current(s) IN
  /\ tx[s].pc = "portfolio"
  /\ Free(holding[Key(s)], s)
  /\ IF TradeFails(s) THEN Raise(s) ELSE
     /\ holding' = Write(holding, Key(s), s, Traded(o, h, tx[s].start))
     /\ tx' = [tx EXCEPT ![s].pc = "wallet", ![s].seen = None,
                         ![s].profit = IF o.side = "buy" THEN 0
                                       ELSE (o.price - h.avg_price) * o.quantity]
     /\ UNCHANGED <<wallet, orders, cache, now, left, calls, crashes>>

\* The P&L fn_update_wallet_after_trade writes to the audit log: it reads the
\* average price of the version the portfolio trigger has left.
ProfitBooked(s) ==
  LET o == TheOrder(s)  h == Seen(holding[Key(s)], s) IN
  IF o.side = "buy" \/ h.quantity = 0 THEN 0 ELSE (o.price - h.avg_price) * o.quantity

\* trg_update_wallet_after_trade, and the end of execute_trade: status 'filled'.
UpdateWallet(s) ==
  LET o == TheOrder(s)
      b == wallet[o.user].new.balance + Proceeds(o)
      trade == [price |-> o.price, profit |-> tx[s].profit, booked |-> ProfitBooked(s)]
  IN
  /\ tx[s].pc = "wallet"
  /\ Free(wallet[o.user], s)
  /\ IF ~Fits(b) THEN Raise(s) ELSE
     /\ wallet' = SetBalance(s, o.user, b)
     /\ orders' = Write(orders, tx[s].order, s,
                        [o EXCEPT !.status = "filled", !.trades = Append(@, trade)])
     /\ tx' = [tx EXCEPT ![s].pc = "next", ![s].order = None, ![s].profit = 0]
     /\ UNCHANGED <<holding, cache, now, left, calls, crashes>>

-----------------------------------------------------------------------------
(* place_order: POST /order *)

\* A market order is executed by the call that places it, at the price it read.
PlaceOrder(s, u, a, side, kind, q, target, expiry) ==
  LET o == calls + 1 IN
  /\ tx[s].pc = "idle" /\ calls < MaxCalls
  /\ cache[a] # None
  /\ (kind = "market") <=> (target = None)
  /\ orders' = Write(orders, o, s,
       [status |-> "open", user |-> u, asset |-> a, side |-> side, kind |-> kind,
        quantity |-> q, price |-> IF target = None THEN cache[a] ELSE target,
        target_price |-> target, expires_at |-> expiry, created_at |-> now,
        trades |-> << >>])
  /\ calls' = o
  /\ Begin(s, IF kind = "market"
              THEN [Idle EXCEPT !.pc = "check", !.start = now, !.order = o]
              ELSE [Idle EXCEPT !.pc = "next", !.start = now])
  /\ UNCHANGED <<wallet, holding, cache, now, left, crashes>>

-----------------------------------------------------------------------------
(* process_limit_orders, once per asset in every run of the matching job *)

StartRun(s) ==
  /\ tx[s].pc = "idle" /\ left[s] = {}
  /\ left' = [left EXCEPT ![s] = Assets]
  /\ UNCHANGED <<rows, cache, now, tx, calls, crashes>>

ReadPrice(s, a) ==
  /\ tx[s].pc = "idle" /\ a \in left[s]
  /\ left' = [left EXCEPT ![s] = @ \ {a}]
  /\ Begin(s, [Idle EXCEPT !.pc = IF cache[a] = None THEN "next" ELSE "cursor",
                           !.start = now, !.asset = a, !.price = cache[a]])
  /\ UNCHANGED <<rows, cache, now, calls, crashes>>

\* The condition of the loop's IF.
Triggered(o, price) ==
  \/ o.kind = "limit"     /\ (IF o.side = "buy" THEN price <= o.target_price
                                                ELSE price >= o.target_price)
  \/ o.kind = "stop_loss" /\ (IF o.side = "buy" THEN price >= o.target_price
                                                ELSE price <= o.target_price)

\* Mutant: the status is not looked at.
LiveAnyStatus(o, start) == o.expires_at = None \/ o.expires_at > start

Live(o, start) == o.status = "open" /\ (o.expires_at = None \/ o.expires_at > start)

\* Mutant: orders as young as the run are left out.
MatchableOlder(o, a, start, price) ==
  /\ o.status # "none" /\ o.asset = a /\ o.created_at < start
  /\ Live(o, start) /\ Triggered(o, price)

\* The WHERE clause of the cursor, with that condition.
Matchable(o, a, start, price) ==
  /\ o.status # "none" /\ o.asset = a
  /\ Live(o, start) /\ Triggered(o, price)

\* The loop's cursor keeps the snapshot it was opened on.
OpenCursor(s) ==
  LET t == tx[s] IN
  /\ t.pc = "cursor"
  /\ tx' = [tx EXCEPT ![s].pc = "next",
                      ![s].todo = {o \in OrderIds :
                                     Matchable(orders[o].old, t.asset, t.start, t.price)}]
  /\ UNCHANGED <<rows, cache, now, left, calls, crashes>>

\* ORDER BY created_at; orders of the same instant in the order they were numbered.
IsFirst(o, S) ==
  \A p \in S : \/ orders[o].old.created_at < orders[p].old.created_at
               \/ orders[o].old.created_at = orders[p].old.created_at /\ o <= p

\* UPDATE orders SET price ... and PERFORM execute_trade for the next row.
NextOrder(s) ==
  \E o \in tx[s].todo :
    /\ s \in Matchers /\ tx[s].pc = "next"
    /\ IsFirst(o, tx[s].todo) /\ Free(orders[o], s)
    /\ orders' = Write(orders, o, s, [orders[o].new EXCEPT !.price = tx[s].price])
    /\ tx' = [tx EXCEPT ![s].pc = "check", ![s].order = o, ![s].todo = @ \ {o}]
    /\ UNCHANGED <<wallet, holding, cache, now, left, calls, crashes>>

-----------------------------------------------------------------------------
(* expire_stale_orders *)

\* Mutant: the status is not looked at.
StaleAnyStatus(o, start) ==
  o.status # "none" /\ o.expires_at # None /\ o.expires_at <= start

Stale(o, start) ==
  o.status = "open" /\ o.expires_at # None /\ o.expires_at <= start

\* The UPDATE finds its rows in one snapshot ...
FindStale(s) ==
  LET found == {o \in OrderIds : Stale(orders[o].old, now)} IN
  /\ tx[s].pc = "idle" /\ found # {}
  /\ Begin(s, [Idle EXCEPT !.pc = "next", !.start = now, !.todo = found])
  /\ UNCHANGED <<rows, cache, now, left, calls, crashes>>

\* ... and locks them one by one, evaluating its WHERE clause again on each.
ExpireOne(s) ==
  \E o \in tx[s].todo :
    /\ s \in Expirers /\ tx[s].pc = "next"
    /\ Free(orders[o], s)
    /\ orders' = IF Stale(orders[o].new, tx[s].start)
                 THEN Write(orders, o, s, [orders[o].new EXCEPT !.status = "cancelled"])
                 ELSE orders
    /\ tx' = [tx EXCEPT ![s].todo = @ \ {o}]
    /\ UNCHANGED <<wallet, holding, cache, now, left, calls, crashes>>

-----------------------------------------------------------------------------
(* Deadlocks, crashes, prices, time *)

\* The transactions s waits for: the holder of the row its next statement locks.
\* (An expiry has found several rows; it waits once every one left is locked.)
Holder(r, s) == {r.lock} \ {None, s}
Blockers(s) ==
  CASE tx[s].pc = "cash" -> Holder(wallet[tx[s].user], s)
    [] tx[s].pc = "check" /\ TheOrder(s).side = "buy" ->
         Holder(wallet[TheOrder(s).user], s)
    [] tx[s].pc = "check" /\ tx[s].seen # None -> Holder(holding[Key(s)], s)
    [] tx[s].pc = "portfolio" -> Holder(holding[Key(s)], s)
    [] tx[s].pc = "wallet" -> Holder(wallet[TheOrder(s).user], s)
    [] s \in Matchers /\ tx[s].pc = "next" ->
         UNION {Holder(orders[o], s) : o \in {p \in tx[s].todo : IsFirst(p, tx[s].todo)}}
    [] s \in Expirers /\ \A o \in tx[s].todo : ~Free(orders[o], s) ->
         UNION {Holder(orders[o], s) : o \in tx[s].todo}
    [] OTHER -> {}

\* PostgreSQL's deadlock detector cancels one transaction of a cycle of waits.
Deadlocked(s) ==
  \E C \in SUBSET Sessions :
    /\ s \in C /\ C = UNION {Blockers(t) : t \in C}
    /\ \A t \in C : Blockers(t) # {}
AbortDeadlock(s) == Deadlocked(s) /\ Raise(s)

\* The connection, the process or the server is lost in mid-transaction.
Crash(s) ==
  /\ tx[s].pc # "idle" /\ crashes < MaxCrashes
  /\ crashes' = crashes + 1
  /\ Rollback(s)
  /\ UNCHANGED <<cache, now, calls>>

\* scripts/ingest_data.py and its trigger put a new price into the cache.
PriceTick(a, p) ==
  /\ cache[a] # p
  /\ cache' = [cache EXCEPT ![a] = p]
  /\ UNCHANGED <<rows, now, tx, left, calls, crashes>>

Tick ==
  /\ now < MaxNow
  /\ now' = now + 1
  /\ UNCHANGED <<rows, cache, tx, left, calls, crashes>>

-----------------------------------------------------------------------------
Request(s) ==
  \/ \E u \in Users, amount \in Amounts : RequestCash(s, u, amount)
  \/ \E u \in Users, a \in Assets, side \in Sides, kind \in Kinds, q \in Quantities,
        target \in Targets \cup {None}, expiry \in Expiries \cup {None} :
       PlaceOrder(s, u, a, side, kind, q, target, expiry)

ExecuteTrade(s) ==
  \/ CheckFunds(s) \/ WaitForHolding(s) \/ CheckHolding(s)
  \/ UpdatePortfolio(s) \/ UpdateWallet(s)

Statement(s) ==
  \/ MoveCash(s) \/ ExecuteTrade(s)
  \/ OpenCursor(s) \/ NextOrder(s) \/ ExpireOne(s)
  \/ Commit(s)

StartJob(s) ==
  \/ s \in Matchers /\ (StartRun(s) \/ \E a \in Assets : ReadPrice(s, a))
  \/ s \in Expirers /\ FindStale(s)

Next ==
  \/ \E s \in Web : Request(s)
  \/ \E s \in Sessions : StartJob(s) \/ Statement(s) \/ AbortDeadlock(s) \/ Crash(s)
  \/ \E a \in Assets, p \in Prices : PriceTick(a, p)
  \/ Tick

Spec == Init /\ [][Next]_vars

\* The scheduler keeps starting its jobs (an interval trigger, one run at a time);
\* a running transaction goes on to its next statement, also when others keep
\* taking the lock it waits for: PostgreSQL queues the waiters of a row.  Users
\* need never call, prices never move and connections never fail.
Fairness ==
  /\ \A s \in Matchers : WF_vars(StartRun(s)) /\ WF_vars(\E a \in Assets : ReadPrice(s, a))
  /\ \A s \in Expirers : WF_vars(FindStale(s))
  /\ \A s \in Sessions : SF_vars(Statement(s)) /\ WF_vars(AbortDeadlock(s))

FairSpec == Spec /\ Fairness

-----------------------------------------------------------------------------
(* Properties *)

\* A fill that has passed the check of execute_trade is never refused later in the
\* same transaction: the portfolio trigger raises neither 'Insufficient holdings'
\* nor a violation of idx_portfolio_unique_current, and the wallet trigger of a
\* purchase neither overdraws nor waits (it still holds the lock it checked under).
NoLateRefusal ==
  \A s \in Sessions :
    /\ tx[s].pc = "portfolio" /\ Free(holding[Key(s)], s) => ~TradeFails(s)
    /\ tx[s].pc = "wallet" /\ TheOrder(s).side = "buy" =>
         LET w == wallet[TheOrder(s).user] IN
         w.lock = s /\ w.new.balance >= Cost(TheOrder(s))

\* The audit log of wallet row w of user u leads from the opening balance to the
\* balance of w without a gap.
Chained(w, u) ==
  LET after(i) == IF i = 0 THEN Opening[u] ELSE w.audit[i].new_value IN
  /\ \A i \in DOMAIN w.audit : w.audit[i].old_value = after(i - 1)
  /\ w.balance = after(Len(w.audit))

\* audit_logs tells the whole story of a wallet: at every commit the rows of a user,
\* in commit order, account for every change of the balance.
AuditChain == \A u \in Users : Chained(wallet[u].old, u)

\* An order has a trade exactly when its status says so, and then only one.
FilledOnce ==
  \A o \in OrderIds :
    Len(orders[o].old.trades) = IF orders[o].old.status = "filled" THEN 1 ELSE 0

\* Nothing happens to an order once it is filled: a later matching run or an
\* expiry that had found it open leaves it as it is.
FilledIsFinal ==
  [][\A o \in OrderIds :
       orders[o].old.status = "filled" => orders'[o].old = orders[o].old]_vars

\* The same for an order that has expired.
CancelledIsFinal ==
  [][\A o \in OrderIds :
       orders[o].old.status = "cancelled" => orders'[o].old = orders[o].old]_vars

\* A sale is refused for lack of shares only if its seller lacks them: whenever it
\* is judged, it is judged on the position the portfolio then shows.
JudgedOnHoldings ==
  \A s \in Sessions :
    tx[s].pc = "check" /\ TheOrder(s).side = "sell" /\ Free(holding[Key(s)], s) =>
      Current(s) = Seen(holding[Key(s)], s)

\* No transaction runs or waits for ever: deadlocks are broken, loops end.
TransactionsEnd ==
  \A s \in Sessions : tx[s].pc # "idle" ~> tx[s].pc = "idle"

\* An open order the current price triggers, and whose owner can settle it.
Due(o) ==
  LET r == orders[o].old  price == cache[r.asset] IN
  /\ r.status = "open" /\ r.kind # "market" /\ price # None
  /\ Live(r, now) /\ Triggered(r, price)
  /\ IF r.side = "buy" THEN wallet[r.user].old.balance >= price * r.quantity
                       ELSE holding[<<r.user, r.asset>>].old.quantity >= r.quantity

\* Matching never leaves such an order open for good.
DueOrdersSettle == \A o \in OrderIds : []<>~Due(o)

-----------------------------------------------------------------------------
(* What holds in between: the inductive invariants of ExchangeProofs *)

\* A row no transaction holds shows what was committed; a row that was committed
\* as an order stays one; numbers that were not given out have no row.
RowsCoherent ==
  /\ \A u \in Users : wallet[u].lock = None => wallet[u].new = wallet[u].old
  /\ \A k \in Keys : holding[k].lock = None => holding[k].new = holding[k].old
  /\ \A o \in OrderIds :
       /\ orders[o].lock = None => orders[o].new = orders[o].old
       /\ orders[o].old # NoOrder => orders[o].new # NoOrder
       /\ o > calls => orders[o] = Fresh(NoOrder)

\* A transaction has what its next statement needs, and a fill holds its order.
Ready(s) ==
  /\ tx[s].pc = "cash" => tx[s].user \in Users /\ tx[s].amount \in Amounts
  /\ tx[s].pc \in {"check", "portfolio", "wallet"} =>
       /\ tx[s].order \in 1 .. calls
       /\ orders[tx[s].order].lock = s /\ orders[tx[s].order].new # NoOrder
  /\ s \in Matchers /\ (tx[s].pc = "cursor" \/ tx[s].todo # {}) => tx[s].price # None
  /\ \A o \in tx[s].todo : orders[o].old # NoOrder
TxCoherent == \A s \in Sessions : Ready(s)

\* The locks under which a fill goes on hold until it is done: a purchase keeps
\* the wallet it has checked, a sale the position.  A purchase that waits for a
\* position waits for the version that is still the committed one.
FillCovered(s) ==
  LET o == TheOrder(s) IN
  /\ tx[s].pc \notin {"check", "portfolio"} => tx[s].seen = None
  /\ tx[s].pc = "check" /\ o.side = "buy" => tx[s].seen = None
  /\ tx[s].pc \in {"portfolio", "wallet"} /\ o.side = "buy" =>
       wallet[o.user].lock = s /\ wallet[o.user].new.balance >= Cost(o)
  /\ tx[s].pc = "portfolio" /\ o.side = "buy" /\ tx[s].seen # None =>
       /\ holding[Key(s)].lock # s
       /\ tx[s].seen = Version(holding[Key(s)].old)
  /\ tx[s].pc = "portfolio" /\ o.side = "sell" =>
       /\ tx[s].seen = None /\ holding[Key(s)].lock = s
       /\ holding[Key(s)].new.quantity >= o.quantity

\* Whoever has changed a position also holds the wallet of its owner, or is about
\* to lock it: nobody commits a change to a position under a purchase that has
\* the wallet in hand.
ChangeCovered(u, a) ==
  LET h == holding[<<u, a>>] IN
  h.new # h.old => \/ wallet[u].lock = h.lock
                   \/ tx[h.lock].pc = "wallet" /\ Key(h.lock) = <<u, a>>

FillsCovered ==
  /\ \A s \in Sessions : FillCovered(s)
  /\ \A u \in Users, a \in Assets : ChangeCovered(u, a)
=============================================================================
