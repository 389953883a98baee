----------------------------- MODULE MarketData -----------------------------
(***************************************************************************)
(* Ticks, the cache of latest prices and the daily aggregate, with those   *)
(* who write them: the feed of scripts/ingest_data.py, which first fills   *)
(* in a year of history, and scripts/seed_demo.py, which may clear         *)
(* everything first.  Both may run at once, and both may be killed.        *)
(*                                                                         *)
(* An INSERT commits together with its trigger, so each is one step;       *)
(* between the moment a price is stamped and that step others write.       *)
(* Time is counted in units of which Day make a day.                       *)
(***************************************************************************)
EXTENDS Integers, Sequences

CONSTANTS
  Assets, Prices, None,
  Feeds, Seeders,    \* processes of ingest_data and of seed_demo
  Reliable,          \* assets whose price can always be fetched
  Day, Month,        \* a day; start_offset of the refresh policy
  RealDays, Depth,   \* days of history from the API and in all: 30, 365
  Enough,            \* days that count as a full history: 0.95 * 365
  SeedDays,          \* --days
  Start, MaxNow,     \* bounds: the clock
  MaxFails,          \* bound: inserts and refreshes that fail
  MaxRuns            \* bound: runs of a feed

MarketAssumption ==
  /\ None \notin [time : Int, price : Prices]
  /\ Day \in Nat \ {0} /\ Start \in Nat /\ MaxNow \in Nat /\ Start <= MaxNow
  /\ RealDays \in Nat /\ Depth \in Nat /\ RealDays <= Depth /\ SeedDays \in Nat
  /\ Feeds \cap Seeders = {}
  /\ MaxFails \in Nat /\ MaxRuns \in Nat /\ Reliable \subseteq Assets

VARIABLES
  now,
  rows,     \* committed rows of market_data
  cache,    \* latest_prices_cache
  daily,    \* the rows that market_data_daily reflects
  locked,   \* market_data is locked by a TRUNCATE that has not committed
  proc,     \* where each process is
  fails

vars == <<now, rows, cache, daily, locked, proc, fails>>

\* run tells the bars of one backfill from those of the next.
Tick  == [asset : Assets, time : Int, price : Prices,
          source : {"real_api", "simulated_backfill", "live", "seed_demo"}, run : Nat]
Quote == [time : Int, price : Prices]

\* todo: what is left of the loop over the assets.  missing: missing_assets.
\* queue: rows computed and not yet inserted.  doomed: cache rows of the reset.
Process == [pc : {"start", "check", "asset", "backfill", "refresh", "live", "insert",
                  "clear", "commit", "seed", "series", "done", "unrefreshed"},
            todo : SUBSET Assets, missing : SUBSET Assets, queue : Seq(Tick),
            doomed : SUBSET Assets, run : Nat]

Fresh(run) == [pc |-> "start", todo |-> {}, missing |-> {}, queue |-> <<>>,
               doomed |-> {}, run |-> run]

TypeOK ==
  /\ now \in Start .. MaxNow
  /\ rows \subseteq Tick /\ daily \subseteq Tick
  /\ cache \in [Assets -> Quote \cup {None}]
  /\ locked \in BOOLEAN
  /\ proc \in [Feeds \cup Seeders -> Process]
  /\ fails \in 0 .. MaxFails

Init ==
  /\ now = Start /\ rows = {} /\ daily = {} /\ fails = 0 /\ locked = FALSE
  /\ cache = [a \in Assets |-> None]
  /\ proc = [w \in Feeds \cup Seeders |-> Fresh(1)]

-----------------------------------------------------------------------------
(* Rows and the trigger *)

\* time_bucket('1 day', time).
Bucket(time) == time - (time % Day)

Of(R, a) == {r \in R : r.asset = a}
Newest(R) == {r \in R : \A s \in R : s.time <= r.time}

\* Mutant: whatever is inserted last wins.
Overwrites(old, r) == TRUE

\* The WHERE clause of fn_update_latest_price_cache.
Replaces(old, r) == old = None \/ old.time <= r.time

\* Commit rows R of asset a; of rows inserted by one transaction the newest is left.
Store(a, R) ==
  /\ ~locked
  /\ rows' = rows \cup R
  /\ \E r \in Newest(R) :
       cache' = IF Replaces(cache[a], r)
                THEN [cache EXCEPT ![a] = [time |-> r.time, price |-> r.price]] ELSE cache

NoStore == UNCHANGED <<rows, cache, locked>>
Goto(w, pc) == proc' = [proc EXCEPT ![w].pc = pc]

-----------------------------------------------------------------------------
(* ingest_data *)

GetAssets(w) ==
  /\ proc[w].pc = "start"
  /\ proc' = [proc EXCEPT ![w].pc = "check", ![w].todo = Assets]
  /\ NoStore /\ UNCHANGED <<now, daily, fails>>

\* has_historical_data looks at the oldest row only.
HasHistory(a) == \E r \in Of(rows, a) : now - r.time >= Enough * Day

CheckHistory(w) ==
  /\ proc[w].pc = "check" /\ ~locked
  /\ \/ \E a \in proc[w].todo :
          proc' = [proc EXCEPT ![w].todo = @ \ {a},
                               ![w].missing = IF HasHistory(a) THEN @ ELSE @ \cup {a}]
     \/ /\ proc[w].todo = {}
        /\ proc' = [proc EXCEPT ![w].pc = IF proc[w].missing = {} THEN "refresh" ELSE "asset",
                                ![w].todo = proc[w].missing, ![w].missing = {}]
  /\ NoStore /\ UNCHANGED <<now, daily, fails>>

TickOf(w, a, time, price, source) ==
  [asset |-> a, time |-> time, price |-> price, source |-> source,
   run |-> IF source = "real_api" THEN proc[w].run ELSE 0]

\* One bar at each midnight, oldest first, up to today's.
Bars(w, a, p) ==
  [i \in 1 .. RealDays |-> TickOf(w, a, Bucket(now) - (RealDays - i) * Day, p, "real_api")]

\* One row a day going back from the day before; the price is a random walk.
Simulated(w, a, p) ==
  [i \in 1 .. Depth - RealDays |-> TickOf(w, a, now - (RealDays + i) * Day, p, "simulated_backfill")]

\* The API answers, has nothing, or raises: then the asset is left out.
FetchHistory(w) ==
  /\ proc[w].pc = "asset"
  /\ \/ \E a \in proc[w].todo, p, q \in Prices :
          \E queue \in {<<>>, Simulated(w, a, p), Bars(w, a, q) \o Simulated(w, a, p)} :
            proc' = [proc EXCEPT ![w].pc = IF queue = <<>> THEN "asset" ELSE "backfill",
                                 ![w].todo = @ \ {a}, ![w].queue = queue]
     \/ proc[w].todo = {} /\ Goto(w, "refresh")
  /\ NoStore /\ UNCHANGED <<now, daily, fails>>

Continue(w, rest) ==
  proc' = [proc EXCEPT ![w].queue = rest,
                       ![w].pc = CASE rest # <<>> -> @
                                   [] rest = <<>> /\ @ = "backfill" -> "asset"
                                   [] rest = <<>> /\ @ = "insert" -> "live"]

\* Insert the next row, or fail to: the error of an INSERT is swallowed, that of a
\* pool without connections ends the work on the asset.
Insert(w) ==
  LET row == Head(proc[w].queue)  rest == Tail(proc[w].queue) IN
  /\ proc[w].pc \in {"backfill", "insert"}
  /\ \/ Store(row.asset, {row}) /\ Continue(w, rest) /\ UNCHANGED <<locked, fails>>
     \/ /\ fails < MaxFails /\ fails' = fails + 1 /\ NoStore
        /\ Continue(w, rest) \/ Continue(w, <<>>)
  /\ UNCHANGED <<now, daily>>

\* refresh_aggregates: its CALL runs in the transaction psycopg2 has opened, which
\* TimescaleDB refuses; the error is printed and the feed goes on.
RefreshAggregates(w) ==
  /\ proc[w].pc = "refresh" /\ w \in Feeds
  /\ proc' = [proc EXCEPT ![w].pc = "live", ![w].todo = Assets]
  /\ NoStore /\ UNCHANGED <<now, daily, fails>>

\* Mutant: an asset that cannot be fetched keeps the loop at its place.
RetryPrice(w) ==
  /\ proc[w].pc = "live"
  /\ \/ \E a \in proc[w].todo \cap Reliable, p \in Prices :
          proc' = [proc EXCEPT ![w].pc = "insert", ![w].todo = @ \ {a},
                               ![w].queue = <<TickOf(w, a, now, p, "live")>>]
     \/ \E a \in proc[w].todo \ Reliable : UNCHANGED proc
     \/ proc[w].todo = {} /\ proc' = [proc EXCEPT ![w].todo = Assets]
  /\ NoStore /\ UNCHANGED <<now, daily, fails>>

\* fetch_market_prices: the next asset of the round, or sleep and begin another.
FetchPrice(w) ==
  /\ proc[w].pc = "live"
  /\ \/ \E a \in proc[w].todo :
          \/ \E p \in Prices :
               proc' = [proc EXCEPT ![w].pc = "insert", ![w].todo = @ \ {a},
                                    ![w].queue = <<TickOf(w, a, now, p, "live")>>]
          \/ a \notin Reliable /\ proc' = [proc EXCEPT ![w].todo = @ \ {a}]
     \/ proc[w].todo = {} /\ proc' = [proc EXCEPT ![w].todo = Assets]
  /\ NoStore /\ UNCHANGED <<now, daily, fails>>

\* The process is killed, or ends by an exception outside the loops' handlers, and
\* is started again.
RestartFeed(w) ==
  /\ proc[w].run < MaxRuns
  /\ proc' = [proc EXCEPT ![w] = Fresh(proc[w].run + 1)]
  /\ NoStore /\ UNCHANGED <<now, daily, fails>>

-----------------------------------------------------------------------------
(* seed_demo *)

\* TRUNCATE waits for every transaction that writes, and keeps others out.
Truncate(w) ==
  /\ proc[w].pc = "start" /\ ~locked
  /\ locked' = TRUE
  /\ Goto(w, "clear")
  /\ UNCHANGED <<rows, cache, now, daily, fails>>

\* DELETE FROM latest_prices_cache takes the rows it can see.
Clear(w) ==
  /\ proc[w].pc = "clear"
  /\ proc' = [proc EXCEPT ![w].pc = "commit", ![w].doomed = {a \in Assets : cache[a] # None}]
  /\ NoStore /\ UNCHANGED <<now, daily, fails>>

CommitReset(w) ==
  /\ proc[w].pc = "commit"
  /\ rows' = {} /\ locked' = FALSE
  /\ cache' = [a \in Assets |-> IF a \in proc[w].doomed THEN None ELSE cache[a]]
  /\ proc' = [proc EXCEPT ![w].pc = "seed", ![w].todo = Assets, ![w].doomed = {}]
  /\ UNCHANGED <<now, daily, fails>>

\* Without --reset.
KeepRows(w) ==
  /\ proc[w].pc = "start"
  /\ proc' = [proc EXCEPT ![w].pc = "seed", ![w].todo = Assets]
  /\ NoStore /\ UNCHANGED <<now, daily, fails>>

\* generate_series: the last days, then the last Day at every unit up to now.
Series(w, a, p, q) ==
  [i \in 1 .. SeedDays + Day |->
     TickOf(w, a, IF i <= SeedDays THEN now - (SeedDays + 1 - i) * Day ELSE now - Day + i - SeedDays,
            IF i < SeedDays + Day THEN p ELSE q, "seed_demo")]

Generate(w) ==
  /\ proc[w].pc = "seed"
  /\ \/ \E a \in proc[w].todo, p, q \in Prices :
          proc' = [proc EXCEPT ![w].pc = "series", ![w].todo = @ \ {a},
                               ![w].queue = Series(w, a, p, q)]
     \/ proc[w].todo = {} /\ Goto(w, "refresh")
  /\ NoStore /\ UNCHANGED <<now, daily, fails>>

\* All rows of an asset in one transaction.
InsertSeries(w) ==
  LET queue == proc[w].queue IN
  /\ proc[w].pc = "series"
  /\ Store(queue[1].asset, {queue[i] : i \in DOMAIN queue})
  /\ proc' = [proc EXCEPT ![w].pc = "seed", ![w].queue = <<>>]
  /\ UNCHANGED <<now, daily, fails, locked>>

\* Mutant: the refresh covers the window of the policy.
RefreshRecent(w) ==
  /\ proc[w].pc = "refresh" /\ w \in Seeders /\ ~locked
  /\ daily' = {r \in daily : r.time < now - Month} \cup {r \in rows : r.time >= now - Month}
  /\ Goto(w, "done")
  /\ NoStore /\ UNCHANGED <<now, fails>>

\* refresh_aggregate, on an autocommit connection.
RefreshAggregate(w) ==
  /\ proc[w].pc = "refresh" /\ w \in Seeders /\ ~locked
  /\ daily' = rows
  /\ Goto(w, "done")
  /\ NoStore /\ UNCHANGED <<now, fails>>

\* The pool or the CALL raises: the error is logged, and the script ends all the same.
RefreshFails(w) ==
  /\ proc[w].pc = "refresh" /\ w \in Seeders
  /\ fails < MaxFails /\ fails' = fails + 1
  /\ Goto(w, "unrefreshed")
  /\ NoStore /\ UNCHANGED <<now, daily>>

\* The script is killed, or an exception ends it; an open transaction is undone.
EndSeeder(w) ==
  /\ proc[w].pc \notin {"start", "done", "unrefreshed"}
  /\ locked' = (locked /\ proc[w].pc \notin {"clear", "commit"})
  /\ proc' = [proc EXCEPT ![w] = Fresh(proc[w].run + 1)]
  /\ proc[w].run < MaxRuns
  /\ UNCHANGED <<now, rows, cache, daily, fails>>

-----------------------------------------------------------------------------
(* The database's own job, and time *)

\* The policy refreshes the whole buckets between Month and an hour ago.
InWindow(r) == Bucket(r.time) >= now - Month /\ Bucket(r.time) + Day < now

RefreshPolicy ==
  /\ ~locked
  /\ daily' = {r \in daily : ~InWindow(r)} \cup {r \in rows : InWindow(r)}
  /\ NoStore /\ UNCHANGED <<now, proc, fails>>

Clock ==
  /\ now < MaxNow /\ now' = now + 1
  /\ NoStore /\ UNCHANGED <<daily, proc, fails>>

Feed(w) ==
  \/ GetAssets(w) \/ CheckHistory(w) \/ FetchHistory(w) \/ Insert(w)
  \/ RefreshAggregates(w) \/ FetchPrice(w)

Seeder(w) ==
  \/ Truncate(w) \/ Clear(w) \/ CommitReset(w) \/ KeepRows(w)
  \/ Generate(w) \/ InsertSeries(w) \/ RefreshAggregate(w) \/ RefreshFails(w)

Next ==
  \/ \E w \in Feeds : Feed(w) \/ RestartFeed(w)
  \/ \E w \in Seeders : Seeder(w) \/ EndSeeder(w)
  \/ RefreshPolicy \/ Clock

Spec     == Init /\ [][Next]_vars
FairSpec == /\ Spec
            /\ \A w \in Feeds : WF_vars(Feed(w))
            /\ \A w \in Seeders : WF_vars(Seeder(w))

-----------------------------------------------------------------------------
(* What the dashboard is given *)

\* get_ohlc_history, as the days it has candles for.
Chart(a, days) ==
  LET candles == {Bucket(r.time) : r \in Of(daily, a)}
      shown == {b \in candles : b >= now - days * Day}
  IN IF shown # {} THEN shown
     ELSE {Bucket(r.time) : r \in {s \in Of(rows, a) : s.time >= now - days * Day}}

Recent(a) == {r \in Of(rows, a) : r.time >= now - Day}

\* get_price_history: the last day, otherwise the newest ticks, of which one is kept here.
DayChart(a) == IF Recent(a) # {} THEN Recent(a) ELSE Newest(Of(rows, a))

-----------------------------------------------------------------------------
(* Properties *)

\* The cache shows a newest committed tick of every asset that has ticks, and nothing
\* else: not one that was inserted late, nor one that a reset has removed.
CacheShowsNewest ==
  \A a \in Assets :
    IF Of(rows, a) = {} THEN cache[a] = None
    ELSE \E r \in Newest(Of(rows, a)) : cache[a] = [time |-> r.time, price |-> r.price]

\* The 1D chart ends at the price the cache shows and orders are filled at.
DayChartEndsAtQuote ==
  \A a \in Assets : Of(rows, a) # {} =>
    \E r \in Newest(DayChart(a)) : cache[a] = [time |-> r.time, price |-> r.price]

\* When seed_demo has ended with its refresh done ("so OHLC charts render at once"), the
\* chart has every day it has inserted, and keeps it when the policy refreshes later.
\* Nothing is promised where that refresh has failed.
SeedShown ==
  \A w \in Seeders, r \in rows :
    proc[w].pc = "done" /\ r.source = "seed_demo" /\ Bucket(r.time) >= now - Depth * Day =>
      Bucket(r.time) \in Chart(r.asset, Depth)

\* At no time does the quote of an asset whose price can be fetched fall behind for
\* good: whatever happens to other assets, to inserts, or by a reset.
QuotesKeepUp ==
  \A a \in Reliable : \A t \in Start .. MaxNow :
    now = t ~> cache[a] # None /\ cache[a].time >= t
=============================================================================
