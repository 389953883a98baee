---------------------------- MODULE MCProcesses -----------------------------
(***************************************************************************)
(* What runs beside the trading core, under fair scheduling, for TLC:      *)
(* migrations, schedulers, the connection pool, the feed, clients of the   *)
(* rate limiter and the page in a browser.  They share no state, so a      *)
(* behaviour is about one of them: part says which, and the variables of   *)
(* the others keep their initial values.                                   *)
(***************************************************************************)
EXTENDS Migrate, TLC

VARIABLES
  part,
  state, wait, running,                                      \* Scheduler
  ready, idle, used, conn, call, breaks, closes,             \* ConnectionPool
  now, rows, cache, daily, locked, proc, fails,              \* MarketData
  counter, asked, served, restarts,                          \* RateLimit
  selected, period, shown, flight, loop, clicks, failures    \* Dashboard

jobs   == <<state, wait, running>>
pool   == <<ready, idle, used, conn, call, breaks, closes>>
market == <<now, rows, cache, daily, locked, proc, fails>>
limits == <<counter, asked, served, restarts>>
page   == <<selected, period, shown, flight, loop, clicks, failures>>
all    == <<part, vars, jobs, pool, market, limits, page>>

Parts == {"runners", "deploys", "worker", "pool", "quotes", "retries", "page"}

-----------------------------------------------------------------------------
(* Instances *)

\* One runner at a time, which is run again after every change of the files.
Deploys == INSTANCE Migrate WITH
  Runners <- {"deploy"}, MaxFaults <- 2, MaxResets <- 0

\* docker-compose.yml: a worker, which does not read ENABLE_SCHEDULER, and gunicorn.
\* The matching job is due more often.
Intervals == ("process_limits" :> 2) @@ ("expire_orders" :> 5)

Worker == INSTANCE Scheduler WITH
  Workers <- {"worker"}, Apps <- {}, Children <- {}, Web <- {"gunicorn"},
  DEBUG <- FALSE, ENABLE_SCHEDULER <- TRUE, Jobs <- DOMAIN Intervals, Interval <- Intervals

Pool == INSTANCE ConnectionPool WITH
  Threads <- {"t1", "t2"}, Conns <- {"c1", "c2", "c3"},
  Uses <- {"transaction", "raw", "refresh"}, PoolMin <- 1, PoolMax <- 1,
  MaxBreaks <- 1, MaxCloses <- 0

\* The price of one of two assets can always be fetched.
Market == INSTANCE MarketData WITH
  Assets <- {"a", "b"}, Prices <- {1}, Feeds <- {"feed"}, Seeders <- {"seeder"},
  Reliable <- {"a"}, Day <- 1, Month <- 4, RealDays <- 1, Depth <- 1, Enough <- 1,
  SeedDays <- 0, Start <- 1, MaxNow <- 2, MaxFails <- 1, MaxRuns <- 1

\* RATELIMIT_LOGIN scaled down, in one process, for two clients.
OwnAddress(c) == c
LoginLimits   == "login" :> <<[amount |-> 2, span |-> 1], [amount |-> 3, span |-> 3]>>

Limiter == INSTANCE RateLimit WITH
  Stores <- {"web"}, Clients <- {"c", "d"}, Address <- OwnAddress, Endpoints <- {"login"},
  Limits <- LoginLimits, Pace <- "login" :> 3, MaxRestarts <- 0

Page == INSTANCE Dashboard WITH
  Assets <- {"a", "b"}, Parts <- {"chart", "book"}, history <- loop,
  MaxClicks <- 2, MaxFailures <- 1

ASSUME ProcessAssumption ==
  /\ Deploys!MigrateAssumption /\ Worker!SchedulerAssumption
  /\ Pool!PoolAssumption /\ Market!MarketAssumption /\ Limiter!LimitAssumption
  /\ Page!DashboardAssumption

-----------------------------------------------------------------------------
PartsInit ==
  /\ part \in Parts
  /\ IF part = "deploys" THEN Deploys!Init ELSE Init
  /\ Worker!Init /\ Pool!Init /\ Market!Init /\ Limiter!Init /\ Page!Init

RunnerStep  == part = "runners" /\ Next /\ UNCHANGED <<part, jobs, pool, market, limits, page>>
DeployStep  == part = "deploys" /\ Deploys!Next /\ UNCHANGED <<part, jobs, pool, market, limits, page>>
WorkerStep  == part = "worker" /\ Worker!Next /\ UNCHANGED <<part, vars, pool, market, limits, page>>
PoolStep    == part = "pool" /\ Pool!Next /\ UNCHANGED <<part, vars, jobs, market, limits, page>>
QuoteStep   == part = "quotes" /\ Market!Next /\ UNCHANGED <<part, vars, jobs, pool, limits, page>>
LimitStep   == part = "retries" /\ Limiter!Next /\ UNCHANGED <<part, vars, jobs, pool, market, page>>
PageStep    == part = "page" /\ Page!Next /\ UNCHANGED <<part, vars, jobs, pool, market, limits>>

PartsNext ==
  \/ RunnerStep \/ DeployStep \/ WorkerStep \/ PoolStep
  \/ QuoteStep \/ LimitStep \/ PageStep

\* The fairness of each component: that of its own FairSpec.
Fairness ==
  /\ WF_vars(part = "deploys" /\ \E r \in {"deploy"} : Deploys!Run(r) \/ Deploys!Step(r))
  /\ WF_jobs(part = "worker" /\ Worker!Clock)
  /\ WF_jobs(part = "worker" /\ Worker!Shutdown("worker"))
  /\ \A j \in DOMAIN Intervals :
       /\ WF_jobs(part = "worker" /\ Worker!Fire("worker", j))
       /\ WF_jobs(part = "worker" /\ Worker!End("worker", j))
  /\ \A t \in {"t1", "t2"} : WF_pool(part = "pool" /\ Pool!Step(t))
  /\ WF_market(part = "quotes" /\ Market!Feed("feed"))
  /\ WF_market(part = "quotes" /\ Market!Seeder("seeder"))
  /\ WF_limits(part = "retries" /\ Limiter!Clock)
  /\ \A c \in {"c", "d"} : WF_limits(part = "retries" /\ Limiter!Retries(c, "login"))
  /\ WF_page(part = "page" /\ Page!HistoryLoop)
  /\ WF_page(part = "page" /\ \E r \in flight : Page!Draw(r))

FairParts == PartsInit /\ [][PartsNext]_all /\ Fairness

-----------------------------------------------------------------------------
(* Properties, with LedgerAccurate and AppliedInOrder of Migrate *)

\* Every migration is applied at last (Migrate).
DeploysArrive == part = "deploys" => Deploys!MigrationsArrive

\* Every job of a worker is run again and again (Scheduler).
JobsGoOn == part = "worker" => Worker!JobsGoOn

\* No call of the pool waits for ever (ConnectionPool).
CallsReturn == part = "pool" => Pool!CallsReturn

\* The quote of an asset that can be fetched does not fall behind (MarketData).
QuotesKeepUp == part = "quotes" => Market!QuotesKeepUp

\* Who keeps asking is served again (RateLimit).
RetriesAreServed == part = "retries" => Limiter!RetriesAreServed

\* The page comes to show what is selected (Dashboard).
PageSettles == part = "page" => Page!PageSettles
=============================================================================
