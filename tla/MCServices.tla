----------------------------- MODULE MCServices -----------------------------
(***************************************************************************)
(* Application, Scales and MarketData for TLC.  As the parts share no      *)
(* state, their product would hold nothing that each does not hold, and a  *)
(* behaviour is about one of them: part says which, and the variables of   *)
(* the others keep their initial values.  Some parts are there twice, with *)
(* different bounds.                                                       *)
(***************************************************************************)
EXTENDS Application, TLC

VARIABLES
  part,
  account, shares, average, quote, order, trades, exact, paid,  \* Scales
  clock, rows, cache, daily, locked, proc, fails                \* MarketData

digits == <<account, shares, average, quote, order, trades, exact, paid>>
market == <<clock, rows, cache, daily, locked, proc, fails>>

Parts == {"accounts", "resets", "logouts", "wallets", "trades", "limits", "restarts",
          "compose", "reloader", "digits", "prices", "killed"}

-----------------------------------------------------------------------------
(* Instances and values *)

\* Two browsers with a request each, a browser with two on the way, and users who all want
\* the same name, but for case.
OneEach  == INSTANCE Accounts WITH InFlight <- 1, MaxSent <- 3, MaxResets <- 0
OnePage  == INSTANCE Accounts WITH Browsers <- {"b1"}, Letters <- {"a"}, MaxResets <- 0
Rivals   == INSTANCE Accounts WITH InFlight <- 1, Letters <- {"a"}

\* Amounts and spans are scaled down: RATELIMIT_LOGIN has a short limit that is used up
\* before the long one.  Two web processes count in their own memory.
OwnAddress(c) == c
LoginLimits   == "login" :> <<[amount |-> 3, span |-> 1], [amount |-> 4, span |-> 3]>>
LoginPace     == "login" :> 6

\* The matching job is due more often.
Intervals == ("process_limits" :> 2) @@ ("expire_orders" :> 5)

\* Deposits, withdrawals and trades.
Payments    == {2, -3}
Settlements == {1, -2}

\* Eight grains in a dollar, four in a price and in a cent, two in a share: quotes of 1, 3, 5
\* and 11 are rounded to 0, 4, 4 and 12.
Digits == INSTANCE Scales WITH
  balance <- account, Grain <- 8, Cash <- 4, Share <- 2, Price <- 4,
  MaxMagnitude <- 20, MaxDeposit <- 12, MaxCash <- 32, MaxShare <- 20,
  Raw <- {0, 1, 3, 9, 21}, Quotes <- {1, 3, 5, 11}, Opening <- 24, MaxTrades <- 2

\* A day of two units; prices that change, and processes that fail or are killed and start
\* again.
Ticks == INSTANCE MarketData WITH
  now <- clock, Assets <- {"a"}, Prices <- {1, 2}, Feeds <- {"f"}, Seeders <- {"s"},
  Reliable <- {"a"}, Day <- 2, Month <- 4, RealDays <- 1, Depth <- 3, Enough <- 3,
  SeedDays <- 3, Start <- 6, MaxNow <- 7, MaxFails <- 0, MaxRuns <- 1

Killed == INSTANCE MarketData WITH
  now <- clock, Assets <- {"a"}, Prices <- {1}, Feeds <- {"f"}, Seeders <- {"s"},
  Reliable <- {"a"}, Day <- 2, Month <- 4, RealDays <- 1, Depth <- 3, Enough <- 3,
  SeedDays <- 3, Start <- 6, MaxNow <- 7, MaxFails <- 1, MaxRuns <- 2

ASSUME ServiceAssumption ==
  /\ OneEach!AccountAssumption /\ OnePage!AccountAssumption /\ Rivals!AccountAssumption
  /\ Digits!ScaleAssumption /\ Ticks!MarketAssumption /\ Killed!MarketAssumption

-----------------------------------------------------------------------------
\* What has a choice of initial values begins with one of them when it is not the part.
ServicesInit ==
  /\ part \in Parts
  /\ AppInit /\ Digits!Init /\ Ticks!Init
  /\ part # "trades" => reader.asks = 1
  /\ part # "digits" => quote = 3

\* Two processes that both stay, and one that may be replaced.
BothStay  == restarts' = 0
OneServes == counter'["w2"] = L!Fresh

\* docker-compose.yml: two web processes of gunicorn and a worker; "python -m backend.app"
\* with the reloader is the other deployment.  DEBUG and ENABLE_SCHEDULER are read there only.
Composed == \A p \in Apps : state'[p] = "down"
Reloaded == \A p \in Workers \cup Web : state'[p] = "down"

Step ==
  \/ part = "wallets"  /\ WalletStep
  \/ part = "trades"   /\ ListStep
  \/ part = "limits"   /\ LimitStep /\ BothStay
  \/ part = "restarts" /\ LimitStep /\ OneServes
  \/ part = "compose"  /\ JobStep /\ Composed
  \/ part = "reloader" /\ JobStep /\ Reloaded
  \/ /\ UNCHANGED <<cash, list, limits, jobs>>
     /\ \/ part = "accounts" /\ OneEach!Next
        \/ part = "resets"   /\ Rivals!Next
        \/ part = "logouts"  /\ OnePage!Next

ServicesNext ==
  \/ Step /\ UNCHANGED <<part, digits, market>>
  \/ part = "digits" /\ Digits!Next /\ UNCHANGED <<part, all, market>>
  \/ part = "prices" /\ Ticks!Next /\ UNCHANGED <<part, all, digits>>
  \/ part = "killed" /\ Killed!Next /\ UNCHANGED <<part, all, digits>>

ServicesSpec == ServicesInit /\ [][ServicesNext]_<<part, all, digits, market>>

-----------------------------------------------------------------------------
(* Properties, with those of Application and Accounts *)

\* A balance drifts by at most half a cent in each trade (Scales).
DriftBounded == Digits!DriftBounded

\* An order keeps to the price it names (Scales).
TargetKept == Digits!TargetKept

\* An average price is between the prices it is the average of (Scales).
AverageBetween == Digits!AverageBetween

\* The cache of prices shows the newest tick (MarketData).
CacheShowsNewest == Ticks!CacheShowsNewest

\* The chart has what seed_demo has inserted (MarketData).
SeedShown == Ticks!SeedShown
=============================================================================
