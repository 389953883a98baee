----------------------------- MODULE Dashboard ------------------------------
(***************************************************************************)
(* The page of the markets (dashboard.html): handlers and timers of one    *)
(* browser, which run one at a time, and the answers they await, which     *)
(* come in any order.  What is selected when a request is sent may not be  *)
(* when it is answered, and each part of the page shows the last answer.   *)
(***************************************************************************)
EXTENDS Integers

CONSTANTS
  None,
  Assets,
  Parts,               \* the parts of the page that show data of the selected asset
  MaxClicks, MaxFailures    \* bounds

DashboardAssumption ==
  /\ Parts \subseteq {"chart", "book", "trades"} /\ None \notin Assets
  /\ MaxClicks \in Nat /\ MaxFailures \in Nat

VARIABLES
  selected,    \* selectedAssetId, with selectedAssetSymbol
  period,      \* chartPeriod: whether "1D"
  shown,       \* what each part of the page shows
  flight,      \* the requests that are not answered
  history,     \* historyLoop: "timer", "await" or, after an exception, "stopped"
  clicks, failures

vars == <<selected, period, shown, flight, history, clicks, failures>>

Periods == {"1D", "1M"}

\* by: the click a request comes from, or 0 for historyLoop.
Request == [part : Parts, asset : Assets, period : Periods, by : 0 .. MaxClicks]

\* What a part shows: the asset whose data it has; for the chart, the asset its label names,
\* the period of the data and the one they are read for (d.price or d.close).
Drawing == [asset : Assets, label : Assets, period : Periods, read : Periods]

TypeOK ==
  /\ selected \in Assets \cup {None} /\ period \in Periods
  /\ shown \in [Parts -> Drawing \cup {None}]
  /\ flight \subseteq Request
  /\ history \in {"timer", "await", "stopped"}
  /\ (history = "timer" => \A r \in flight : r.by # 0)
  /\ clicks \in 0 .. MaxClicks /\ failures \in 0 .. MaxFailures

Init ==
  /\ selected = None /\ period = "1D"
  /\ shown = [w \in Parts |-> None]
  /\ flight = {} /\ history = "timer"
  /\ clicks = 0 /\ failures = 0

-----------------------------------------------------------------------------
(* Handlers and timers *)

Load(parts, a, p, by) == {[part |-> w, asset |-> a, period |-> p, by |-> by] : w \in parts}

Click == clicks < MaxClicks /\ clicks' = clicks + 1

\* selectAsset: on an asset of the list, or by refreshDashboard on the first one.
SelectAsset(a) ==
  /\ Click
  /\ selected' = a
  /\ flight' = flight \cup Load(Parts, a, period, clicks')
  /\ UNCHANGED <<period, shown, history, failures>>

\* setChartPeriod, and updateAssetChart, which asks for nothing before an asset is selected.
SetChartPeriod(p) ==
  /\ Click
  /\ period' = p
  /\ flight' = IF selected = None THEN flight ELSE flight \cup Load({"chart"}, selected, p, clicks')
  /\ UNCHANGED <<selected, shown, history, failures>>

\* Mutant: the chart is left out of the loop.
HistoryLoopNoChart ==
  /\ history = "timer" /\ selected # None
  /\ history' = "await"
  /\ flight' = flight \cup Load(Parts \ {"chart"}, selected, period, 0)
  /\ UNCHANGED <<selected, period, shown, clicks, failures>>

\* historyLoop: every 15 seconds after the last answers.
HistoryLoop ==
  /\ history = "timer" /\ selected # None
  /\ history' = "await"
  /\ flight' = flight \cup Load(Parts, selected, period, 0)
  /\ UNCHANGED <<selected, period, shown, clicks, failures>>

\* Promise.all, and the timer set again.
Answered(r) ==
  /\ flight' = flight \ {r}
  /\ history' = IF history = "await" /\ \A q \in flight' : q.by # 0 THEN "timer" ELSE history

\* The rest of updateAssetChart, loadOrderBook and loadRecentMarketTrades, after fetch: the
\* chart is labelled by what is selected now and its data are read for the period of now.
Draw(r) ==
  /\ Answered(r)
  /\ shown' = [shown EXCEPT ![r.part] =
       [asset |-> r.asset, label |-> selected, period |-> r.period, read |-> period]]
  /\ UNCHANGED <<selected, period, clicks, failures>>

\* A request fails: fetch or json throws, and Promise.all of historyLoop with it.  An answer
\* of JSON that is an error, as of the limiter, is not a list: data.map throws after the old
\* chart has been destroyed; the order book shows that it has no data.
Fail(r) ==
  /\ failures < MaxFailures /\ failures' = failures + 1
  /\ \/ /\ flight' = flight \ {r}
        /\ history' = IF r.by = 0 THEN "stopped" ELSE history
        /\ shown' \in {shown, [shown EXCEPT !["chart"] = IF r.part = "chart" THEN None ELSE @]}
     \/ /\ r.part = "book" /\ Answered(r)
        /\ shown' = [shown EXCEPT !["book"] = None]
  /\ UNCHANGED <<selected, period, clicks>>

Next ==
  \/ \E a \in Assets : SelectAsset(a)
  \/ \E p \in Periods : SetChartPeriod(p)
  \/ HistoryLoop
  \/ \E r \in flight : Draw(r) \/ Fail(r)

Spec == Init /\ [][Next]_vars

\* The timer goes off, and of the requests on the way some are answered.
FairSpec ==
  /\ Spec /\ WF_vars(HistoryLoop)
  /\ WF_vars(\E r \in flight : Draw(r))

-----------------------------------------------------------------------------
(* Properties *)

\* Once the user has stopped clicking, the page comes to show what is selected, whichever
\* answers came last: nothing else puts right a chart that was drawn for another asset.
\* (A request that fails ends the loop for good, see Fail.)
PageSettles ==
  <>[](selected # None /\ failures = 0 =>
         /\ \A w \in Parts : shown[w] # None /\ shown[w].asset = selected
         /\ shown["chart"].label = selected
         /\ shown["chart"].period = period /\ shown["chart"].read = period)
=============================================================================
