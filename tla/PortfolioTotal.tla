--------------------------- MODULE PortfolioTotal ---------------------------
(***************************************************************************)
(* The portfolio total at the top of the page: refreshDashboard adds up    *)
(* what /api/portfolio has sent, while the account is traded on.           *)
(***************************************************************************)
EXTENDS Integers, FiniteSetsExt

CONSTANTS Assets, None,
          MaxTrades      \* bound

VARIABLES
  values,    \* in the database: the value of the position in each asset
  portfolio, \* the answer to /api/portfolio that refreshDashboard works on
  total,     \* global-portfolio
  trades

vars == <<values, portfolio, total, trades>>

\* Values in multiples of a cent.
Values == [Assets -> 0 .. MaxTrades]

TypeOK ==
  /\ values \in Values /\ portfolio \in Values \cup {None} /\ total \in Nat
  /\ trades \in 0 .. MaxTrades

Init == values = [a \in Assets |-> 0] /\ portfolio = None /\ total = 0 /\ trades = 0

\* A trade changes the value of a position.
Trade(a, v) ==
  /\ trades < MaxTrades /\ trades' = trades + 1
  /\ v # values[a] /\ values' = [values EXCEPT ![a] = v]
  /\ UNCHANGED <<portfolio, total>>

\* dashboardLoop: the answers have come, one second or more after the last ones.
Receive ==
  /\ portfolio = None /\ portfolio' = values
  /\ UNCHANGED <<values, total, trades>>

\* get_portfolio answers with the positions that are not empty.
Held(v) == {a \in Assets : v[a] > 0}

\* totalVal += i.current_value with strings: 0 and a string give the string with a zero
\* before it; two strings in a row have two points, are no number, and are shown as 0.
Concatenated(v) == IF Cardinality(Held(v)) = 1 THEN v[CHOOSE a \in Held(v) : TRUE] ELSE 0

RefreshDashboard ==
  /\ portfolio # None /\ portfolio' = None
  /\ total' = Concatenated(portfolio)
  /\ UNCHANGED <<values, trades>>

Next ==
  \/ \E a \in Assets, v \in 0 .. MaxTrades : Trade(a, v)
  \/ Receive \/ RefreshDashboard

Spec == Init /\ [][Next]_vars

-----------------------------------------------------------------------------
\* The total is what the page was sent: "Nothing in the UI does arithmetic on money - every
\* figure shown is computed by the database and rendered as received" (util.js).
TotalAsReceived ==
  [][RefreshDashboard => total' = MapThenSumSet(LAMBDA a : portfolio[a], Assets)]_vars
=============================================================================
