------------------------------- MODULE Scales -------------------------------
(***************************************************************************)
(* Digits: what money.py and the scales of the columns in schema.sql do to *)
(* the numbers of one account and one asset on their way from a request    *)
(* or a quote to a balance.  Requests run one after the other here; how    *)
(* their statements interleave is the subject of Exchange.                 *)
(*                                                                         *)
(* Every number is counted in grains, Grain of which make one dollar or    *)
(* one share; a column of a certain scale holds multiples of its step.     *)
(* The product of two numbers is in grains of grains.                      *)
(***************************************************************************)
EXTENDS Integers

CONSTANTS
  None,
  Grain,                    \* grains in a dollar: the scale of a quote
  Cash, Share, Price,       \* steps of CASH_PLACES, QUANTITY_PLACES, PRICE_PLACES
  MaxMagnitude, MaxDeposit, \* MAX_MAGNITUDE, MAX_DEPOSIT
  MaxCash, MaxShare,        \* what NUMERIC(15,2) and NUMERIC(15,5) can hold
  Raw,                      \* numbers a request may carry
  Quotes,                   \* prices of the market
  Opening,
  MaxTrades                 \* bound: trades of the account

ScaleAssumption ==
  /\ None \notin Int
  /\ Grain \in Nat \ {0} /\ Cash \in Nat \ {0} /\ Share \in Nat \ {0} /\ Price \in Nat \ {0}
  /\ MaxMagnitude \in Nat /\ MaxDeposit \in Nat /\ MaxCash \in Nat /\ MaxShare \in Nat
  /\ Raw \subseteq Int /\ Quotes \subseteq Nat \ {0}
  /\ Opening \in 0 .. MaxCash /\ Opening % Cash = 0
  /\ MaxTrades \in Nat

VARIABLES
  balance,   \* wallets.balance
  shares,    \* portfolio.quantity, 0 when there is no row
  average,   \* portfolio.avg_price
  quote,     \* latest_prices_cache.price
  order,     \* the order placed last
  trades,    \* how many trades there were
  exact,     \* history: the balance, had nothing been rounded after the parsing
  paid       \* history: the lowest and the highest price paid for the position

vars == <<balance, shares, average, quote, order, trades, exact, paid>>

NoOrder == [status |-> "none", price |-> 0, quantity |-> 0]

Multiple(n, step) == n % step = 0

TypeOK ==
  /\ balance \in 0 .. MaxCash /\ Multiple(balance, Cash)
  /\ shares \in 0 .. MaxShare /\ Multiple(shares, Share)
  /\ average \in Nat /\ Multiple(average, Price)
  /\ quote \in Quotes
  /\ order.status \in {"none", "open", "filled"}
  /\ order.status # "none" =>
       /\ order.side \in {"buy", "sell"} /\ order.kind \in {"market", "limit", "stop_loss"}
       /\ order.quantity \in 1 .. MaxShare /\ Multiple(order.quantity, Share)
       /\ order.price \in Nat \ {0} /\ Multiple(order.price, Price)
       /\ order.kind # "market" => order.target \in Nat \ {0} /\ Multiple(order.target, Price)
  /\ trades \in 0 .. MaxTrades /\ exact \in Int
  /\ paid \in [low : Nat, high : Nat]

Init ==
  /\ balance = Opening /\ shares = 0 /\ average = 0
  /\ quote \in Quotes
  /\ order = NoOrder
  /\ trades = 0
  /\ exact = Opening * Grain
  /\ paid = [low |-> 0, high |-> 0]

-----------------------------------------------------------------------------
(* Rounding *)

\* Mutant: excess digits are cut off.
Truncate(n, step) == (n \div step) * step

\* The multiple of step next to n >= 0, the greater of two: ROUND_HALF_UP in
\* Decimal.quantize, and what NUMERIC does on assignment to a column.
Quantize(n, step) == ((2 * n + step) \div (2 * step)) * step

\* to_decimal: a number, or None for what it refuses.  Text that is no number is left
\* out of Raw; NaN and the infinities are refused like it.
ToDecimal(raw, places) ==
  IF raw <= 0 \/ raw > MaxMagnitude THEN None ELSE Quantize(raw, places)

\* wallets.balance <op> (price * quantity), on assignment to the column.
Settled(b, value) == Quantize(b * Grain + value, Cash * Grain) \div Grain

-----------------------------------------------------------------------------
(* Cash *)

\* POST /wallet/deposit and deposit_money.
Deposit(raw) ==
  LET amount == ToDecimal(raw, Cash) IN
  /\ amount # None /\ amount <= MaxDeposit
  /\ amount > 0
  /\ balance + amount <= MaxCash
  /\ balance' = balance + amount
  /\ exact' = exact + amount * Grain
  /\ UNCHANGED <<shares, average, quote, order, trades, paid>>

\* POST /wallet/withdraw and withdraw_money.
Withdraw(raw) ==
  LET amount == ToDecimal(raw, Cash) IN
  /\ amount # None
  /\ amount > 0 /\ balance >= amount
  /\ balance' = balance - amount
  /\ exact' = exact - amount * Grain
  /\ UNCHANGED <<shares, average, quote, order, trades, paid>>

-----------------------------------------------------------------------------
(* Orders *)

\* Mutant: divided by what was held before.
AverageOfOld(o) ==
  IF shares = 0 THEN o.price
  ELSE Quantize((average * shares + o.price * o.quantity) \div shares, Price)

\* avg_price after a purchase: the quotient, on assignment to its column.
NewAverage(o) ==
  LET n == average * shares + o.price * o.quantity  q == shares + o.quantity
  IN ((2 * n + Price * q) \div (2 * Price * q)) * Price

Lower(a, b)  == IF a < b THEN a ELSE b
Higher(a, b) == IF a < b THEN b ELSE a

Buy(o) ==
  LET b == Settled(balance, -(o.price * o.quantity)) IN
  /\ balance * Grain >= o.price * o.quantity
  /\ b >= 0 /\ shares + o.quantity <= MaxShare
  /\ balance' = b
  /\ exact' = exact - o.price * o.quantity
  /\ shares' = shares + o.quantity
  /\ average' = NewAverage(o)
  /\ paid' = [low  |-> IF shares = 0 THEN o.price ELSE Lower(paid.low, o.price),
              high |-> IF shares = 0 THEN o.price ELSE Higher(paid.high, o.price)]

Sell(o) ==
  LET b == Settled(balance, o.price * o.quantity) IN
  /\ shares >= o.quantity
  /\ b <= MaxCash
  /\ balance' = b
  /\ exact' = exact + o.price * o.quantity
  /\ shares' = shares - o.quantity
  /\ average' = IF shares' = 0 THEN 0 ELSE average
  /\ UNCHANGED paid

\* execute_trade for order o at the quote, which is rounded when it is written to
\* orders.price; a price that becomes 0 fails its CHECK.
Execute(o) ==
  LET f == [o EXCEPT !.status = "filled", !.price = Quantize(quote, Price)] IN
  /\ trades < MaxTrades /\ trades' = trades + 1
  /\ f.price > 0
  /\ IF o.side = "buy" THEN Buy(f) ELSE Sell(f)
  /\ order' = f
  /\ UNCHANGED quote

\* POST /order and place_order; an order that fills at once ...
PlaceMarket(side, raw) ==
  LET quantity == ToDecimal(raw, Share) IN
  /\ quantity # None /\ quantity > 0
  /\ Execute([status |-> "open", side |-> side, kind |-> "market", quantity |-> quantity,
              price |-> quote])

\* ... and one that waits: its target is rounded before it is compared with 0 again.
PlaceTarget(side, kind, raw, target) ==
  LET quantity == ToDecimal(raw, Share)  t == ToDecimal(target, Price) IN
  /\ order.status # "open"
  /\ quantity # None /\ t # None
  /\ quantity > 0 /\ t > 0 /\ quantity <= MaxShare
  /\ order' = [status |-> "open", side |-> side, kind |-> kind, quantity |-> quantity,
               price |-> t, target |-> t]
  /\ UNCHANGED <<balance, shares, average, quote, trades, exact, paid>>

\* Mutant: both sides wait for a low price.
TriggeredBelow(o, p) == p <= o.target

\* The condition of process_limit_orders, on the price before it is rounded.
Triggered(o, p) ==
  IF (o.kind = "limit") = (o.side = "buy") THEN p <= o.target ELSE p >= o.target

\* process_limit_orders
Match ==
  /\ order.status = "open" /\ Triggered(order, quote)
  /\ Execute(order)

NewQuote(p) ==
  /\ p # quote /\ quote' = p
  /\ UNCHANGED <<balance, shares, average, order, trades, exact, paid>>

Next ==
  \/ \E raw \in Raw : Deposit(raw) \/ Withdraw(raw)
  \/ \E side \in {"buy", "sell"}, raw \in Raw :
       \/ PlaceMarket(side, raw)
       \/ \E kind \in {"limit", "stop_loss"}, target \in Raw : PlaceTarget(side, kind, raw, target)
  \/ Match
  \/ \E p \in Quotes : NewQuote(p)

Spec == Init /\ [][Next]_vars

-----------------------------------------------------------------------------
(* Properties *)

Abs(n) == IF n < 0 THEN -n ELSE n

\* Balances lose or gain at most half a cent in each trade, and nothing in deposits
\* and withdrawals: after any number of them the balance is that close to the exact one.
DriftBounded == 2 * Abs(balance * Grain - exact) <= trades * Cash * Grain

\* An order that names a price keeps to it, although it is the quote of eight digits
\* that is compared and one of five that is paid.
TargetKept ==
  order.status = "filled" /\ order.kind # "market" =>
    IF <<order.kind, order.side>> \in {<<"limit", "buy">>, <<"stop_loss", "sell">>}
    THEN order.price <= order.target ELSE order.price >= order.target

\* However often it is rounded, the average price of a position is between the lowest
\* and the highest price that was paid for it.
AverageBetween == shares > 0 => paid.low <= average /\ average <= paid.high
=============================================================================
