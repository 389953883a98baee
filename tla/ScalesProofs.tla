---------------------------- MODULE ScalesProofs ----------------------------
(***************************************************************************)
(* Rounding, proved for all steps, prices and quantities.                  *)
(***************************************************************************)
EXTENDS Scales, TLAPS

-----------------------------------------------------------------------------
(* Division *)

LEMMA Division ==
  ASSUME NEW n \in Int, NEW d \in Nat \ {0}
  PROVE  /\ n \div d \in Int /\ n % d \in Int
         /\ d * (n \div d) <= n /\ n < d * (n \div d) + d
OBVIOUS

LEMMA Quotient ==
  ASSUME NEW n \in Int, NEW d \in Nat \ {0}, NEW k \in Int, d * k <= n, n < d * k + d
  PROVE  n \div d = k
OBVIOUS

LEMMA MultipleOf ==
  ASSUME NEW n \in Int, NEW d \in Nat \ {0}
  PROVE  n % d = 0 <=> n = d * (n \div d)
OBVIOUS

LEMMA ProductIsMultiple ==
  ASSUME NEW k \in Int, NEW d \in Nat \ {0}
  PROVE  (k * d) % d = 0 /\ (k * d) \div d = k
OBVIOUS

-----------------------------------------------------------------------------
(* Quantize *)

\* What is quantized is a multiple of the step, and off by half a step at most.
LEMMA QuantizeError ==
  ASSUME NEW n \in Int, NEW step \in Nat \ {0}
  PROVE  /\ Quantize(n, step) \in Int
         /\ Quantize(n, step) % step = 0
         /\ 2 * Quantize(n, step) <= 2 * n + step /\ 2 * n < 2 * Quantize(n, step) + step
<1> DEFINE k == (2 * n + step) \div (2 * step)
<1>1. k \in Int /\ 2 * step * k <= 2 * n + step /\ 2 * n + step < 2 * step * k + 2 * step
  BY Division, 2 * n + step \in Int, 2 * step \in Nat \ {0}
<1>2. Quantize(n, step) = k * step
  BY DEF Quantize
<1>3. 2 * step * k = 2 * (k * step) /\ k * step \in Int
  BY <1>1
<1>4. (k * step) % step = 0
  BY <1>1, ProductIsMultiple
<1> HIDE DEF k
<1> QED BY <1>1, <1>2, <1>3, <1>4

\* It is on the same side of a multiple of the step, or on it.
LEMMA QuantizeKeepsOrder ==
  ASSUME NEW n \in Int, NEW step \in Nat \ {0}, NEW m \in Int, m % step = 0
  PROVE  /\ n <= m => Quantize(n, step) <= m
         /\ m <= n => m <= Quantize(n, step)
<1> DEFINE k == (2 * n + step) \div (2 * step)
           l == m \div step
<1>1. k \in Int /\ 2 * step * k <= 2 * n + step /\ 2 * n + step < 2 * step * k + 2 * step
  BY Division, 2 * n + step \in Int, 2 * step \in Nat \ {0}
<1>2. l \in Int /\ m = step * l
  BY Division, MultipleOf
<1>3. Quantize(n, step) = step * k
  BY <1>1 DEF Quantize
<1> HIDE DEF k, l
<1>4. ASSUME n <= m PROVE step * k <= step * l
  <2>1. 2 * step * k < 2 * step * (l + 1) + step
    BY <1>1, <1>2, <1>4
  <2>2. k <= l
    <3>1. CASE k >= l + 1
      <4>1. 2 * step * k <= 2 * step * l + step
        BY <1>1, <1>2, <1>4
      <4>2. step * k >= step * (l + 1)
        BY <1>1, <1>2, <3>1
      <4> QED BY <4>1, <4>2, <1>1, <1>2
    <3> QED BY <3>1, <1>1, <1>2
  <2> QED BY <2>2, <1>1, <1>2
<1>5. ASSUME m <= n PROVE step * l <= step * k
  <2>1. l <= k
    <3>1. CASE l >= k + 1
      <4>1. step * l >= step * (k + 1)
        BY <1>1, <1>2, <3>1
      <4> QED BY <4>1, <1>1, <1>2, <1>5
    <3> QED BY <3>1, <1>1, <1>2
  <2> QED BY <2>1, <1>1, <1>2
<1> QED BY <1>2, <1>3, <1>4, <1>5

\* A balance after a trade: a multiple of a cent, and half a cent off at most.
LEMMA SettledError ==
  ASSUME ScaleAssumption, NEW b \in Int, NEW value \in Int
  PROVE  /\ Settled(b, value) \in Int /\ Settled(b, value) % Cash = 0
         /\ 2 * (Settled(b, value) * Grain) <= 2 * (b * Grain + value) + Cash * Grain
         /\ 2 * (b * Grain + value) <= 2 * (Settled(b, value) * Grain) + Cash * Grain
<1> DEFINE n == b * Grain + value
           q == Quantize(n, Cash * Grain)
<1>1. Grain \in Nat \ {0} /\ Cash \in Nat \ {0}
  BY DEF ScaleAssumption
<1>2. n \in Int /\ Cash * Grain \in Nat \ {0}
  BY <1>1
<1>3. q \in Int /\ q % (Cash * Grain) = 0
      /\ 2 * q <= 2 * n + Cash * Grain /\ 2 * n < 2 * q + Cash * Grain
  BY <1>2, QuantizeError
<1>4. PICK k \in Int : q = Cash * Grain * k
  BY <1>2, <1>3, MultipleOf, Division
<1>5. q = (k * Cash) * Grain
  BY <1>1, <1>4
<1>6. Settled(b, value) = k * Cash
  BY <1>1, <1>5, ProductIsMultiple, k * Cash \in Int DEF Settled
<1>7. (k * Cash) % Cash = 0
  BY <1>1, ProductIsMultiple
<1> HIDE DEF n, q
<1>8. Settled(b, value) * Grain = q
  BY <1>5, <1>6
<1> QED BY <1>1, <1>2, <1>3, <1>6, <1>7, <1>8 DEF n

\* The average of prices that are multiples of the step stays between their bounds.
Mean(n, q, step) == ((2 * n + step * q) \div (2 * step * q)) * step

LEMMA AverageBounds ==
  ASSUME NEW n \in Int, NEW q \in Nat \ {0}, NEW step \in Nat \ {0}, NEW m \in Int, m % step = 0
  PROVE  /\ Mean(n, q, step) \in Int /\ Mean(n, q, step) % step = 0
         /\ m * q <= n => m <= Mean(n, q, step)
         /\ n <= m * q => Mean(n, q, step) <= m
<1> DEFINE r == Mean(n, q, step)
           k == (2 * n + step * q) \div (2 * step * q)
           l == m \div step
<1>1. 2 * step * q \in Nat \ {0} /\ 2 * n + step * q \in Int
  OBVIOUS
<1>2. k \in Int /\ 2 * step * q * k <= 2 * n + step * q
      /\ 2 * n + step * q < 2 * step * q * k + 2 * step * q
  BY <1>1, Division
<1>3. l \in Int /\ m = step * l
  BY Division, MultipleOf
<1>4. r = k * step
  BY DEF Mean
<1> HIDE DEF k, l, r
<1> DEFINE w == step * q
<1>5. w \in Nat \ {0} /\ m * q = w * l
  BY <1>3
<1>6. 2 * (w * k) <= 2 * n + w /\ 2 * n + w < 2 * (w * k) + 2 * w
  BY <1>2
<1> HIDE DEF w
<1>7. ASSUME m * q <= n PROVE l <= k
  <2>1. CASE l >= k + 1
    <3>1. w * l >= w * (k + 1)
      BY <1>2, <1>3, <1>5, <2>1
    <3> QED BY <3>1, <1>2, <1>3, <1>5, <1>6, <1>7
  <2> QED BY <2>1, <1>2, <1>3
<1>8. ASSUME n <= m * q PROVE k <= l
  <2>1. CASE k >= l + 1
    <3>1. w * k >= w * (l + 1)
      BY <1>2, <1>3, <1>5, <2>1
    <3> QED BY <3>1, <1>2, <1>3, <1>5, <1>6, <1>8
  <2> QED BY <2>1, <1>2, <1>3
<1>9. r \in Int /\ r % step = 0
  BY <1>2, <1>4, ProductIsMultiple
<1>10. l <= k => m <= r
  BY <1>2, <1>3, <1>4
<1>11. k <= l => r <= m
  BY <1>2, <1>3, <1>4
<1> QED BY <1>7, <1>8, <1>9, <1>10, <1>11 DEF r

LEMMA SumIsMultiple ==
  ASSUME NEW a \in Int, NEW b \in Int, NEW d \in Nat \ {0}, a % d = 0, b % d = 0
  PROVE  (a + b) % d = 0 /\ (a - b) % d = 0
<1> DEFINE k == a \div d
           l == b \div d
<1>1. k \in Int /\ a = d * k
  BY MultipleOf, Division
<1>2. l \in Int /\ b = d * l
  BY MultipleOf, Division
<1> HIDE DEF k, l
<1>3. a + b = (k + l) * d /\ a - b = (k - l) * d
  BY <1>1, <1>2
<1>4. k + l \in Int /\ k - l \in Int
  BY <1>1, <1>2
<1> QED BY <1>3, <1>4, ProductIsMultiple

\* What to_decimal accepts is rounded.
LEMMA Accepted ==
  ASSUME ScaleAssumption, NEW raw \in Raw, NEW places \in Nat \ {0}, ToDecimal(raw, places) # None
  PROVE  ToDecimal(raw, places) \in Int /\ ToDecimal(raw, places) % places = 0
<1>1. raw \in Int
  BY DEF ScaleAssumption
<1>2. ToDecimal(raw, places) = Quantize(raw, places)
  BY DEF ToDecimal
<1> QED BY <1>1, <1>2, QuantizeError

-----------------------------------------------------------------------------
(* The inductive invariant *)

Sides == {"buy", "sell"}
MarketOrder == [status : {"open", "filled"}, side : Sides, kind : {"market"}, quantity : Int, price : Int]
TargetOrder == [status : {"open", "filled"}, side : Sides, kind : {"limit", "stop_loss"},
                quantity : Int, price : Int, target : Int]

\* An order is a record of one of three forms, and the average price of a position is
\* between two prices that were paid, which the column of the average can hold.
OrderKnown == order \in {NoOrder} \cup MarketOrder \cup TargetOrder
PaidPrices ==
  shares > 0 => /\ Multiple(paid.low, Price) /\ Multiple(paid.high, Price)
                /\ paid.low <= average /\ average <= paid.high

Inv == TypeOK /\ OrderKnown /\ PaidPrices /\ DriftBounded /\ TargetKept

LEMMA InitInv == ASSUME ScaleAssumption PROVE Init => Inv
<1> SUFFICES ASSUME Init PROVE Inv
  OBVIOUS
<1> USE ScaleAssumption DEF ScaleAssumption
<1>1. 0 % Cash = 0 /\ 0 % Share = 0 /\ 0 % Price = 0 /\ Opening % Cash = 0
  OBVIOUS
<1>2. TypeOK
  BY <1>1 DEF Init, TypeOK, Multiple, NoOrder
<1>3. DriftBounded
  BY DEF Init, DriftBounded, Abs
<1> QED BY <1>2, <1>3 DEF Init, Inv, OrderKnown, PaidPrices, TargetKept, NoOrder

LEMMA DepositInv ==
  ASSUME ScaleAssumption, Inv, NEW raw \in Raw, Deposit(raw)
  PROVE  Inv'
<1> USE ScaleAssumption DEF ScaleAssumption
<1> DEFINE a == ToDecimal(raw, Cash)
<1>1. a \in Int /\ a % Cash = 0 /\ a > 0
  BY Accepted DEF Deposit
<1> HIDE DEF a
<1>2. balance' = balance + a /\ exact' = exact + a * Grain /\ balance + a <= MaxCash
      /\ UNCHANGED <<shares, average, quote, order, trades, paid>>
  BY DEF Deposit, a
<1>3. balance \in 0 .. MaxCash /\ balance % Cash = 0 /\ exact \in Int
  BY DEF Inv, TypeOK, Multiple
<1>4. (balance + a) % Cash = 0
  <2>1. balance \in Int /\ Cash \in Nat \ {0}
    BY <1>3
  <2> QED BY ONLY <1>1, <1>3, <2>1, SumIsMultiple
<1>5. TypeOK'
  BY <1>1, <1>2, <1>3, <1>4 DEF Inv, TypeOK, Multiple
<1>6. balance' * Grain - exact' = balance * Grain - exact
  BY <1>1, <1>2, <1>3
<1>7. DriftBounded'
  BY <1>2, <1>6 DEF Inv, DriftBounded
<1> QED BY <1>2, <1>5, <1>7 DEF Inv, OrderKnown, PaidPrices, TargetKept

LEMMA WithdrawInv ==
  ASSUME ScaleAssumption, Inv, NEW raw \in Raw, Withdraw(raw)
  PROVE  Inv'
<1> USE ScaleAssumption DEF ScaleAssumption
<1> DEFINE a == ToDecimal(raw, Cash)
<1>1. a \in Int /\ a % Cash = 0 /\ a > 0
  BY Accepted DEF Withdraw
<1> HIDE DEF a
<1>2. balance' = balance - a /\ exact' = exact - a * Grain /\ balance >= a
      /\ UNCHANGED <<shares, average, quote, order, trades, paid>>
  BY DEF Withdraw, a
<1>3. balance \in 0 .. MaxCash /\ balance % Cash = 0 /\ exact \in Int
  BY DEF Inv, TypeOK, Multiple
<1>4. (balance - a) % Cash = 0
  <2>1. balance \in Int /\ Cash \in Nat \ {0}
    BY <1>3
  <2> QED BY ONLY <1>1, <1>3, <2>1, SumIsMultiple
<1>5. TypeOK'
  BY <1>1, <1>2, <1>3, <1>4 DEF Inv, TypeOK, Multiple
<1>6. balance' * Grain - exact' = balance * Grain - exact
  BY <1>1, <1>2, <1>3
<1>7. DriftBounded'
  BY <1>2, <1>6 DEF Inv, DriftBounded
<1> QED BY <1>2, <1>5, <1>7 DEF Inv, OrderKnown, PaidPrices, TargetKept

\* An order that is filled.
Filling(f) ==
  /\ f \in MarketOrder \cup TargetOrder /\ f.status = "filled"
  /\ f.price = Quantize(quote, Price) /\ f.price > 0
  /\ f.quantity > 0 /\ Multiple(f.quantity, Share)
  /\ f.kind # "market" => f.target \in Nat \ {0} /\ Multiple(f.target, Price)
  /\ trades < MaxTrades /\ trades' = trades + 1
  /\ order' = f
  /\ UNCHANGED quote

LEMMA FillTypes ==
  ASSUME ScaleAssumption, Inv, NEW f, Filling(f)
  PROVE  /\ Grain \in Nat \ {0} /\ Cash \in Nat \ {0} /\ Share \in Nat \ {0} /\ Price \in Nat \ {0}
         /\ quote \in Nat \ {0} /\ f.price \in Nat \ {0} /\ f.price % Price = 0
         /\ f.quantity \in Nat \ {0} /\ f.quantity % Share = 0
         /\ f.price * f.quantity \in Nat
         /\ balance \in Nat /\ balance % Cash = 0
         /\ shares \in Nat /\ shares % Share = 0 /\ average \in Nat /\ average % Price = 0
         /\ exact \in Int /\ trades \in Nat /\ paid \in [low : Nat, high : Nat]
<1> USE ScaleAssumption DEF ScaleAssumption
<1>1. quote \in Int /\ quote > 0 /\ Price \in Nat \ {0}
  BY DEF Inv, TypeOK
<1>2. f.price \in Int /\ f.price % Price = 0
  BY <1>1, QuantizeError DEF Filling
<1>3. f.price \in Nat \ {0} /\ f.quantity \in Nat \ {0}
  BY <1>2 DEF Filling, MarketOrder, TargetOrder
<1>4. f.price * f.quantity \in Nat
  BY <1>3
<1> QED BY <1>1, <1>2, <1>3, <1>4 DEF Inv, TypeOK, Filling, Multiple

\* What a trade changes but for the wallet and the position.
LEMMA FillRest ==
  ASSUME ScaleAssumption, Inv, NEW f, Filling(f), f.quantity <= MaxShare,
         balance' \in 0 .. MaxCash, Multiple(balance', Cash),
         shares' \in 0 .. MaxShare, Multiple(shares', Share),
         average' \in Nat, Multiple(average', Price),
         exact' \in Int, paid' \in [low : Nat, high : Nat]
  PROVE  TypeOK' /\ OrderKnown'
<1>1. order'.side \in Sides /\ order'.kind \in {"market", "limit", "stop_loss"}
  BY DEF Filling, MarketOrder, TargetOrder
<1>2. order'.status = "filled" /\ order'.quantity \in 1 .. MaxShare /\ Multiple(order'.quantity, Share)
      /\ order'.price \in Nat \ {0} /\ Multiple(order'.price, Price)
  BY FillTypes, ScaleAssumption DEF Filling, ScaleAssumption, Multiple
<1>3. order'.kind # "market" => order'.target \in Nat \ {0} /\ Multiple(order'.target, Price)
  BY DEF Filling
<1>4. quote' \in Quotes /\ trades' \in 0 .. MaxTrades
  BY ScaleAssumption DEF Filling, Inv, TypeOK, ScaleAssumption
<1>5. OrderKnown'
  BY DEF Filling, OrderKnown
<1> QED BY <1>1, <1>2, <1>3, <1>4, <1>5 DEF TypeOK, Sides

\* The balance is settled with one more rounding.
LEMMA FillDrift ==
  ASSUME ScaleAssumption, Inv, NEW f, Filling(f), NEW v \in Int,
         balance' = Settled(balance, v), exact' = exact + v
  PROVE  DriftBounded'
<1> USE FillTypes
<1>1. balance \in Int /\ exact \in Int /\ trades \in Nat /\ Grain \in Nat \ {0} /\ Cash \in Nat \ {0}
  OBVIOUS
<1> DEFINE half == Cash * Grain
           d == balance * Grain - exact
           e == balance' * Grain - exact'
<1>2. balance' \in Int
      /\ 2 * (balance' * Grain) <= 2 * (balance * Grain + v) + half
      /\ 2 * (balance * Grain + v) <= 2 * (balance' * Grain) + half
  BY <1>1, SettledError, ScaleAssumption
<1>3. d \in Int /\ e \in Int /\ half \in Nat
  BY <1>1, <1>2
<1>4. 2 * e <= 2 * d + half /\ 2 * d <= 2 * e + half
  BY <1>1, <1>2
<1>5. 2 * Abs(d) <= trades * half
  BY <1>1 DEF Inv, DriftBounded
<1>6. trades' * half = trades * half + half /\ trades * half \in Int
  BY <1>1, <1>3 DEF Filling
<1>7. DriftBounded' <=> 2 * Abs(e) <= trades' * half
  BY <1>1, <1>2 DEF DriftBounded, Filling
<1> HIDE DEF half, d, e
<1>8. 2 * Abs(e) <= trades' * half
  BY ONLY <1>3, <1>4, <1>5, <1>6 DEF Abs
<1> QED BY <1>7, <1>8

\* Money moves in the direction of the trade, if at all.
LEMMA SettledSide ==
  ASSUME ScaleAssumption, NEW b \in Int, b % Cash = 0, NEW v \in Int
  PROVE  /\ v <= 0 => Settled(b, v) <= b
         /\ v >= 0 => Settled(b, v) >= b
<1>1. Grain \in Nat \ {0} /\ Cash \in Nat \ {0}
  BY DEF ScaleAssumption
<1> DEFINE s == Settled(b, v)
           k == s \div Cash
           m == b \div Cash
<1>2. /\ s \in Int /\ s % Cash = 0
      /\ 2 * (s * Grain) <= 2 * (b * Grain + v) + Cash * Grain
      /\ 2 * (b * Grain + v) <= 2 * (s * Grain) + Cash * Grain
  BY SettledError
<1>3. k \in Int /\ s = Cash * k
  BY <1>1, <1>2, MultipleOf, Division
<1>4. m \in Int /\ b = Cash * m
  BY <1>1, MultipleOf, Division
<1> DEFINE w == Cash * Grain
<1> HIDE DEF k, m, s
<1>5. w \in Nat \ {0} /\ s * Grain = w * k /\ b * Grain = w * m
  <2>1. (Cash * k) * Grain = (Cash * Grain) * k
    BY ONLY <1>1, <1>3
  <2>2. (Cash * m) * Grain = (Cash * Grain) * m
    BY ONLY <1>1, <1>4
  <2> QED BY <1>1, <1>3, <1>4, <2>1, <2>2
<1> HIDE DEF w
<1>6. 2 * (w * k) <= 2 * (w * m) + 2 * v + w /\ 2 * (w * m) + 2 * v <= 2 * (w * k) + w
  BY <1>1, <1>2, <1>4, <1>5 DEF w
<1>7. ASSUME v <= 0 PROVE k <= m
  <2>1. CASE k >= m + 1
    <3>1. w * k >= w * m + w
      BY <1>3, <1>4, <1>5, <2>1
    <3> QED BY <3>1, <1>3, <1>4, <1>5, <1>6, <1>7
  <2> QED BY <2>1, <1>3, <1>4
<1>8. ASSUME v >= 0 PROVE m <= k
  <2>1. CASE m >= k + 1
    <3>1. w * m >= w * k + w
      BY <1>3, <1>4, <1>5, <2>1
    <3> QED BY <3>1, <1>3, <1>4, <1>5, <1>6, <1>8
  <2> QED BY <2>1, <1>3, <1>4
<1>9. k <= m => s <= b
  BY <1>1, <1>3, <1>4
<1>10. m <= k => b <= s
  BY <1>1, <1>3, <1>4
<1> QED BY <1>7, <1>8, <1>9, <1>10 DEF s

\* The new average is between the prices paid before and the new one.
LEMMA NewAverageBetween ==
  ASSUME ScaleAssumption, Inv, NEW f, Filling(f), average' = NewAverage(f), shares' = shares + f.quantity,
         paid' = [low  |-> IF shares = 0 THEN f.price ELSE Lower(paid.low, f.price),
                  high |-> IF shares = 0 THEN f.price ELSE Higher(paid.high, f.price)]
  PROVE  /\ average' \in Nat /\ average' % Price = 0
         /\ paid' \in [low : Nat, high : Nat]
         /\ PaidPrices'
<1> DEFINE n == average * shares + f.price * f.quantity
           q == shares + f.quantity
<1>1. /\ Price \in Nat \ {0} /\ average \in Nat /\ shares \in Nat /\ average % Price = 0
      /\ f.price \in Nat \ {0} /\ f.quantity \in Nat \ {0} /\ f.price % Price = 0 /\ quote \in Nat
      /\ paid.low \in Nat /\ paid.high \in Nat
  BY FillTypes
<1>2. average * shares \in Nat /\ f.price * f.quantity \in Nat
  BY <1>1
<1>3. n \in Nat /\ q \in Nat \ {0}
  BY <1>1, <1>2
<1>4. average' = Mean(n, q, Price)
  BY DEF NewAverage, Mean
<1>5. /\ paid'.low \in Nat /\ paid'.high \in Nat /\ paid'.low % Price = 0 /\ paid'.high % Price = 0
      /\ paid'.low <= f.price /\ f.price <= paid'.high
      /\ shares > 0 => paid'.low <= average /\ average <= paid'.high
  BY <1>1 DEF Inv, PaidPrices, Multiple, Lower, Higher
<1>6. paid'.low * q <= n /\ n <= paid'.high * q
  <2> DEFINE l == paid'.low
             h == paid'.high
  <2>1. l \in Nat /\ h \in Nat /\ l <= f.price /\ f.price <= h
        /\ (shares > 0 => l <= average /\ average <= h)
    BY <1>5
  <2> HIDE DEF l, h
  <2>2. l * q = l * shares + l * f.quantity /\ h * q = h * shares + h * f.quantity
    BY <1>1, <2>1
  <2>3. l * f.quantity <= f.price * f.quantity /\ f.price * f.quantity <= h * f.quantity
    BY <1>1, <2>1
  <2>4. l * shares <= average * shares /\ average * shares <= h * shares
    <3>1. CASE shares = 0
      BY <1>1, <2>1, <3>1
    <3>2. CASE shares > 0
      BY <1>1, <2>1, <3>2
    <3> QED BY <1>1, <3>1, <3>2
  <2>5. l * shares \in Int /\ l * f.quantity \in Int /\ h * shares \in Int /\ h * f.quantity \in Int
    BY <1>1, <2>1
  <2>6. l * q <= n /\ n <= h * q
    BY <1>2, <2>2, <2>3, <2>4, <2>5
  <2> QED BY <2>6 DEF l, h
<1> HIDE DEF n, q
<1>7. /\ average' \in Int /\ average' % Price = 0
      /\ paid'.low <= average'
  <2> DEFINE l == paid'.low
             r == average'
  <2>1. l \in Int /\ l % Price = 0 /\ l * q <= n /\ n \in Int /\ Price \in Nat \ {0}
    BY <1>1, <1>3, <1>5, <1>6
  <2>2. r = Mean(n, q, Price)
    BY <1>4
  <2> HIDE DEF l, r
  <2>3. r \in Int /\ r % Price = 0 /\ l <= r
    BY ONLY <2>1, <2>2, <1>3, AverageBounds
  <2> QED BY <2>3 DEF l, r
<1>8. average' <= paid'.high
  <2> DEFINE h == paid'.high
             r == average'
  <2>1. h \in Int /\ h % Price = 0 /\ n <= h * q /\ n \in Int /\ Price \in Nat \ {0}
    BY <1>1, <1>3, <1>5, <1>6
  <2>2. r = Mean(n, q, Price)
    BY <1>4
  <2> HIDE DEF h, r
  <2>3. r <= h
    BY ONLY <2>1, <2>2, <1>3, AverageBounds
  <2> QED BY <2>3 DEF h, r
<1>9. paid' \in [low : Nat, high : Nat]
  BY <1>1, <1>5
<1>10. average' \in Nat
  BY <1>5, <1>7
<1> QED BY <1>5, <1>7, <1>8, <1>9, <1>10 DEF PaidPrices, Multiple

LEMMA BuyInv ==
  ASSUME ScaleAssumption, Inv, NEW f, Filling(f), Buy(f)
  PROVE  TypeOK' /\ OrderKnown' /\ PaidPrices' /\ DriftBounded'
<1> DEFINE v == -(f.price * f.quantity)
<1>1. v \in Int /\ v <= 0 /\ exact \in Int
  <2>1. f.price * f.quantity \in Nat /\ exact \in Int
    BY FillTypes
  <2> QED BY <2>1
<1>2. balance' = Settled(balance, v) /\ balance' >= 0 /\ exact' = exact + v
  BY FillTypes DEF Buy
<1>3. balance' \in Int /\ balance' % Cash = 0 /\ balance' <= balance
  <2>1. balance \in Int /\ balance % Cash = 0
    BY FillTypes
  <2> HIDE DEF v
  <2>2. Settled(balance, v) \in Int /\ Settled(balance, v) % Cash = 0
    BY ONLY <1>1, <2>1, SettledError, ScaleAssumption
  <2>3. (v <= 0 => Settled(balance, v) <= balance) /\ (v >= 0 => Settled(balance, v) >= balance)
    BY ONLY <1>1, <2>1, SettledSide, ScaleAssumption
  <2> QED BY <1>1, <1>2, <2>2, <2>3
<1>4. balance' \in 0 .. MaxCash
  BY <1>2, <1>3, ScaleAssumption DEF Inv, TypeOK, ScaleAssumption
<1>5. shares' \in 0 .. MaxShare /\ f.quantity <= MaxShare
  BY FillTypes, ScaleAssumption DEF Buy, ScaleAssumption
<1>6. shares' % Share = 0
  BY FillTypes, SumIsMultiple DEF Buy
<1>7. average' \in Nat /\ average' % Price = 0 /\ paid' \in [low : Nat, high : Nat]
      /\ PaidPrices'
  BY NewAverageBetween DEF Buy
<1>8. DriftBounded'
  BY <1>1, <1>2, FillDrift
<1>9. exact' \in Int
  BY <1>1, <1>2
<1> QED BY <1>3, <1>4, <1>5, <1>6, <1>7, <1>8, <1>9, FillRest DEF Multiple

LEMMA SellInv ==
  ASSUME ScaleAssumption, Inv, NEW f, Filling(f), Sell(f)
  PROVE  TypeOK' /\ OrderKnown' /\ PaidPrices' /\ DriftBounded'
<1> DEFINE v == f.price * f.quantity
<1>1. v \in Int /\ v >= 0 /\ exact \in Int
  BY FillTypes
<1>2. balance' = Settled(balance, v) /\ balance' <= MaxCash /\ exact' = exact + v
  BY FillTypes DEF Sell
<1>3. balance' \in Int /\ balance' % Cash = 0 /\ balance' >= balance
  <2>1. balance \in Int /\ balance % Cash = 0
    BY FillTypes
  <2> HIDE DEF v
  <2>2. Settled(balance, v) \in Int /\ Settled(balance, v) % Cash = 0
    BY ONLY <1>1, <2>1, SettledError, ScaleAssumption
  <2>3. (v <= 0 => Settled(balance, v) <= balance) /\ (v >= 0 => Settled(balance, v) >= balance)
    BY ONLY <1>1, <2>1, SettledSide, ScaleAssumption
  <2> QED BY <1>1, <1>2, <2>2, <2>3
<1>4. balance' \in 0 .. MaxCash
  BY <1>2, <1>3, FillTypes, ScaleAssumption DEF ScaleAssumption
<1>5. shares' \in 0 .. MaxShare /\ f.quantity <= MaxShare
  BY FillTypes, ScaleAssumption DEF Sell, ScaleAssumption, Inv, TypeOK
<1>6. shares' % Share = 0
  BY FillTypes, SumIsMultiple DEF Sell
<1>7. average' \in Nat /\ average' % Price = 0 /\ (shares' > 0 => average' = average /\ shares > 0)
  <2>1. 0 % Price = 0
    BY FillTypes
  <2> QED BY <2>1, FillTypes DEF Sell
<1>8. paid' \in [low : Nat, high : Nat] /\ paid'.low = paid.low /\ paid'.high = paid.high
  BY FillTypes DEF Sell
<1>9. PaidPrices'
  BY <1>7, <1>8 DEF Inv, PaidPrices
<1>10. DriftBounded'
  BY <1>1, <1>2, FillDrift
<1>11. exact' \in Int
  BY <1>1, <1>2
<1> QED BY <1>3, <1>4, <1>5, <1>6, <1>7, <1>8, <1>9, <1>10, <1>11, FillRest DEF Multiple

LEMMA ExecuteInv ==
  ASSUME ScaleAssumption, Inv, NEW o \in MarketOrder \cup TargetOrder, Execute(o),
         o.quantity > 0, Multiple(o.quantity, Share),
         o.kind # "market" => /\ o.target \in Nat \ {0} /\ Multiple(o.target, Price)
                              /\ Triggered(o, quote)
  PROVE  Inv'
<1> DEFINE f == [o EXCEPT !.status = "filled", !.price = Quantize(quote, Price)]
<1>1. quote \in Int /\ Price \in Nat \ {0}
  BY ScaleAssumption DEF Inv, TypeOK, ScaleAssumption
<1>2. Quantize(quote, Price) \in Int
  BY <1>1, QuantizeError
<1>3. f \in MarketOrder \cup TargetOrder /\ f.status = "filled" /\ f.price = Quantize(quote, Price)
      /\ f.kind = o.kind /\ f.side = o.side /\ f.quantity = o.quantity
      /\ (o.kind # "market" => f.target = o.target)
  BY <1>2 DEF MarketOrder, TargetOrder
<1>4. Filling(f) /\ (IF o.side = "buy" THEN Buy(f) ELSE Sell(f)) /\ order' = f
  <2>1. /\ trades < MaxTrades /\ trades' = trades + 1 /\ f.price > 0
        /\ IF o.side = "buy" THEN Buy(f) ELSE Sell(f)
        /\ order' = f /\ UNCHANGED quote
    BY DEF Execute
  <2> HIDE DEF f
  <2> QED BY <1>3, <2>1 DEF Filling
<1> HIDE DEF f
<1>5. TypeOK' /\ OrderKnown' /\ PaidPrices' /\ DriftBounded'
  BY <1>4, BuyInv, SellInv
<1>6. TargetKept'
  <2>1. SUFFICES ASSUME o.kind # "market"
                 PROVE  IF <<o.kind, o.side>> \in {<<"limit", "buy">>, <<"stop_loss", "sell">>}
                        THEN Quantize(quote, Price) <= o.target
                        ELSE Quantize(quote, Price) >= o.target
    BY <1>3, <1>4 DEF TargetKept
  <2>2. o.target \in Int /\ o.target % Price = 0
    BY <2>1 DEF Multiple
  <2>3. o.kind \in {"limit", "stop_loss"} /\ o.side \in Sides
    BY <2>1 DEF MarketOrder, TargetOrder
  <2>4. (quote <= o.target => Quantize(quote, Price) <= o.target)
        /\ (quote >= o.target => Quantize(quote, Price) >= o.target)
    <3> DEFINE t == o.target
    <3>1. t \in Int /\ t % Price = 0
      BY <2>2
    <3> HIDE DEF t
    <3>2. (quote <= t => Quantize(quote, Price) <= t) /\ (t <= quote => t <= Quantize(quote, Price))
      BY ONLY <1>1, <3>1, QuantizeKeepsOrder
    <3>3. t >= 0 \/ t < 0
      BY <3>1
    <3> QED BY <1>1, <1>2, <3>1, <3>2 DEF t
  <2>5. IF (o.kind = "limit") = (o.side = "buy") THEN quote <= o.target ELSE quote >= o.target
    BY <2>1 DEF Triggered
  <2> QED BY <2>3, <2>4, <2>5 DEF Sides
<1> QED BY <1>5, <1>6 DEF Inv

LEMMA MarketInv ==
  ASSUME ScaleAssumption, Inv, NEW side \in Sides, NEW raw \in Raw, PlaceMarket(side, raw)
  PROVE  Inv'
<1> DEFINE q == ToDecimal(raw, Share)
           o == [status |-> "open", side |-> side, kind |-> "market", quantity |-> q,
                 price |-> quote]
<1>1. q # None /\ q > 0 /\ Execute(o)
  BY DEF PlaceMarket
<1>2. q \in Int /\ q % Share = 0
  BY <1>1, Accepted, ScaleAssumption DEF ScaleAssumption
<1>3. quote \in Int
  BY ScaleAssumption DEF Inv, TypeOK, ScaleAssumption
<1> HIDE DEF q
<1>4. o \in MarketOrder
  BY <1>2, <1>3 DEF MarketOrder
<1>5. o.quantity = q /\ o.kind = "market"
  OBVIOUS
<1> HIDE DEF o
<1> QED BY <1>1, <1>2, <1>4, <1>5, ExecuteInv DEF Multiple

LEMMA TargetInv ==
  ASSUME ScaleAssumption, Inv, NEW side \in Sides, NEW kind \in {"limit", "stop_loss"}, NEW raw \in Raw,
         NEW target \in Raw, PlaceTarget(side, kind, raw, target)
  PROVE  Inv'
<1> DEFINE q == ToDecimal(raw, Share)
           t == ToDecimal(target, Price)
<1>1. /\ q # None /\ t # None /\ q > 0 /\ t > 0 /\ q <= MaxShare
      /\ order' = [status |-> "open", side |-> side, kind |-> kind, quantity |-> q,
                   price |-> t, target |-> t]
      /\ UNCHANGED <<balance, shares, average, quote, trades, exact, paid>>
  BY DEF PlaceTarget
<1>2. q \in Int /\ q % Share = 0 /\ t \in Int /\ t % Price = 0
  BY <1>1, Accepted, ScaleAssumption DEF ScaleAssumption
<1> HIDE DEF q, t
<1>3. TypeOK'
  BY <1>1, <1>2, ScaleAssumption DEF Inv, TypeOK, ScaleAssumption, Multiple, Sides
<1>4. OrderKnown' /\ TargetKept'
  BY <1>1, <1>2 DEF OrderKnown, TargetOrder, TargetKept
<1> QED BY <1>1, <1>3, <1>4 DEF Inv, PaidPrices, DriftBounded

LEMMA MatchInv ==
  ASSUME ScaleAssumption, Inv, Match
  PROVE  Inv'
<1>1. order \in MarketOrder \cup TargetOrder /\ order.status = "open"
  BY DEF Inv, OrderKnown, NoOrder, Match
<1>2. /\ order.quantity > 0 /\ Multiple(order.quantity, Share)
      /\ order.kind # "market" => order.target \in Nat \ {0} /\ Multiple(order.target, Price)
  BY <1>1 DEF Inv, TypeOK
<1> QED BY <1>1, <1>2, ExecuteInv DEF Match

LEMMA StepInv == ASSUME ScaleAssumption PROVE Inv /\ [Next]_vars => Inv'
<1> SUFFICES ASSUME Inv, [Next]_vars PROVE Inv'
  OBVIOUS
<1>1. ASSUME NEW raw \in Raw, Deposit(raw) PROVE Inv'
  BY <1>1, DepositInv
<1>2. ASSUME NEW raw \in Raw, Withdraw(raw) PROVE Inv'
  BY <1>2, WithdrawInv
<1>3. ASSUME NEW side \in Sides, NEW raw \in Raw, PlaceMarket(side, raw) PROVE Inv'
  BY <1>3, MarketInv
<1>4. ASSUME NEW side \in Sides, NEW raw \in Raw, NEW kind \in {"limit", "stop_loss"},
             NEW target \in Raw, PlaceTarget(side, kind, raw, target)
      PROVE  Inv'
  BY <1>4, TargetInv
<1>5. CASE Match
  BY <1>5, MatchInv
<1>6. ASSUME NEW p \in Quotes, NewQuote(p) PROVE Inv'
  BY <1>6 DEF NewQuote, Inv, TypeOK, OrderKnown, PaidPrices, DriftBounded, TargetKept
<1>7. CASE UNCHANGED vars
  BY <1>7 DEF vars, Inv, TypeOK, OrderKnown, PaidPrices, DriftBounded, TargetKept
<1> QED BY <1>1, <1>2, <1>3, <1>4, <1>5, <1>6, <1>7 DEF Next, Sides

-----------------------------------------------------------------------------
(* Theorems *)

LEMMA Invariance == ASSUME ScaleAssumption PROVE Spec => []Inv
BY InitInv, StepInv, PTL DEF Spec

\* Every stored number is in the range and on the scale of its column, whatever the
\* requests carry.
THEOREM Types == ASSUME ScaleAssumption PROVE Spec => []TypeOK
<1>1. Inv => TypeOK
  BY DEF Inv
<1> QED BY <1>1, Invariance, PTL

\* However many trades there were, the balance is at most half a cent for each of them
\* from what it would be without rounding: deposit_money, withdraw_money, execute_trade.
THEOREM Drift == ASSUME ScaleAssumption PROVE Spec => []DriftBounded
<1>1. Inv => DriftBounded
  BY DEF Inv
<1> QED BY <1>1, Invariance, PTL

\* An order with a target is never filled on the wrong side of it, although
\* process_limit_orders compares the quote and stores it rounded.
THEOREM Targets == ASSUME ScaleAssumption PROVE Spec => []TargetKept
<1>1. Inv => TargetKept
  BY DEF Inv
<1> QED BY <1>1, Invariance, PTL

\* portfolio.avg_price, recomputed and rounded at each purchase, stays between the lowest
\* and the highest price paid.
THEOREM Averages == ASSUME ScaleAssumption PROVE Spec => []AverageBetween
<1>1. Inv => AverageBetween
  BY DEF Inv, PaidPrices, AverageBetween
<1> QED BY <1>1, Invariance, PTL
=============================================================================
