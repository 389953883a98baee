--------------------------- MODULE ExchangeProofs ---------------------------
(***************************************************************************)
(* Proofs about Exchange, for every number of users, assets, connections,  *)
(* jobs and requests, every price and every amount: types, the coherence   *)
(* of rows and transactions, the audit log, and that a fill which has      *)
(* passed its check is never refused (by way of FillsCovered).             *)
(***************************************************************************)
EXTENDS Exchange, TLAPS

-----------------------------------------------------------------------------
(* Tables of rows: what each operation of RowLocks yields *)

\* Locking or writing a row of a table, and ending a transaction, leave a table.
LEMMA TableTypes ==
  ASSUME NEW K, NEW V, NEW R \in [K -> Row(V)], NEW s \in Sessions
  PROVE  /\ \A k \in K : Lock(R, k, s) \in [K -> Row(V)]
         /\ \A k \in K, v \in V : Write(R, k, s, v) \in [K -> Row(V)]
         /\ Keep(R, s) \in [K -> Row(V)]
         /\ Undo(R, s) \in [K -> Row(V)]
BY DEF Row, Lock, Write, Keep, Undo, Fresh

\* The row an operation leaves at each key.
LEMMA LockedRows ==
  ASSUME NEW K, NEW V, NEW R \in [K -> Row(V)], NEW s \in Sessions, NEW k \in K, NEW j \in K
  PROVE  /\ Lock(R, k, s)[j].new = R[j].new
         /\ Lock(R, k, s)[j].old = R[j].old
         /\ Lock(R, k, s)[j].lock = IF j = k THEN s ELSE R[j].lock
BY DEF Row, Lock

LEMMA WrittenRows ==
  ASSUME NEW K, NEW V, NEW R \in [K -> Row(V)], NEW s \in Sessions, NEW k \in K, NEW v \in V,
         NEW j \in K
  PROVE  /\ Write(R, k, s, v)[j].new = IF j = k THEN v ELSE R[j].new
         /\ Write(R, k, s, v)[j].old = R[j].old
         /\ Write(R, k, s, v)[j].lock = IF j = k THEN s ELSE R[j].lock
         /\ j # k => Write(R, k, s, v)[j] = R[j]
BY DEF Row, Write

LEMMA EndedRows ==
  ASSUME NEW K, NEW V, NEW R \in [K -> Row(V)], NEW s \in Sessions, NEW j \in K
  PROVE  /\ Keep(R, s)[j] = IF R[j].lock = s THEN Fresh(R[j].new) ELSE R[j]
         /\ Undo(R, s)[j] = IF R[j].lock = s THEN Fresh(R[j].old) ELSE R[j]
BY DEF Keep, Undo

LEMMA FreshRows ==
  ASSUME NEW v PROVE Fresh(v).new = v /\ Fresh(v).old = v /\ Fresh(v).lock = None
BY DEF Fresh

LEMMA Appended == \A S, q, e : q \in Seq(S) /\ e \in S => Append(q, e) \in Seq(S)
OBVIOUS

\* Products and rounded quotients of natural numbers are natural numbers.
LEMMA Products == \A m, n \in Nat : m * n \in Nat
OBVIOUS

LEMMA Quotients == \A n \in Nat, d \in Nat \ {0} : RoundDiv(n, d) \in Nat
<1> SUFFICES ASSUME NEW n \in Nat, NEW d \in Nat \ {0} PROVE RoundDiv(n, d) \in Nat
  OBVIOUS
<1> DEFINE a == 2 * n + d
           b == 2 * d
<1>1. a \in Nat /\ b \in Nat \ {0}
  OBVIOUS
<1>2. \A x \in Nat, y \in Nat \ {0} : x \div y \in Nat
  OBVIOUS
<1> QED BY <1>1, <1>2 DEF RoundDiv

-----------------------------------------------------------------------------
(* Type correctness *)

Coherent == TypeOK /\ RowsCoherent /\ TxCoherent

LEMMA InitCoherent == Init => Coherent
<1> SUFFICES ASSUME Init PROVE Coherent
  OBVIOUS
<1> USE SessionAssumption, InitialAssumption, BoundAssumption DEF Init, Fresh
<1>1. wallet \in [Users -> Row(Wallet)]
  BY DEF Row, Wallet
<1>2. holding \in [Keys -> Row(Holding)]
  BY DEF Row, Holding
<1>3. orders \in [OrderIds -> Row(Order \cup {NoOrder})]
  BY DEF Row
<1>4. tx \in [Sessions -> Transaction]
  BY DEF Transaction, Idle
<1>5. TypeOK
  <2>1. cache \in [Assets -> Prices \cup {None}] /\ left \in [Matchers -> SUBSET Assets]
    OBVIOUS
  <2>2. now \in 0 .. MaxNow /\ calls \in 0 .. MaxCalls /\ crashes \in 0 .. MaxCrashes
    OBVIOUS
  <2> QED BY <1>1, <1>2, <1>3, <1>4, <2>1, <2>2, Zenon DEF TypeOK
<1>6. RowsCoherent
  BY DEF RowsCoherent
<1>7. TxCoherent
  BY DEF TxCoherent, Ready, Idle
<1> QED BY <1>5, <1>6, <1>7 DEF Coherent

\* A transaction whose fields are set to values of their types is a transaction.
LEMMA TransactionTypes ==
  ASSUME NEW t \in Transaction,
         NEW pc \in {"idle", "cash", "check", "portfolio", "wallet", "cursor", "next"}
  PROVE  /\ [t EXCEPT !.pc = pc] \in Transaction
         /\ [t EXCEPT !.pc = pc, !.seen = None] \in Transaction
         /\ \A S \in SUBSET OrderIds : [t EXCEPT !.pc = pc, !.todo = S] \in Transaction
         /\ \A n \in Nat : [t EXCEPT !.pc = pc, !.start = n] \in Transaction
         /\ \A n \in Nat, S \in SUBSET OrderIds :
              [t EXCEPT !.pc = pc, !.start = n, !.todo = S] \in Transaction
         /\ \A n \in Nat, o \in OrderIds :
              [t EXCEPT !.pc = pc, !.start = n, !.order = o] \in Transaction
         /\ \A o \in OrderIds, S \in SUBSET OrderIds :
              [t EXCEPT !.pc = pc, !.order = o, !.todo = S] \in Transaction
         /\ [t EXCEPT !.pc = pc, !.order = None, !.profit = 0] \in Transaction
         /\ \A x \in Int : [t EXCEPT !.pc = pc, !.seen = None, !.profit = x] \in Transaction
         /\ \A n \in Nat, u \in Users, x \in Int :
              [t EXCEPT !.pc = pc, !.start = n, !.user = u, !.amount = x] \in Transaction
         /\ \A n \in Nat, a \in Assets, p \in Prices \cup {None} :
              [t EXCEPT !.pc = pc, !.start = n, !.asset = a, !.price = p] \in Transaction
<1>1. /\ [t EXCEPT !.pc = pc] \in Transaction
      /\ [t EXCEPT !.pc = pc, !.seen = None] \in Transaction
  BY DEF Transaction
<1>2. ASSUME NEW S \in SUBSET OrderIds PROVE [t EXCEPT !.pc = pc, !.todo = S] \in Transaction
  BY DEF Transaction
<1>3. ASSUME NEW n \in Nat PROVE [t EXCEPT !.pc = pc, !.start = n] \in Transaction
  BY DEF Transaction
<1>4. ASSUME NEW n \in Nat, NEW S \in SUBSET OrderIds
      PROVE  [t EXCEPT !.pc = pc, !.start = n, !.todo = S] \in Transaction
  BY DEF Transaction
<1>5. ASSUME NEW n \in Nat, NEW o \in OrderIds
      PROVE  [t EXCEPT !.pc = pc, !.start = n, !.order = o] \in Transaction
  BY DEF Transaction
<1>6. ASSUME NEW o \in OrderIds, NEW S \in SUBSET OrderIds
      PROVE  [t EXCEPT !.pc = pc, !.order = o, !.todo = S] \in Transaction
  BY DEF Transaction
<1>7. [t EXCEPT !.pc = pc, !.order = None, !.profit = 0] \in Transaction
  <2>1. \A o \in OrderIds \cup {None}, x \in Int :
          [t EXCEPT !.pc = pc, !.order = o, !.profit = x] \in Transaction
    BY DEF Transaction
  <2>2. None \in OrderIds \cup {None} /\ 0 \in Int
    OBVIOUS
  <2> QED BY <2>1, <2>2, Zenon
<1>8. ASSUME NEW x \in Int
      PROVE  [t EXCEPT !.pc = pc, !.seen = None, !.profit = x] \in Transaction
  BY DEF Transaction
<1>9. ASSUME NEW n \in Nat, NEW u \in Users, NEW x \in Int
      PROVE  [t EXCEPT !.pc = pc, !.start = n, !.user = u, !.amount = x] \in Transaction
  BY DEF Transaction
<1>10. ASSUME NEW n \in Nat, NEW a \in Assets, NEW p \in Prices \cup {None}
       PROVE  [t EXCEPT !.pc = pc, !.start = n, !.asset = a, !.price = p] \in Transaction
  BY DEF Transaction
<1> QED BY <1>1, <1>2, <1>3, <1>4, <1>5, <1>6, <1>7, <1>8, <1>9, <1>10

\* A transaction that waits for a lock, or has one order or one row less to go.
LEMMA WaitingTypes ==
  ASSUME NEW t \in Transaction, NEW n \in Nat, NEW S \in SUBSET OrderIds
  PROVE  [t EXCEPT !.seen = n] \in Transaction /\ [t EXCEPT !.todo = S] \in Transaction
<1>1. [t EXCEPT !.seen = n] \in Transaction
  BY DEF Transaction
<1>2. [t EXCEPT !.todo = S] \in Transaction
  BY DEF Transaction
<1> QED BY <1>1, <1>2

LEMMA IdleTypes == Idle \in Transaction
BY DEF Idle, Transaction

\* What a fill finds: its order, the key it trades and the version it works on.
LEMMA FillTypes ==
  ASSUME Coherent, NEW s \in Sessions, tx[s].pc \in {"check", "portfolio", "wallet"}
  PROVE  /\ tx[s].order \in OrderIds /\ tx[s].order \in 1 .. calls
         /\ TheOrder(s) \in Order /\ TheOrder(s).quantity \in Nat \ {0}
         /\ TheOrder(s).price \in Nat
         /\ TheOrder(s).user \in Users /\ TheOrder(s).asset \in Assets
         /\ Key(s) \in Keys
         /\ Cost(TheOrder(s)) \in Nat
         /\ Current(s) \in Holding
<1> USE DEF Coherent
<1>1. /\ tx[s].order \in 1 .. calls /\ orders[tx[s].order].new # NoOrder
  BY DEF TxCoherent, Ready
<1>2. tx[s].order \in OrderIds
  BY <1>1, BoundAssumption DEF TypeOK, OrderIds
<1>3. TheOrder(s) \in Order
  BY <1>1, <1>2 DEF TheOrder, TypeOK, Row
<1>4. /\ TheOrder(s).quantity \in Nat \ {0} /\ TheOrder(s).price \in Nat
      /\ TheOrder(s).user \in Users /\ TheOrder(s).asset \in Assets
  BY <1>3, InputAssumption DEF Order
<1>5. Key(s) \in Keys
  BY <1>4 DEF Key, Keys
<1>6. Cost(TheOrder(s)) \in Nat
  BY <1>4, Products DEF Cost
<1>7. Current(s) \in Holding
  <2>1. Seen(holding[Key(s)], s) \in Holding
    BY <1>5 DEF TypeOK, Seen, Row
  <2>2. [Seen(holding[Key(s)], s) EXCEPT !.quantity = 0] \in Holding
    BY <2>1 DEF Holding
  <2> QED BY <2>1, <2>2, Zenon DEF Current
<1> QED BY <1>1, <1>2, <1>3, <1>4, <1>5, <1>6, <1>7

LEMMA RollbackTypes ==
  ASSUME TypeOK, NEW s \in Sessions, Rollback(s)
  PROVE  /\ wallet' \in [Users -> Row(Wallet)]
         /\ holding' \in [Keys -> Row(Holding)]
         /\ orders' \in [OrderIds -> Row(Order \cup {NoOrder})]
         /\ tx' \in [Sessions -> Transaction]
         /\ left' \in [Matchers -> SUBSET Assets]
<1>1. Idle \in Transaction
  BY DEF Idle, Transaction
<1>2. tx' \in [Sessions -> Transaction] /\ left' \in [Matchers -> SUBSET Assets]
  BY <1>1 DEF TypeOK, Rollback
<1> QED BY <1>2, TableTypes DEF TypeOK, Rollback

LEMMA RaiseTypes ==
  ASSUME TypeOK, NEW s \in Sessions, Raise(s) PROVE TypeOK'
BY RollbackTypes DEF Raise, TypeOK

\* A version that trades is a version; one that is closed joins the closed ones.
LEMMA TradedTypes ==
  ASSUME NEW o \in Order, NEW h \in Holding, NEW start \in Nat,
         o.side = "sell" => h.quantity >= o.quantity
  PROVE  Traded(o, h, start) \in Holding
<1>1. o.quantity \in Nat \ {0} /\ o.price \in Nat /\ h.quantity \in Nat /\ h.avg_price \in Nat
  BY InputAssumption DEF Order, Holding
<1>2. NewQuantity(o, h) \in Nat /\ (o.side = "buy" => NewQuantity(o, h) \in Nat \ {0})
  <2>1. o.side \in {"buy", "sell"}
    BY InputAssumption DEF Order
  <2> QED BY <1>1, <2>1 DEF NewQuantity
<1>3. NewAverage(o, h) \in Nat
  <2>1. CASE o.side = "buy"
    <3>1. h.avg_price * h.quantity \in Nat /\ o.price * o.quantity \in Nat
      BY <1>1, Products
    <3>2. h.avg_price * h.quantity + o.price * o.quantity \in Nat
      BY <3>1
    <3> QED BY <3>2, <1>2, <2>1, Quotients DEF NewAverage, Cost
  <2>2. CASE o.side # "buy"
    BY <2>2, <1>1 DEF NewAverage
  <2> QED BY <2>1, <2>2
<1>4. Closing(h, start) \in Seq(Closed)
  <2>1. h.closed \in Seq(Closed) /\ h.valid_from \in Nat
    BY DEF Holding
  <2>2. [quantity |-> h.quantity, avg_price |-> h.avg_price,
         valid_from |-> h.valid_from, valid_to |-> start] \in Closed
    BY <1>1, <2>1 DEF Closed
  <2> QED BY <2>1, <2>2, Appended, Zenon DEF Closing
<1> QED BY <1>2, <1>3, <1>4 DEF Traded, Holding

\* A wallet with a new balance that fits is a wallet.
LEMMA BalanceTypes ==
  ASSUME TypeOK, NEW s \in Sessions, NEW u \in Users, NEW b, Fits(b)
  PROVE  /\ [balance |-> b, audit |-> Audited(wallet[u].new, b, tx[s].start)] \in Wallet
         /\ SetBalance(s, u, b) \in [Users -> Row(Wallet)]
<1> DEFINE w == wallet[u].new
           v == [balance |-> b, audit |-> Audited(w, b, tx[s].start)]
<1>1. w \in Wallet /\ tx[s].start \in Nat
  BY DEF TypeOK, Row, Transaction
<1>2. b \in 0 .. MaxBalance /\ b \in Int /\ w.balance \in Int
  BY <1>1, InitialAssumption DEF Fits, Wallet
<1>3. Audited(w, b, tx[s].start) \in Seq(AuditRow)
  <2>1. w.audit \in Seq(AuditRow)
    BY <1>1 DEF Wallet
  <2>2. [old_value |-> w.balance, new_value |-> b, timestamp |-> tx[s].start] \in AuditRow
    BY <1>1, <1>2 DEF AuditRow
  <2> QED BY <2>1, <2>2, Appended, Zenon DEF Audited
<1>4. v \in Wallet
  BY <1>2, <1>3 DEF Wallet
<1> QED BY <1>4, TableTypes DEF SetBalance, TypeOK

\* An order that is filled, its trade recorded, is an order.
LEMMA FilledTypes ==
  ASSUME Coherent, NEW s \in Sessions, tx[s].pc \in {"check", "portfolio", "wallet"}
  PROVE  LET o == TheOrder(s)
             trade == [price |-> o.price, profit |-> tx[s].profit, booked |-> ProfitBooked(s)]
         IN  [o EXCEPT !.status = "filled", !.trades = Append(@, trade)] \in Order
<1> DEFINE o == TheOrder(s)
           trade == [price |-> o.price, profit |-> tx[s].profit, booked |-> ProfitBooked(s)]
<1>1. o \in Order /\ o.quantity \in Nat /\ o.price \in Nat /\ Key(s) \in Keys
  BY FillTypes
<1>2. Seen(holding[Key(s)], s) \in Holding
  BY <1>1 DEF Coherent, TypeOK, Seen, Row
<1>3. ProfitBooked(s) \in Int
  BY <1>1, <1>2 DEF ProfitBooked, Holding
<1>4. tx[s].profit \in Int
  BY DEF Coherent, TypeOK, Transaction
<1>5. trade \in Trade
  BY <1>1, <1>3, <1>4 DEF Trade
<1>6. Append(o.trades, trade) \in Seq(Trade)
  BY <1>1, <1>5, Appended DEF Order
<1>7. \A q \in Seq(Trade) : [o EXCEPT !.status = "filled", !.trades = q] \in Order
  BY <1>1 DEF Order
<1> QED BY <1>6, <1>7

\* The commonest facts about a step's transaction.
LEMMA StepFacts ==
  ASSUME TypeOK
  PROVE  /\ now \in Nat /\ calls \in Nat /\ crashes \in Nat
         /\ \A s \in Sessions : tx[s] \in Transaction
         /\ \A s \in Sessions, t \in Transaction :
              [tx EXCEPT ![s] = t] \in [Sessions -> Transaction]
<1>1. \A m \in Nat : \A n \in 0 .. m : n \in Nat
  OBVIOUS
<1>2. now \in Nat /\ calls \in Nat /\ crashes \in Nat
  BY <1>1, BoundAssumption DEF TypeOK
<1> QED BY <1>2 DEF TypeOK

LEMMA StepTypes ==
  ASSUME Coherent, [Next]_vars PROVE TypeOK'
<1> USE DEF Coherent
<1>0. now \in Nat /\ calls \in Nat /\ \A s \in Sessions : tx[s] \in Transaction /\ tx[s].start \in Nat
  BY StepFacts DEF Transaction
<1>1. ASSUME NEW s \in Web, NEW u \in Users, NEW amount \in Amounts, RequestCash(s, u, amount)
      PROVE  TypeOK'
  <2>1. [Idle EXCEPT !.pc = "cash", !.start = now, !.user = u, !.amount = amount] \in Transaction
    BY <1>0, InputAssumption, IdleTypes, TransactionTypes
  <2>2. tx' \in [Sessions -> Transaction]
    BY <1>1, <2>1, StepFacts DEF RequestCash, Begin, Sessions
  <2>3. calls' \in 0 .. MaxCalls
    BY <1>1, BoundAssumption DEF RequestCash, TypeOK
  <2> QED BY <1>1, <2>2, <2>3 DEF RequestCash, TypeOK, rows
<1>2. ASSUME NEW s \in Web, NEW u \in Users, NEW a \in Assets, NEW side \in Sides,
             NEW kind \in Kinds, NEW q \in Quantities, NEW target \in Targets \cup {None},
             NEW expiry \in Expiries \cup {None}, PlaceOrder(s, u, a, side, kind, q, target, expiry)
      PROVE  TypeOK'
  <2> DEFINE o == calls + 1
             price == IF target = None THEN cache[a] ELSE target
             order == [status |-> "open", user |-> u, asset |-> a, side |-> side, kind |-> kind,
                       quantity |-> q, price |-> price, target_price |-> target,
                       expires_at |-> expiry, created_at |-> now, trades |-> << >>]
  <2>1. o \in OrderIds /\ calls' \in 0 .. MaxCalls
    BY <1>2, BoundAssumption DEF PlaceOrder, TypeOK, OrderIds
  <2>2. order \in Order
    <3>1. price \in Nat \ {0}
      BY <1>2, InputAssumption DEF PlaceOrder, TypeOK
    <3> QED BY <3>1, <1>0 DEF Order
  <2>3. orders' \in [OrderIds -> Row(Order \cup {NoOrder})]
    <3>1. order \in Order \cup {NoOrder} /\ s \in Sessions
      BY <2>2 DEF Sessions
    <3>2. orders' = Write(orders, o, s, order)
      BY <1>2 DEF PlaceOrder
    <3>3. Write(orders, o, s, order) \in [OrderIds -> Row(Order \cup {NoOrder})]
      BY <2>1, <3>1, TableTypes DEF TypeOK
    <3> QED BY <3>2, <3>3
  <2>4. /\ [Idle EXCEPT !.pc = "check", !.start = now, !.order = o] \in Transaction
        /\ [Idle EXCEPT !.pc = "next", !.start = now] \in Transaction
    <3>1. [Idle EXCEPT !.pc = "check", !.start = now, !.order = o] \in Transaction
      BY <2>1, <1>0, IdleTypes, TransactionTypes
    <3>2. [Idle EXCEPT !.pc = "next", !.start = now] \in Transaction
      BY <1>0, IdleTypes, TransactionTypes
    <3> QED BY <3>1, <3>2
  <2>5. tx' \in [Sessions -> Transaction]
    BY <1>2, <2>4, StepFacts DEF PlaceOrder, Begin, Sessions
  <2> QED BY <1>2, <2>1, <2>3, <2>5 DEF PlaceOrder, TypeOK
<1>3. ASSUME NEW s \in Sessions, MoveCash(s) PROVE TypeOK'
  <2> DEFINE u == tx[s].user
             b == wallet[u].new.balance + tx[s].amount
  <2>1. CASE Raise(s)
    BY <2>1, RaiseTypes
  <2>2. CASE /\ Fits(b) /\ wallet' = SetBalance(s, u, b)
             /\ tx' = [tx EXCEPT ![s].pc = "next"]
             /\ UNCHANGED <<holding, orders, cache, now, left, calls, crashes>>
    <3>1. u \in Users
      BY <1>3 DEF MoveCash, TxCoherent, Ready
    <3>2. wallet' \in [Users -> Row(Wallet)]
      BY <2>2, <3>1, BalanceTypes
    <3>3. tx' \in [Sessions -> Transaction]
      BY <2>2 DEF TypeOK, Transaction
    <3> QED BY <2>2, <3>2, <3>3 DEF TypeOK
  <2> QED BY <1>3, <2>1, <2>2 DEF MoveCash
<1>4. ASSUME NEW s \in Sessions, CheckFunds(s) PROVE TypeOK'
  <2>1. CASE Raise(s)
    BY <2>1, RaiseTypes
  <2>2. CASE /\ wallet' = Lock(wallet, TheOrder(s).user, s)
             /\ tx' = [tx EXCEPT ![s].pc = "portfolio"]
             /\ UNCHANGED <<holding, orders, cache, now, left, calls, crashes>>
    <3>1. wallet' \in [Users -> Row(Wallet)]
      BY <1>4, <2>2, FillTypes, TableTypes DEF TypeOK, CheckFunds
    <3>2. tx' \in [Sessions -> Transaction]
      BY <2>2 DEF TypeOK, Transaction
    <3> QED BY <2>2, <3>1, <3>2 DEF TypeOK
  <2> QED BY <1>4, <2>1, <2>2 DEF CheckFunds
<1>5. ASSUME NEW s \in Sessions, WaitForHolding(s) PROVE TypeOK'
  <2> DEFINE n == Version(holding[Key(s)].old)
  <2>1. Key(s) \in Keys
    BY <1>5, FillTypes DEF WaitForHolding
  <2>2. n \in Nat
    BY <2>1 DEF Version, TypeOK, Row, Holding
  <2>3. tx' = [tx EXCEPT ![s] = [tx[s] EXCEPT !.seen = n]]
    BY <1>5 DEF WaitForHolding, TypeOK
  <2>4. [tx[s] EXCEPT !.seen = n] \in Transaction
    BY <2>2, <1>0, WaitingTypes
  <2>5. tx' \in [Sessions -> Transaction]
    BY <2>3, <2>4, StepFacts
  <2> QED BY <1>5, <2>5 DEF WaitForHolding, TypeOK, rows
<1>6. ASSUME NEW s \in Sessions, CheckHolding(s) PROVE TypeOK'
  <2>1. CASE Raise(s)
    BY <2>1, RaiseTypes
  <2>2. CASE /\ holding' = Lock(holding, Key(s), s)
             /\ tx' = [tx EXCEPT ![s].pc = "portfolio", ![s].seen = None]
             /\ UNCHANGED <<wallet, orders, cache, now, left, calls, crashes>>
    <3>1. holding' \in [Keys -> Row(Holding)]
      BY <1>6, <2>2, FillTypes, TableTypes DEF TypeOK, CheckHolding
    <3>2. tx' = [tx EXCEPT ![s] = [tx[s] EXCEPT !.pc = "portfolio", !.seen = None]]
      BY <2>2 DEF TypeOK
    <3>3. tx' \in [Sessions -> Transaction]
      BY <3>2, <1>0, StepFacts, TransactionTypes
    <3> QED BY <2>2, <3>1, <3>3 DEF TypeOK
  <2> QED BY <1>6, <2>1, <2>2 DEF CheckHolding
<1>7. ASSUME NEW s \in Sessions, UpdatePortfolio(s) PROVE TypeOK'
  <2> DEFINE o == TheOrder(s)
             h == Current(s)
             profit == IF o.side = "buy" THEN 0 ELSE (o.price - h.avg_price) * o.quantity
  <2>1. CASE Raise(s)
    BY <2>1, RaiseTypes
  <2>2. CASE /\ ~TradeFails(s)
             /\ holding' = Write(holding, Key(s), s, Traded(o, h, tx[s].start))
             /\ tx' = [tx EXCEPT ![s].pc = "wallet", ![s].seen = None, ![s].profit = profit]
             /\ UNCHANGED <<wallet, orders, cache, now, left, calls, crashes>>
    <3>1. o \in Order /\ h \in Holding /\ Key(s) \in Keys
      BY <1>7, FillTypes DEF UpdatePortfolio
    <3>2. o.side = "sell" => h.quantity >= o.quantity
      BY <2>2, <3>1, InputAssumption DEF TradeFails, Order, Holding
    <3>3. holding' \in [Keys -> Row(Holding)]
      BY <2>2, <1>0, <3>1, <3>2, TradedTypes, TableTypes DEF TypeOK
    <3>4. profit \in Int
      BY <3>1, InputAssumption DEF Order, Holding
    <3>5. tx' = [tx EXCEPT ![s] = [tx[s] EXCEPT !.pc = "wallet", !.seen = None, !.profit = profit]]
      BY <2>2 DEF TypeOK
    <3>6. tx' \in [Sessions -> Transaction]
      BY <3>4, <3>5, <1>0, StepFacts, TransactionTypes
    <3> QED BY <2>2, <3>3, <3>6 DEF TypeOK
  <2> QED BY <1>7, <2>1, <2>2 DEF UpdatePortfolio
<1>8. ASSUME NEW s \in Sessions, UpdateWallet(s) PROVE TypeOK'
  <2> DEFINE o == TheOrder(s)
             b == wallet[o.user].new.balance + Proceeds(o)
             trade == [price |-> o.price, profit |-> tx[s].profit, booked |-> ProfitBooked(s)]
             filled == [o EXCEPT !.status = "filled", !.trades = Append(@, trade)]
  <2>1. CASE Raise(s)
    BY <2>1, RaiseTypes
  <2>2. CASE /\ Fits(b) /\ wallet' = SetBalance(s, o.user, b)
             /\ orders' = Write(orders, tx[s].order, s, filled)
             /\ tx' = [tx EXCEPT ![s].pc = "next", ![s].order = None, ![s].profit = 0]
             /\ UNCHANGED <<holding, cache, now, left, calls, crashes>>
    <3>1. /\ o \in Order /\ o.user \in Users /\ o.quantity \in Nat /\ o.price \in Nat
          /\ Key(s) \in Keys /\ tx[s].order \in OrderIds
      BY <1>8, FillTypes DEF UpdateWallet
    <3>2. wallet' \in [Users -> Row(Wallet)]
      BY <2>2, <3>1, BalanceTypes
    <3>4. filled \in Order
      BY <1>8, <3>1, FilledTypes DEF UpdateWallet
    <3>5. orders' \in [OrderIds -> Row(Order \cup {NoOrder})]
      BY <2>2, <3>1, <3>4, TableTypes DEF TypeOK
    <3>6. tx' = [tx EXCEPT ![s] = [tx[s] EXCEPT !.pc = "next", !.order = None, !.profit = 0]]
      BY <2>2 DEF TypeOK
    <3>7. tx' \in [Sessions -> Transaction]
      BY <3>6, <1>0, StepFacts, TransactionTypes
    <3> QED BY <2>2, <3>2, <3>5, <3>7 DEF TypeOK
  <2> QED BY <1>8, <2>1, <2>2 DEF UpdateWallet
<1>9. ASSUME NEW s \in Sessions, Commit(s) PROVE TypeOK'
  <2>1. tx' \in [Sessions -> Transaction]
    BY <1>9, IdleTypes, StepFacts DEF Commit
  <2>2. /\ wallet' \in [Users -> Row(Wallet)] /\ holding' \in [Keys -> Row(Holding)]
        /\ orders' \in [OrderIds -> Row(Order \cup {NoOrder})]
    BY <1>9, TableTypes DEF Commit, TypeOK
  <2> QED BY <1>9, <2>1, <2>2 DEF Commit, TypeOK
<1>10. ASSUME NEW s \in Matchers, StartRun(s) PROVE TypeOK'
  BY <1>10 DEF StartRun, TypeOK, rows
<1>11. ASSUME NEW s \in Matchers, NEW a \in Assets, ReadPrice(s, a) PROVE TypeOK'
  <2> DEFINE pc == IF cache[a] = None THEN "next" ELSE "cursor"
  <2>1. cache[a] \in Prices \cup {None}
    BY DEF TypeOK
  <2>2. [Idle EXCEPT !.pc = pc, !.start = now, !.asset = a, !.price = cache[a]] \in Transaction
    BY <2>1, <1>0, IdleTypes, TransactionTypes
  <2>3. tx' \in [Sessions -> Transaction]
    BY <1>11, <2>2, StepFacts DEF ReadPrice, Begin, Sessions
  <2> QED BY <1>11, <2>3 DEF ReadPrice, TypeOK, rows
<1>12. ASSUME NEW s \in Sessions, OpenCursor(s) PROVE TypeOK'
  <2> DEFINE S == {o \in OrderIds :
                     Matchable(orders[o].old, tx[s].asset, tx[s].start, tx[s].price)}
  <2>1. tx' = [tx EXCEPT ![s] = [tx[s] EXCEPT !.pc = "next", !.todo = S]]
    BY <1>12 DEF OpenCursor, TypeOK
  <2> HIDE DEF S
  <2>2. S \in SUBSET OrderIds
    BY DEF S
  <2>3. tx' \in [Sessions -> Transaction]
    BY <2>1, <2>2, <1>0, StepFacts, TransactionTypes
  <2> QED BY <1>12, <2>3 DEF OpenCursor, TypeOK, rows
<1>13. ASSUME NEW s \in Sessions, NextOrder(s) PROVE TypeOK'
  <2>1. PICK o \in tx[s].todo :
          /\ s \in Matchers /\ tx[s].pc = "next"
          /\ orders' = Write(orders, o, s, [orders[o].new EXCEPT !.price = tx[s].price])
          /\ tx' = [tx EXCEPT ![s].pc = "check", ![s].order = o, ![s].todo = @ \ {o}]
          /\ UNCHANGED <<wallet, holding, cache, now, left, calls, crashes>>
    BY <1>13 DEF NextOrder
  <2>2. tx[s].todo \in SUBSET OrderIds /\ tx[s].price \in Prices \cup {None}
    BY <1>0 DEF Transaction
  <2>3. o \in OrderIds /\ orders[o].old # NoOrder /\ tx[s].price \in Nat \ {0}
    BY <2>1, <2>2, InputAssumption DEF TxCoherent, Ready
  <2>4. orders[o].new \in Order
    BY <2>3 DEF RowsCoherent, TypeOK, Row
  <2>5. [orders[o].new EXCEPT !.price = tx[s].price] \in Order
    BY <2>3, <2>4 DEF Order
  <2>6. orders' \in [OrderIds -> Row(Order \cup {NoOrder})]
    BY <2>1, <2>3, <2>5, TableTypes DEF TypeOK
  <2>7. tx' = [tx EXCEPT ![s] = [tx[s] EXCEPT !.pc = "check", !.order = o, !.todo = @ \ {o}]]
    BY <2>1 DEF TypeOK
  <2>8. tx[s].todo \ {o} \in SUBSET OrderIds
    BY <2>2
  <2>9. tx' \in [Sessions -> Transaction]
    BY <2>3, <2>7, <2>8, <1>0, StepFacts, TransactionTypes
  <2> QED BY <2>1, <2>6, <2>9 DEF TypeOK
<1>14. ASSUME NEW s \in Expirers, FindStale(s) PROVE TypeOK'
  <2> DEFINE S == {o \in OrderIds : Stale(orders[o].old, now)}
  <2>1. tx' = [tx EXCEPT ![s] = [Idle EXCEPT !.pc = "next", !.start = now, !.todo = S]]
    BY <1>14 DEF FindStale, Begin
  <2> HIDE DEF S
  <2>2. S \in SUBSET OrderIds
    BY DEF S
  <2>3. tx' \in [Sessions -> Transaction]
    BY <2>1, <2>2, <1>0, IdleTypes, StepFacts, TransactionTypes DEF Sessions
  <2> QED BY <1>14, <2>3 DEF FindStale, TypeOK, rows
<1>15. ASSUME NEW s \in Sessions, ExpireOne(s) PROVE TypeOK'
  <2> DEFINE cancelled(o) == [orders[o].new EXCEPT !.status = "cancelled"]
  <2>1. PICK o \in tx[s].todo :
          /\ orders' = IF Stale(orders[o].new, tx[s].start)
                       THEN Write(orders, o, s, cancelled(o)) ELSE orders
          /\ tx' = [tx EXCEPT ![s].todo = @ \ {o}]
          /\ UNCHANGED <<wallet, holding, cache, now, left, calls, crashes>>
    BY <1>15 DEF ExpireOne
  <2>2. tx[s].todo \in SUBSET OrderIds
    BY <1>0 DEF Transaction
  <2>3. o \in OrderIds /\ orders[o].old # NoOrder
    BY <2>1, <2>2 DEF TxCoherent, Ready
  <2>4. orders[o].new \in Order
    BY <2>3 DEF RowsCoherent, TypeOK, Row
  <2>5. cancelled(o) \in Order
    BY <2>4 DEF Order
  <2>6. orders' \in [OrderIds -> Row(Order \cup {NoOrder})]
    BY <2>1, <2>3, <2>5, TableTypes DEF TypeOK
  <2>7. tx' = [tx EXCEPT ![s] = [tx[s] EXCEPT !.todo = @ \ {o}]]
    BY <2>1 DEF TypeOK
  <2>8. tx[s].todo \ {o} \in SUBSET OrderIds
    BY <2>2
  <2>9. tx' \in [Sessions -> Transaction]
    BY <2>7, <2>8, <1>0, StepFacts, WaitingTypes
  <2> QED BY <2>1, <2>6, <2>9 DEF TypeOK
<1>16. ASSUME NEW s \in Sessions, AbortDeadlock(s) PROVE TypeOK'
  BY <1>16, RaiseTypes DEF AbortDeadlock
<1>17. ASSUME NEW s \in Sessions, Crash(s) PROVE TypeOK'
  <2>1. crashes' \in 0 .. MaxCrashes
    BY <1>17, BoundAssumption DEF Crash, TypeOK
  <2> QED BY <1>17, <2>1, RollbackTypes DEF Crash, TypeOK
<1>18. ASSUME NEW a \in Assets, NEW p \in Prices, PriceTick(a, p) PROVE TypeOK'
  BY <1>18 DEF PriceTick, TypeOK, rows
<1>19. CASE Tick
  <2>1. now' \in 0 .. MaxNow
    BY <1>19, BoundAssumption DEF Tick, TypeOK
  <2> QED BY <1>19, <2>1 DEF Tick, TypeOK, rows
<1>20. CASE UNCHANGED vars
  BY <1>20 DEF vars, rows, TypeOK
<1> QED
  BY <1>1, <1>2, <1>3, <1>4, <1>5, <1>6, <1>7, <1>8, <1>9, <1>10, <1>11, <1>12, <1>13, <1>14,
     <1>15, <1>16, <1>17, <1>18, <1>19, <1>20
  DEF Next, Request, StartJob, Statement, ExecuteTrade

-----------------------------------------------------------------------------
(* Coherence of rows and transactions *)

\* A row nobody holds shows its committed value, whatever is done to its table.
LEMMA CleanRows ==
  ASSUME NEW K, NEW V, NEW R \in [K -> Row(V)], NEW s \in Sessions,
         \A k \in K : R[k].lock = None => R[k].new = R[k].old
  PROVE  /\ \A k \in K : \A j \in K : Lock(R, k, s)[j].lock = None => Lock(R, k, s)[j].new = Lock(R, k, s)[j].old
         /\ \A k \in K, v \in V : \A j \in K :
              Write(R, k, s, v)[j].lock = None => Write(R, k, s, v)[j].new = Write(R, k, s, v)[j].old
         /\ \A j \in K : Keep(R, s)[j].lock = None => Keep(R, s)[j].new = Keep(R, s)[j].old
         /\ \A j \in K : Undo(R, s)[j].lock = None => Undo(R, s)[j].new = Undo(R, s)[j].old
<1>1. s # None
  BY SessionAssumption
<1>2. ASSUME NEW k \in K, NEW j \in K
      PROVE  Lock(R, k, s)[j].lock = None => Lock(R, k, s)[j].new = Lock(R, k, s)[j].old
  BY <1>1, LockedRows
<1>3. ASSUME NEW k \in K, NEW v \in V, NEW j \in K
      PROVE  Write(R, k, s, v)[j].lock = None => Write(R, k, s, v)[j].new = Write(R, k, s, v)[j].old
  BY <1>1, WrittenRows
<1>4. ASSUME NEW j \in K
      PROVE  /\ Keep(R, s)[j].lock = None => Keep(R, s)[j].new = Keep(R, s)[j].old
             /\ Undo(R, s)[j].lock = None => Undo(R, s)[j].new = Undo(R, s)[j].old
  BY EndedRows, FreshRows
<1> QED BY <1>2, <1>3, <1>4

\* What transaction s may do to a table R in one statement, with result Q.
Touched(K, V, R, Q, s) ==
  \/ Q = R
  \/ \E k \in K : Q = Lock(R, k, s)
  \/ \E k \in K, v \in V : Q = Write(R, k, s, v)
  \/ Q = Keep(R, s)
  \/ Q = Undo(R, s)

LEMMA TouchedRows ==
  ASSUME NEW K, NEW V, NEW R \in [K -> Row(V)], NEW Q, NEW s \in Sessions, Touched(K, V, R, Q, s),
         \A k \in K : R[k].lock = None => R[k].new = R[k].old
  PROVE  \A k \in K : Q[k].lock = None => Q[k].new = Q[k].old
BY CleanRows DEF Touched

LEMMA OrdersExist == \A r \in Order : r # NoOrder
BY DEF Order, NoOrder

\* What a step of s leaves of the orders: committed orders stay orders, and the
\* orders other transactions hold are as they were.
OthersKeepOrders(s) ==
  /\ calls <= calls'
  /\ \A o \in OrderIds : orders[o].old # NoOrder => orders'[o].old # NoOrder
  /\ \A o \in OrderIds, t \in Sessions \ {s} : orders[o].lock = t => orders'[o] = orders[o]

OrderRows ==
  \A o \in OrderIds :
    /\ orders[o].lock = None => orders[o].new = orders[o].old
    /\ orders[o].old # NoOrder => orders[o].new # NoOrder
    /\ o > calls => orders[o] = Fresh(NoOrder)

LEMMA WrittenOrders ==
  ASSUME Coherent, NEW s \in Sessions, NEW o \in OrderIds, NEW v \in Order,
         o <= calls', calls' \in Nat, calls <= calls', o > calls \/ Free(orders[o], s),
         orders' = Write(orders, o, s, v)
  PROVE  OthersKeepOrders(s) /\ OrderRows'
<1> USE DEF Coherent
<1>1. calls \in Nat /\ s # None /\ v # NoOrder /\ OrderIds \subseteq Nat
  BY StepFacts, SessionAssumption, OrdersExist DEF OrderIds
<1>2. \A j \in OrderIds : /\ orders'[j].new = IF j = o THEN v ELSE orders[j].new
                          /\ orders'[j].old = orders[j].old
                          /\ orders'[j].lock = IF j = o THEN s ELSE orders[j].lock
                          /\ j # o => orders'[j] = orders[j]
  BY WrittenRows DEF TypeOK
<1>3. OrderRows'
  BY <1>1, <1>2 DEF OrderRows, RowsCoherent
<1>4. \A t \in Sessions \ {s} : orders[o].lock # t
  BY <1>1, SessionAssumption DEF Free, RowsCoherent, Fresh
<1>5. OthersKeepOrders(s)
  BY <1>1, <1>2, <1>4 DEF OthersKeepOrders
<1> QED BY <1>3, <1>5

LEMMA EndedOrders ==
  ASSUME Coherent, NEW s \in Sessions, calls' = calls,
         orders' = Keep(orders, s) \/ orders' = Undo(orders, s)
  PROVE  OthersKeepOrders(s) /\ OrderRows'
<1> USE DEF Coherent
<1>1. calls \in Nat /\ s # None
  BY StepFacts, SessionAssumption
<1>2. \A j \in OrderIds :
        orders'[j] = IF orders[j].lock = s
                     THEN Fresh(IF orders' = Keep(orders, s) THEN orders[j].new ELSE orders[j].old)
                     ELSE orders[j]
  BY EndedRows DEF TypeOK
<1>3. OrderRows'
  BY <1>1, <1>2, FreshRows DEF OrderRows, RowsCoherent
<1>4. OthersKeepOrders(s)
  BY <1>1, <1>2, FreshRows DEF OthersKeepOrders, RowsCoherent
<1> QED BY <1>3, <1>4

\* A transaction that does not move stays ready.
LEMMA OthersReady ==
  ASSUME Coherent, NEW s, OthersKeepOrders(s), calls' \in Nat, NEW t \in Sessions \ {s}, tx'[t] = tx[t]
  PROVE  Ready(t)'
<1> USE DEF Coherent
<1>1. calls \in Nat /\ Ready(t)
  BY StepFacts DEF TxCoherent
<1>2. tx[t].todo \subseteq OrderIds
  BY StepFacts DEF Transaction
<1>3. tx[t].order \in 1 .. calls => tx[t].order \in OrderIds /\ tx[t].order \in 1 .. calls'
  BY <1>1, BoundAssumption DEF OthersKeepOrders, OrderIds, TypeOK
<1> QED BY <1>1, <1>2, <1>3 DEF Ready, OthersKeepOrders

Cleanly ==
  /\ \A u \in Users : wallet[u].lock = None => wallet[u].new = wallet[u].old
  /\ \A k \in Keys : holding[k].lock = None => holding[k].new = holding[k].old

LEMMA TouchedTables ==
  ASSUME Coherent, NEW s \in Sessions,
         Touched(Users, Wallet, wallet, wallet', s), Touched(Keys, Holding, holding, holding', s)
  PROVE  Cleanly'
<1>1. \A u \in Users : wallet'[u].lock = None => wallet'[u].new = wallet'[u].old
  <2>1. wallet \in [Users -> Row(Wallet)]
    BY DEF Coherent, TypeOK
  <2>2. \A u \in Users : wallet[u].lock = None => wallet[u].new = wallet[u].old
    BY DEF Coherent, RowsCoherent
  <2> QED BY <2>1, <2>2, TouchedRows
<1>2. \A k \in Keys : holding'[k].lock = None => holding'[k].new = holding'[k].old
  <2>1. holding \in [Keys -> Row(Holding)]
    BY DEF Coherent, TypeOK
  <2>2. \A k \in Keys : holding[k].lock = None => holding[k].new = holding[k].old
    BY DEF Coherent, RowsCoherent
  <2> QED BY <2>1, <2>2, TouchedRows
<1> QED BY <1>1, <1>2 DEF Cleanly

\* A step of s that leaves the tables clean and s ready leaves everything coherent.
LEMMA StepCoherent ==
  ASSUME Coherent, TypeOK', NEW s, Cleanly', OrderRows', OthersKeepOrders(s),
         s \in Sessions => Ready(s)', \A t \in Sessions \ {s} : tx'[t] = tx[t]
  PROVE  Coherent'
<1>1. calls' \in Nat
  <2>1. \A m \in Nat : \A n \in 0 .. m : n \in Nat
    OBVIOUS
  <2> QED BY <2>1, BoundAssumption DEF TypeOK
<1>2. RowsCoherent'
  BY DEF Cleanly, OrderRows, RowsCoherent
<1>3. TxCoherent'
  BY <1>1, OthersReady DEF TxCoherent
<1> QED BY <1>2, <1>3 DEF Coherent

LEMMA SameOrders ==
  ASSUME Coherent, NEW s, calls' \in Nat, calls <= calls', UNCHANGED orders
  PROVE  OthersKeepOrders(s) /\ OrderRows'
<1>1. calls \in Nat /\ OrderIds \subseteq Nat
  BY StepFacts DEF Coherent, OrderIds
<1>2. OthersKeepOrders(s)
  BY DEF OthersKeepOrders
<1>3. OrderRows
  BY DEF OrderRows, RowsCoherent, Coherent
<1>4. \A o \in OrderIds : o > calls' => o > calls
  BY <1>1
<1> QED BY <1>2, <1>3, <1>4 DEF OrderRows

LEMMA RollbackCoherent ==
  ASSUME Coherent, TypeOK', NEW s \in Sessions, Rollback(s), calls' = calls PROVE Coherent'
<1>1. Cleanly'
  BY TouchedTables DEF Rollback, Touched, Coherent
<1>2. tx'[s] = Idle /\ \A t \in Sessions \ {s} : tx'[t] = tx[t]
  BY DEF Rollback, Coherent, TypeOK
<1>3. Ready(s)'
  BY <1>2 DEF Ready, Idle
<1>4. OthersKeepOrders(s) /\ OrderRows'
  BY EndedOrders DEF Rollback
<1> QED BY <1>1, <1>2, <1>3, <1>4, StepCoherent

LEMMA NextCoherent == ASSUME Coherent, [Next]_vars PROVE Coherent'
<1>1. TypeOK'
  BY StepTypes
<1>2. Cleanly /\ calls \in Nat
  BY StepFacts DEF Coherent, RowsCoherent, Cleanly
<1>3. ASSUME NEW s \in Sessions, Raise(s) PROVE Coherent'
  BY <1>1, <1>3, RollbackCoherent DEF Raise
<1>4. ASSUME NEW s \in Sessions, NEW t, tx' = [tx EXCEPT ![s] = t]
      PROVE  tx'[s] = t /\ \A r \in Sessions \ {s} : tx'[r] = tx[r]
  BY <1>4 DEF Coherent, TypeOK
<1>5. ASSUME NEW s \in Web, NEW u \in Users, NEW amount \in Amounts, RequestCash(s, u, amount)
      PROVE  Coherent'
  <2>1. tx' = [tx EXCEPT ![s] = [Idle EXCEPT !.pc = "cash", !.start = now, !.user = u, !.amount = amount]]
    BY <1>5 DEF RequestCash, Begin
  <2>2. s \in Sessions /\ s \notin Matchers
    BY SessionAssumption DEF Sessions
  <2>3. Ready(s)'
    <3>1. tx'[s] = [Idle EXCEPT !.pc = "cash", !.start = now, !.user = u, !.amount = amount]
      BY <1>4, <2>1, <2>2
    <3>2. tx'[s].pc = "cash" /\ tx'[s].user = u /\ tx'[s].amount = amount /\ tx'[s].todo = {}
      BY <3>1 DEF Idle
    <3> QED BY <3>2, <2>2 DEF Ready
  <2>4. OthersKeepOrders(s) /\ OrderRows'
    BY <1>2, <1>5, SameOrders DEF RequestCash, rows
  <2>5. Cleanly'
    BY <1>2, <1>5 DEF RequestCash, rows, Cleanly
  <2> QED BY <1>1, <1>4, <2>1, <2>2, <2>3, <2>4, <2>5, StepCoherent
<1>6. ASSUME NEW s \in Web, NEW u \in Users, NEW a \in Assets, NEW side \in Sides,
             NEW kind \in Kinds, NEW q \in Quantities, NEW target \in Targets \cup {None},
             NEW expiry \in Expiries \cup {None}, PlaceOrder(s, u, a, side, kind, q, target, expiry)
      PROVE  Coherent'
  <2> DEFINE o == calls + 1
             order == [status |-> "open", user |-> u, asset |-> a, side |-> side, kind |-> kind,
                       quantity |-> q, price |-> IF target = None THEN cache[a] ELSE target,
                       target_price |-> target, expires_at |-> expiry, created_at |-> now,
                       trades |-> << >>]
             t == IF kind = "market" THEN [Idle EXCEPT !.pc = "check", !.start = now, !.order = o]
                                     ELSE [Idle EXCEPT !.pc = "next", !.start = now]
  <2>1. s \in Sessions /\ s \notin Matchers
    BY SessionAssumption DEF Sessions
  <2>2. tx' = [tx EXCEPT ![s] = t] /\ orders' = Write(orders, o, s, order) /\ calls' = o
    BY <1>6 DEF PlaceOrder, Begin
  <2>3. o \in OrderIds /\ o \in Nat /\ o > calls /\ calls <= o
    BY <1>2, <1>6, BoundAssumption DEF PlaceOrder, Coherent, TypeOK, OrderIds
  <2>4. order \in Order
    <3>1. cache[a] \in (Nat \ {0}) \cup {None} /\ Targets \subseteq Nat \ {0} /\ now \in Nat
      BY InputAssumption, StepFacts DEF Coherent, TypeOK
    <3>2. (IF target = None THEN cache[a] ELSE target) \in Nat \ {0}
      BY <1>6, <3>1 DEF PlaceOrder
    <3> QED BY <3>1, <3>2 DEF Order
  <2> HIDE DEF o, order
  <2>5. OthersKeepOrders(s) /\ OrderRows'
    BY <2>1, <2>2, <2>3, <2>4, WrittenOrders
  <2>6. orders'[o].lock = s /\ orders'[o].new # NoOrder
    BY <2>1, <2>2, <2>3, <2>4, WrittenRows, OrdersExist DEF Coherent, TypeOK
  <2>7. Ready(s)'
    <3>1. tx'[s] = t
      BY <1>4, <2>1, <2>2
    <3>2. CASE kind = "market"
      <4>1. tx'[s].pc = "check" /\ tx'[s].todo = {} /\ tx'[s].order = o
        BY <3>1, <3>2 DEF Idle
      <4>2. o \in 1 .. calls'
        BY <2>2, <2>3, <1>2 DEF o
      <4> QED BY <4>1, <4>2, <2>1, <2>6 DEF Ready
    <3>3. CASE kind # "market"
      BY <3>1, <3>3, <2>1 DEF Ready, Idle
    <3> QED BY <3>2, <3>3
  <2>8. Cleanly'
    BY <1>2, <1>6 DEF PlaceOrder, Cleanly
  <2> QED BY <1>1, <1>4, <2>1, <2>2, <2>5, <2>7, <2>8, StepCoherent
<1>7. ASSUME NEW s \in Sessions, MoveCash(s) PROVE Coherent'
  <2> DEFINE u == tx[s].user
             b == wallet[u].new.balance + tx[s].amount
             v == [balance |-> b, audit |-> Audited(wallet[u].new, b, tx[s].start)]
  <2>1. CASE /\ Fits(b) /\ wallet' = SetBalance(s, u, b)
             /\ tx' = [tx EXCEPT ![s].pc = "next"]
             /\ UNCHANGED <<holding, orders, cache, now, left, calls, crashes>>
    <3>1. u \in Users
      BY <1>7 DEF MoveCash, Coherent, TxCoherent, Ready
    <3>2. v \in Wallet /\ wallet' = Write(wallet, u, s, v)
      BY <2>1, <3>1, BalanceTypes DEF Coherent, SetBalance
    <3>3. Cleanly'
      BY <2>1, <3>1, <3>2, TouchedTables DEF Touched
    <3>4. OthersKeepOrders(s) /\ OrderRows'
      BY <2>1, <1>2, SameOrders
    <3>5. Ready(s)'
      BY <1>7, <2>1 DEF MoveCash, Ready, Coherent, TxCoherent, TypeOK, Transaction
    <3> QED BY <1>1, <2>1, <3>3, <3>4, <3>5, StepCoherent DEF Coherent, TypeOK
  <2> QED BY <1>3, <1>7, <2>1 DEF MoveCash
<1>8. ASSUME NEW s \in Sessions, CheckFunds(s) PROVE Coherent'
  <2>1. CASE /\ wallet' = Lock(wallet, TheOrder(s).user, s)
             /\ tx' = [tx EXCEPT ![s].pc = "portfolio"]
             /\ UNCHANGED <<holding, orders, cache, now, left, calls, crashes>>
    <3>1. TheOrder(s).user \in Users /\ Key(s) \in Keys
      BY <1>8, FillTypes DEF CheckFunds
    <3>2. Cleanly'
      BY <2>1, <3>1, TouchedTables DEF Touched
    <3>3. OthersKeepOrders(s) /\ OrderRows'
      BY <2>1, <1>2, SameOrders
    <3>4. Ready(s)'
      BY <1>8, <2>1 DEF CheckFunds, Ready, Coherent, TxCoherent, TypeOK, Transaction
    <3> QED BY <1>1, <2>1, <3>2, <3>3, <3>4, StepCoherent DEF Coherent, TypeOK
  <2> QED BY <1>3, <1>8, <2>1 DEF CheckFunds
<1>9. ASSUME NEW s \in Sessions, WaitForHolding(s) PROVE Coherent'
  <2>1. Cleanly'
    BY <1>9, TouchedTables DEF WaitForHolding, Touched, rows
  <2>2. OthersKeepOrders(s) /\ OrderRows'
    BY <1>9, <1>2, SameOrders DEF WaitForHolding, rows
  <2>3. Ready(s)'
    BY <1>9 DEF WaitForHolding, rows, Ready, Coherent, TxCoherent, TypeOK, Transaction
  <2> QED BY <1>1, <1>9, <2>1, <2>2, <2>3, StepCoherent DEF WaitForHolding, Coherent, TypeOK
<1>10. ASSUME NEW s \in Sessions, CheckHolding(s) PROVE Coherent'
  <2>1. CASE /\ holding' = Lock(holding, Key(s), s)
             /\ tx' = [tx EXCEPT ![s].pc = "portfolio", ![s].seen = None]
             /\ UNCHANGED <<wallet, orders, cache, now, left, calls, crashes>>
    <3>1. TheOrder(s).user \in Users /\ Key(s) \in Keys
      BY <1>10, FillTypes DEF CheckHolding
    <3>2. Cleanly'
      BY <2>1, <3>1, TouchedTables DEF Touched
    <3>3. OthersKeepOrders(s) /\ OrderRows'
      BY <2>1, <1>2, SameOrders
    <3>4. Ready(s)'
      BY <1>10, <2>1 DEF CheckHolding, Ready, Coherent, TxCoherent, TypeOK, Transaction
    <3> QED BY <1>1, <2>1, <3>2, <3>3, <3>4, StepCoherent DEF Coherent, TypeOK
  <2> QED BY <1>3, <1>10, <2>1 DEF CheckHolding
<1>11. ASSUME NEW s \in Sessions, UpdatePortfolio(s) PROVE Coherent'
  <2> DEFINE o == TheOrder(s)
             h == Current(s)
             v == Traded(o, h, tx[s].start)
             profit == IF o.side = "buy" THEN 0 ELSE (o.price - h.avg_price) * o.quantity
  <2>1. CASE /\ ~TradeFails(s)
             /\ holding' = Write(holding, Key(s), s, v)
             /\ tx' = [tx EXCEPT ![s].pc = "wallet", ![s].seen = None, ![s].profit = profit]
             /\ UNCHANGED <<wallet, orders, cache, now, left, calls, crashes>>
    <3>1. o \in Order /\ h \in Holding /\ Key(s) \in Keys /\ tx[s].start \in Nat
      BY <1>11, FillTypes, StepFacts DEF UpdatePortfolio, Transaction, Coherent
    <3>2. o.side = "sell" => h.quantity >= o.quantity
      BY <2>1, <3>1, InputAssumption DEF TradeFails, Order, Holding
    <3>3. v \in Holding
      BY <3>1, <3>2, TradedTypes
    <3>4. Cleanly'
      BY <2>1, <3>1, <3>3, TouchedTables DEF Touched
    <3>5. OthersKeepOrders(s) /\ OrderRows'
      BY <2>1, <1>2, SameOrders
    <3>6. Ready(s)'
      BY <1>11, <2>1 DEF UpdatePortfolio, Ready, Coherent, TxCoherent, TypeOK, Transaction
    <3> QED BY <1>1, <2>1, <3>4, <3>5, <3>6, StepCoherent DEF Coherent, TypeOK
  <2> QED BY <1>3, <1>11, <2>1 DEF UpdatePortfolio
<1>12. ASSUME NEW s \in Sessions, UpdateWallet(s) PROVE Coherent'
  <2> DEFINE o == TheOrder(s)
             b == wallet[o.user].new.balance + Proceeds(o)
             w == [balance |-> b, audit |-> Audited(wallet[o.user].new, b, tx[s].start)]
             trade == [price |-> o.price, profit |-> tx[s].profit, booked |-> ProfitBooked(s)]
             filled == [o EXCEPT !.status = "filled", !.trades = Append(@, trade)]
  <2>1. CASE /\ Fits(b) /\ wallet' = SetBalance(s, o.user, b)
             /\ orders' = Write(orders, tx[s].order, s, filled)
             /\ tx' = [tx EXCEPT ![s].pc = "next", ![s].order = None, ![s].profit = 0]
             /\ UNCHANGED <<holding, cache, now, left, calls, crashes>>
    <3>1. /\ o \in Order /\ o.user \in Users /\ Key(s) \in Keys
          /\ tx[s].order \in OrderIds /\ tx[s].order \in 1 .. calls /\ orders[tx[s].order].lock = s
      BY <1>12, FillTypes DEF UpdateWallet, Coherent, TxCoherent, Ready
    <3>2. w \in Wallet /\ wallet' = Write(wallet, o.user, s, w)
      BY <2>1, <3>1, BalanceTypes DEF Coherent, SetBalance
    <3>3. Cleanly'
      BY <2>1, <3>1, <3>2, TouchedTables DEF Touched
    <3>4. filled \in Order
      BY <1>12, <3>1, FilledTypes DEF UpdateWallet
    <3>5. OthersKeepOrders(s) /\ OrderRows'
      BY <2>1, <3>1, <3>4, <1>2, WrittenOrders DEF Free
    <3>6. \A p \in tx'[s].todo : orders'[p].old # NoOrder
      <4>1. tx'[s].todo = tx[s].todo /\ tx[s].todo \subseteq OrderIds
        BY <2>1, StepFacts DEF Coherent, TypeOK, Transaction
      <4> QED BY <3>5, <4>1 DEF OthersKeepOrders, Coherent, TxCoherent, Ready
    <3>7. Ready(s)'
      BY <1>12, <2>1, <3>6 DEF UpdateWallet, Ready, Coherent, TxCoherent, TypeOK, Transaction
    <3> QED BY <1>1, <2>1, <3>3, <3>5, <3>7, StepCoherent DEF Coherent, TypeOK
  <2> QED BY <1>3, <1>12, <2>1 DEF UpdateWallet
<1>13. ASSUME NEW s \in Sessions, Commit(s) PROVE Coherent'
  <2>1. Cleanly'
    BY <1>13, TouchedTables DEF Commit, Touched
  <2>2. OthersKeepOrders(s) /\ OrderRows'
    BY <1>13, EndedOrders DEF Commit
  <2>3. tx'[s] = Idle /\ \A t \in Sessions \ {s} : tx'[t] = tx[t]
    BY <1>13, <1>4 DEF Commit
  <2>4. Ready(s)'
    BY <2>3 DEF Ready, Idle
  <2> QED BY <1>1, <2>1, <2>2, <2>3, <2>4, StepCoherent
<1>14. ASSUME UNCHANGED <<rows, tx, calls>> PROVE Coherent'
  <2>1. RowsCoherent'
    BY <1>14 DEF Coherent, RowsCoherent, rows
  <2>2. TxCoherent'
    BY <1>14 DEF Coherent, TxCoherent, Ready, rows
  <2> QED BY <1>1, <2>1, <2>2 DEF Coherent
<1>15. ASSUME NEW s \in Matchers, NEW a \in Assets, ReadPrice(s, a) PROVE Coherent'
  <2> DEFINE t == [Idle EXCEPT !.pc = IF cache[a] = None THEN "next" ELSE "cursor",
                               !.start = now, !.asset = a, !.price = cache[a]]
  <2>1. s \in Sessions
    BY DEF Sessions
  <2>2. tx'[s] = t /\ \A r \in Sessions \ {s} : tx'[r] = tx[r]
    BY <1>4, <1>15, <2>1 DEF ReadPrice, Begin
  <2>3. Ready(s)'
    <3>1. tx'[s].pc = (IF cache[a] = None THEN "next" ELSE "cursor")
      BY <2>2 DEF Idle
    <3>2. tx'[s].todo = {} /\ tx'[s].price = cache[a]
      BY <2>2 DEF Idle
    <3> QED BY <3>1, <3>2 DEF Ready
  <2>4. OthersKeepOrders(s) /\ OrderRows'
    BY <1>15, <1>2, SameOrders DEF ReadPrice, rows
  <2>5. Cleanly'
    BY <1>15, <2>1, TouchedTables DEF ReadPrice, rows, Touched
  <2> QED BY <1>1, <2>2, <2>3, <2>4, <2>5, StepCoherent
<1>16. ASSUME NEW s \in Sessions, OpenCursor(s) PROVE Coherent'
  <2> DEFINE S == {o \in OrderIds :
                     Matchable(orders[o].old, tx[s].asset, tx[s].start, tx[s].price)}
  <2>1. \A o \in S : orders[o].old # NoOrder
    BY DEF Matchable, NoOrder
  <2>2. tx' = [tx EXCEPT ![s] = [tx[s] EXCEPT !.pc = "next", !.todo = S]]
    BY <1>16 DEF OpenCursor, Coherent, TypeOK
  <2> HIDE DEF S
  <2>3. tx'[s] = [tx[s] EXCEPT !.pc = "next", !.todo = S] /\ \A r \in Sessions \ {s} : tx'[r] = tx[r]
    BY <1>4, <2>2
  <2>4. tx'[s].pc = "next" /\ tx'[s].todo = S /\ tx'[s].price = tx[s].price
    BY <2>3, StepFacts DEF Transaction, Coherent
  <2>5. Ready(s)'
    BY <1>16, <2>1, <2>4 DEF OpenCursor, rows, Ready, Coherent, TxCoherent
  <2>6. OthersKeepOrders(s) /\ OrderRows'
    BY <1>16, <1>2, SameOrders DEF OpenCursor, rows
  <2>7. Cleanly'
    BY <1>16, TouchedTables DEF OpenCursor, rows, Touched
  <2> QED BY <1>1, <2>3, <2>5, <2>6, <2>7, StepCoherent
<1>17. ASSUME NEW s \in Sessions, NextOrder(s) PROVE Coherent'
  <2>1. PICK o \in tx[s].todo :
          /\ s \in Matchers /\ tx[s].pc = "next" /\ Free(orders[o], s)
          /\ orders' = Write(orders, o, s, [orders[o].new EXCEPT !.price = tx[s].price])
          /\ tx' = [tx EXCEPT ![s].pc = "check", ![s].order = o, ![s].todo = @ \ {o}]
          /\ UNCHANGED <<wallet, holding, cache, now, left, calls, crashes>>
    BY <1>17 DEF NextOrder
  <2> DEFINE v == [orders[o].new EXCEPT !.price = tx[s].price]
  <2>2. tx[s].todo \in SUBSET OrderIds /\ tx[s].price \in Prices \cup {None} /\ Ready(s)
    BY StepFacts DEF Coherent, TxCoherent, Transaction
  <2>3. o \in OrderIds /\ orders[o].old # NoOrder /\ tx[s].price \in Nat \ {0}
    BY <2>1, <2>2, InputAssumption DEF Ready
  <2>4. v \in Order
    <3>1. orders[o].new \in Order
      BY <2>3 DEF Coherent, RowsCoherent, TypeOK, Row
    <3> QED BY <2>3, <3>1 DEF Order
  <2>5. o \in 1 .. calls
    <3>1. ~(o > calls)
      BY <2>3, FreshRows DEF Coherent, RowsCoherent
    <3> QED BY <1>2, <2>3, <3>1 DEF OrderIds
  <2>6. OthersKeepOrders(s) /\ OrderRows'
    BY <1>2, <2>1, <2>3, <2>4, <2>5, WrittenOrders
  <2>7. orders'[o].lock = s /\ orders'[o].new # NoOrder
    BY <2>1, <2>3, <2>4, WrittenRows, OrdersExist DEF Coherent, TypeOK
  <2>8. /\ tx'[s].pc = "check" /\ tx'[s].order = o /\ tx'[s].todo = tx[s].todo \ {o}
        /\ tx'[s].price = tx[s].price
    BY <2>1 DEF Coherent, TypeOK, Transaction
  <2>9. Ready(s)'
    <3>1. tx'[s].order \in 1 .. calls'
      BY <2>1, <2>5, <2>8
    <3>2. \A p \in tx'[s].todo : orders'[p].old # NoOrder
      BY <2>2, <2>6, <2>8 DEF Ready, OthersKeepOrders
    <3>3. tx'[s].price # None
      BY <2>3, <2>8, SessionAssumption
    <3> QED BY <2>7, <2>8, <3>1, <3>2, <3>3 DEF Ready
  <2>10. Cleanly'
    BY <2>1, TouchedTables DEF Touched
  <2> QED BY <1>1, <2>1, <2>6, <2>9, <2>10, StepCoherent DEF Coherent, TypeOK
<1>18. ASSUME NEW s \in Expirers, FindStale(s) PROVE Coherent'
  <2> DEFINE S == {o \in OrderIds : Stale(orders[o].old, now)}
  <2>1. \A o \in S : orders[o].old # NoOrder
    BY DEF Stale, NoOrder
  <2>2. tx' = [tx EXCEPT ![s] = [Idle EXCEPT !.pc = "next", !.start = now, !.todo = S]]
    BY <1>18 DEF FindStale, Begin
  <2> HIDE DEF S
  <2>3. s \in Sessions /\ s \notin Matchers
    BY SessionAssumption DEF Sessions
  <2>4. /\ tx'[s] = [Idle EXCEPT !.pc = "next", !.start = now, !.todo = S]
        /\ \A r \in Sessions \ {s} : tx'[r] = tx[r]
    BY <1>4, <2>2, <2>3
  <2>5. tx'[s].pc = "next" /\ tx'[s].todo = S
    BY <2>4 DEF Idle
  <2>6. Ready(s)'
    BY <1>18, <2>1, <2>3, <2>5 DEF FindStale, rows, Ready
  <2>7. OthersKeepOrders(s) /\ OrderRows'
    BY <1>18, <1>2, SameOrders DEF FindStale, rows
  <2>8. Cleanly'
    BY <1>18, <2>3, TouchedTables DEF FindStale, rows, Touched
  <2> QED BY <1>1, <2>4, <2>6, <2>7, <2>8, StepCoherent
<1>19. ASSUME NEW s \in Sessions, ExpireOne(s) PROVE Coherent'
  <2> DEFINE v(o) == [orders[o].new EXCEPT !.status = "cancelled"]
  <2>1. PICK o \in tx[s].todo :
          /\ s \in Expirers /\ tx[s].pc = "next" /\ Free(orders[o], s)
          /\ orders' = IF Stale(orders[o].new, tx[s].start) THEN Write(orders, o, s, v(o)) ELSE orders
          /\ tx' = [tx EXCEPT ![s].todo = @ \ {o}]
          /\ UNCHANGED <<wallet, holding, cache, now, left, calls, crashes>>
    BY <1>19 DEF ExpireOne
  <2>2. tx[s].todo \in SUBSET OrderIds /\ Ready(s) /\ s \notin Matchers
    BY <2>1, StepFacts, SessionAssumption DEF Coherent, TxCoherent, Transaction
  <2>3. o \in OrderIds /\ orders[o].old # NoOrder
    BY <2>1, <2>2 DEF Ready
  <2>4. v(o) \in Order
    <3>1. orders[o].new \in Order
      BY <2>3 DEF Coherent, RowsCoherent, TypeOK, Row
    <3> QED BY <3>1 DEF Order
  <2>5. o \in 1 .. calls
    <3>1. ~(o > calls)
      BY <2>3, FreshRows DEF Coherent, RowsCoherent
    <3> QED BY <1>2, <2>3, <3>1 DEF OrderIds
  <2>6. OthersKeepOrders(s) /\ OrderRows'
    <3>1. CASE orders' = orders
      BY <1>2, <2>1, <3>1, SameOrders
    <3>2. CASE orders' = Write(orders, o, s, v(o))
      BY <1>2, <2>1, <2>3, <2>4, <2>5, <3>2, WrittenOrders
    <3> QED BY <2>1, <3>1, <3>2
  <2>7. tx'[s].pc = "next" /\ tx'[s].todo = tx[s].todo \ {o}
    BY <2>1 DEF Coherent, TypeOK, Transaction
  <2>8. Ready(s)'
    <3>1. \A p \in tx'[s].todo : orders'[p].old # NoOrder
      BY <2>2, <2>6, <2>7 DEF Ready, OthersKeepOrders
    <3> QED BY <2>2, <2>7, <3>1 DEF Ready
  <2>9. Cleanly'
    BY <2>1, TouchedTables DEF Touched
  <2> QED BY <1>1, <2>1, <2>6, <2>8, <2>9, StepCoherent DEF Coherent, TypeOK
<1>20. ASSUME NEW s \in Sessions, AbortDeadlock(s) PROVE Coherent'
  BY <1>3, <1>20 DEF AbortDeadlock
<1>21. ASSUME NEW s \in Sessions, Crash(s) PROVE Coherent'
  BY <1>1, <1>21, RollbackCoherent DEF Crash
<1>22. ASSUME NEW s \in Matchers, StartRun(s) PROVE Coherent'
  BY <1>14, <1>22 DEF StartRun
<1>23. ASSUME NEW a \in Assets, NEW p \in Prices, PriceTick(a, p) PROVE Coherent'
  BY <1>14, <1>23 DEF PriceTick
<1>24. CASE Tick \/ UNCHANGED vars
  BY <1>14, <1>24 DEF Tick, vars
<1> QED
  BY <1>5, <1>6, <1>7, <1>8, <1>9, <1>10, <1>11, <1>12, <1>13, <1>15, <1>16, <1>17, <1>18, <1>19,
     <1>20, <1>21, <1>22, <1>23, <1>24
  DEF Next, Request, StartJob, Statement, ExecuteTrade

\* Every state of the exchange has its types: no sequence of trades, deposits,
\* failures and crashes brings a balance below zero or over the width of its column,
\* or a position below zero, or leaves a transaction without what it works on.
THEOREM TypeCorrect == Spec => []TypeOK
<1>1. Coherent => TypeOK
  BY DEF Coherent
<1> QED BY <1>1, InitCoherent, NextCoherent, PTL DEF Spec

\* Rows and transactions stay coherent: a free row shows what was committed, and a
\* fill holds the order it fills until it is done.
THEOREM RowsStayCoherent == Spec => [](RowsCoherent /\ TxCoherent)
<1>1. Coherent => RowsCoherent /\ TxCoherent
  BY DEF Coherent
<1> QED BY <1>1, InitCoherent, NextCoherent, PTL DEF Spec

-----------------------------------------------------------------------------
(* The audit log of a wallet has no gap: both values of a wallet row are     *)
(* chained, the committed one and the one a transaction is still writing,    *)
(* because the trigger logs a change in the statement that makes it, from    *)
(* the balance that statement replaces.                                      *)

Chains == \A u \in Users : Chained(wallet[u].new, u) /\ Chained(wallet[u].old, u)

\* The only things a step does to the wallets.
LEMMA WalletSteps ==
  ASSUME Coherent, [Next]_vars
  PROVE  \/ wallet' = wallet
         \/ \E s \in Sessions :
              \/ \E u \in Users : wallet' = Lock(wallet, u, s)
              \/ \E u \in Users : \E b \in 0 .. MaxBalance : wallet' = SetBalance(s, u, b)
              \/ wallet' = Keep(wallet, s)
              \/ wallet' = Undo(wallet, s)
<1> DEFINE P == \/ wallet' = wallet
                \/ \E s \in Sessions :
                     \/ \E u \in Users : wallet' = Lock(wallet, u, s)
                     \/ \E u \in Users : \E b \in 0 .. MaxBalance : wallet' = SetBalance(s, u, b)
                     \/ wallet' = Keep(wallet, s)
                     \/ wallet' = Undo(wallet, s)
<1>1. ASSUME NEW s \in Sessions, Rollback(s) PROVE P
  BY <1>1 DEF Rollback
<1>2. ASSUME NEW s \in Sessions, MoveCash(s) PROVE P
  <2>1. tx[s].user \in Users
    BY <1>2 DEF MoveCash, Coherent, TxCoherent, Ready
  <2> QED BY <1>1, <1>2, <2>1 DEF MoveCash, Raise, Fits
<1>3. ASSUME NEW s \in Sessions, ExecuteTrade(s) PROVE P
  <2>1. TheOrder(s).user \in Users
    BY <1>3, FillTypes
    DEF ExecuteTrade, CheckFunds, WaitForHolding, CheckHolding, UpdatePortfolio, UpdateWallet
  <2>2. CASE CheckFunds(s)
    BY <1>1, <2>1, <2>2 DEF CheckFunds, Raise
  <2>3. CASE WaitForHolding(s) \/ CheckHolding(s) \/ UpdatePortfolio(s)
    BY <1>1, <2>3 DEF WaitForHolding, CheckHolding, UpdatePortfolio, Raise, rows
  <2>4. CASE UpdateWallet(s)
    BY <1>1, <2>1, <2>4 DEF UpdateWallet, Raise, Fits
  <2> QED BY <1>3, <2>2, <2>3, <2>4 DEF ExecuteTrade
<1>4. ASSUME NEW s \in Sessions, Statement(s) PROVE P
  <2>1. CASE OpenCursor(s)
    BY <2>1 DEF OpenCursor, rows
  <2>2. CASE NextOrder(s)
    BY <2>2 DEF NextOrder
  <2>3. CASE ExpireOne(s)
    BY <2>3 DEF ExpireOne
  <2>4. CASE Commit(s)
    BY <2>4 DEF Commit
  <2> QED BY <1>2, <1>3, <1>4, <2>1, <2>2, <2>3, <2>4 DEF Statement
<1>5. ASSUME NEW s \in Sessions, StartJob(s) PROVE P
  <2>1. wallet' = wallet
    BY <1>5 DEF StartJob, StartRun, ReadPrice, FindStale, rows
  <2> QED BY <2>1
<1>6. ASSUME NEW s \in Web, Request(s) PROVE P
  <2>1. wallet' = wallet
    <3>1. ASSUME NEW u, NEW amount, RequestCash(s, u, amount) PROVE wallet' = wallet
      BY <3>1 DEF RequestCash, rows
    <3>2. ASSUME NEW u, NEW a, NEW side, NEW kind, NEW q, NEW target, NEW expiry,
                 PlaceOrder(s, u, a, side, kind, q, target, expiry)
          PROVE  wallet' = wallet
      BY <3>2 DEF PlaceOrder
    <3> QED BY <1>6, <3>1, <3>2 DEF Request
  <2> QED BY <2>1
<1>7. ASSUME NEW s \in Sessions, AbortDeadlock(s) \/ Crash(s) PROVE P
  BY <1>1, <1>7 DEF AbortDeadlock, Crash, Raise
<1>8. CASE (\E a \in Assets, p \in Prices : PriceTick(a, p)) \/ Tick \/ UNCHANGED vars
  BY <1>8 DEF PriceTick, Tick, vars, rows
<1> QED BY <1>4, <1>5, <1>6, <1>7, <1>8 DEF Next

\* A chain whose balance moves on through fn_audit_wallet_changes is a chain.
LEMMA AuditedChains ==
  ASSUME NEW u \in Users, NEW w \in Wallet, Chained(w, u), NEW b \in Int, NEW start
  PROVE  Chained([balance |-> b, audit |-> Audited(w, b, start)], u)
<1> DEFINE row == [old_value |-> w.balance, new_value |-> b, timestamp |-> start]
           n == Len(w.audit)
<1>1. CASE b = w.balance
  BY <1>1 DEF Chained, Audited, Wallet
<1>2. CASE b # w.balance
  <2>1. w.audit \in Seq(AuditRow)
    BY DEF Wallet
  <2>2. /\ Audited(w, b, start) = Append(w.audit, row)
        /\ n \in Nat /\ DOMAIN w.audit = 1 .. n
    BY <1>2, <2>1 DEF Audited
  <2>3. /\ Len(Append(w.audit, row)) = n + 1 /\ DOMAIN Append(w.audit, row) = 1 .. n + 1
        /\ \A i \in 1 .. n : Append(w.audit, row)[i] = w.audit[i]
        /\ Append(w.audit, row)[n + 1] = row
    BY <2>1
  <2> DEFINE log == Append(w.audit, row)
             after(i) == IF i = 0 THEN Opening[u] ELSE w.audit[i].new_value
             then(i)  == IF i = 0 THEN Opening[u] ELSE log[i].new_value
  <2>4. (\A i \in 1 .. n : w.audit[i].old_value = after(i - 1)) /\ w.balance = after(n)
    BY <2>2 DEF Chained
  <2>5. log[n + 1].old_value = w.balance /\ log[n + 1].new_value = b
    BY <2>3
  <2> HIDE DEF n, row, log
  <2>6. \A i \in 0 .. n : then(i) = after(i)
    BY <2>2, <2>3 DEF log
  <2>7. \A i \in 1 .. n + 1 : log[i].old_value = then(i - 1)
    <3>1. \A i \in 1 .. n : log[i].old_value = then(i - 1)
      BY <2>2, <2>3, <2>4, <2>6 DEF log
    <3>2. log[n + 1].old_value = then(n)
      BY <2>2, <2>4, <2>5, <2>6
    <3> QED BY <2>2, <3>1, <3>2
  <2>8. b = then(n + 1)
    BY <2>2, <2>5
  <2> QED BY <2>2, <2>3, <2>7, <2>8 DEF Chained, log
<1> QED BY <1>1, <1>2

LEMMA InitChains == Init => Chains
BY InitialAssumption DEF Init, Chains, Chained, Fresh

LEMMA NextChains == ASSUME Coherent, Chains, [Next]_vars PROVE Chains'
<1>1. wallet \in [Users -> Row(Wallet)]
  BY DEF Coherent, TypeOK
<1>2. CASE wallet' = wallet
  BY <1>2 DEF Chains, Chained
<1>3. ASSUME NEW s \in Sessions, NEW u \in Users, wallet' = Lock(wallet, u, s) PROVE Chains'
  <2>1. \A x \in Users : wallet'[x].new = wallet[x].new /\ wallet'[x].old = wallet[x].old
    BY <1>1, <1>3, LockedRows
  <2>2. \A x \in Users : Chained(wallet'[x].new, x) /\ Chained(wallet'[x].old, x)
    BY <2>1 DEF Chains
  <2> QED BY <2>2 DEF Chains, Chained
<1>4. ASSUME NEW s \in Sessions, NEW u \in Users, NEW b \in 0 .. MaxBalance,
             wallet' = SetBalance(s, u, b)
      PROVE  Chains'
  <2> DEFINE v == [balance |-> b, audit |-> Audited(wallet[u].new, b, tx[s].start)]
  <2>1. v \in Wallet
    BY BalanceTypes DEF Coherent, Fits
  <2>2. Chained(v, u)
    BY <1>1, AuditedChains, InitialAssumption DEF Chains, Row
  <2>3. wallet' = Write(wallet, u, s, v)
    BY <1>4 DEF SetBalance
  <2> HIDE DEF v
  <2>4. \A x \in Users : /\ wallet'[x].new = IF x = u THEN v ELSE wallet[x].new
                         /\ wallet'[x].old = wallet[x].old
    BY <1>1, <2>1, <2>3, WrittenRows
  <2>5. \A x \in Users : Chained(wallet'[x].new, x) /\ Chained(wallet'[x].old, x)
    BY <2>2, <2>4 DEF Chains
  <2> QED BY <2>5 DEF Chains, Chained
<1>5. ASSUME NEW s \in Sessions, wallet' = Keep(wallet, s) \/ wallet' = Undo(wallet, s)
      PROVE  Chains'
  <2>1. \A x \in Users : /\ wallet'[x].new \in {wallet[x].new, wallet[x].old}
                         /\ wallet'[x].old \in {wallet[x].new, wallet[x].old}
    BY <1>1, <1>5, EndedRows, FreshRows
  <2>2. \A x \in Users : Chained(wallet'[x].new, x) /\ Chained(wallet'[x].old, x)
    BY <2>1 DEF Chains
  <2> QED BY <2>2 DEF Chains, Chained
<1> QED BY <1>2, <1>3, <1>4, <1>5, WalletSteps

\* However deposits, withdrawals, fills, aborts and crashes interleave, the audit log
\* of every wallet leads from its opening balance to its balance without a gap.
THEOREM AuditIsComplete == Spec => []AuditChain
<1>1. Coherent /\ Chains => AuditChain
  BY DEF Chains, AuditChain
<1> QED BY <1>1, InitCoherent, NextCoherent, InitChains, NextChains, PTL DEF Spec

-----------------------------------------------------------------------------
(* Fills *)

\* A step of s leaves the rows of table R that others hold as they are, and gives
\* nobody else a row; Q is the table after the step.
LeavesOthers(K, R, Q, s) ==
  \A k \in K, t \in Sessions \ {s} :
    /\ R[k].lock = t => Q[k] = R[k]
    /\ Q[k].lock = t => R[k].lock = t

LEMMA OthersRows ==
  ASSUME NEW K, NEW V, NEW R \in [K -> Row(V)], NEW s \in Sessions
  PROVE  /\ LeavesOthers(K, R, R, s)
         /\ \A k \in K : Free(R[k], s) => LeavesOthers(K, R, Lock(R, k, s), s)
         /\ \A k \in K, v \in V : Free(R[k], s) => LeavesOthers(K, R, Write(R, k, s, v), s)
         /\ LeavesOthers(K, R, Keep(R, s), s)
         /\ LeavesOthers(K, R, Undo(R, s), s)
<1> USE SessionAssumption
<1>1. LeavesOthers(K, R, R, s)
  BY DEF LeavesOthers
<1>2. ASSUME NEW k \in K, Free(R[k], s) PROVE LeavesOthers(K, R, Lock(R, k, s), s)
  BY <1>2 DEF LeavesOthers, Free, Lock, Row
<1>3. ASSUME NEW k \in K, NEW v \in V, Free(R[k], s) PROVE LeavesOthers(K, R, Write(R, k, s, v), s)
  BY <1>3 DEF LeavesOthers, Free, Write, Row
<1>4. LeavesOthers(K, R, Keep(R, s), s)
  BY DEF LeavesOthers, Keep, Fresh
<1>5. LeavesOthers(K, R, Undo(R, s), s)
  BY DEF LeavesOthers, Undo, Fresh
<1> QED BY <1>1, <1>2, <1>3, <1>4, <1>5

Covered == Coherent /\ FillsCovered

\* What a step of s never does to other transactions: it leaves their rows alone,
\* and it commits a position only when it is done with the fill that changed it.
LeavesFills(s) ==
  /\ LeavesOthers(Users, wallet, wallet', s) /\ LeavesOthers(Keys, holding, holding', s)
  /\ LeavesOthers(OrderIds, orders, orders', s)
  /\ \A t \in Sessions \ {s} : tx'[t] = tx[t]
  /\ \A k \in Keys : \/ holding'[k].old = holding[k].old
                     \/ /\ holding[k].lock = s /\ holding'[k].old = holding[k].new
                        /\ tx[s].pc # "wallet"

\* The fill of another transaction stays covered.
LEMMA OthersFill ==
  ASSUME Covered, NEW s \in Sessions, LeavesFills(s), NEW t \in Sessions \ {s}
  PROVE  FillCovered(t)'
<1> USE DEF Covered
<1>1. FillCovered(t) /\ tx'[t] = tx[t]
  BY DEF FillsCovered, LeavesFills
<1>2. CASE tx[t].pc \notin {"check", "portfolio", "wallet"}
  BY <1>1, <1>2 DEF FillCovered
<1>3. CASE tx[t].pc \in {"check", "portfolio", "wallet"}
  <2> DEFINE o == TheOrder(t)
             k == Key(t)
  <2>1. /\ tx[t].order \in OrderIds /\ orders[tx[t].order].lock = t
        /\ o.user \in Users /\ o.asset \in Assets /\ k \in Keys
    BY <1>3, FillTypes DEF Coherent, TxCoherent, Ready
  <2>2. TheOrder(t)' = o /\ Key(t)' = k /\ Cost(TheOrder(t))' = Cost(o)
    <3>1. orders'[tx[t].order] = orders[tx[t].order]
      BY <2>1 DEF LeavesFills, LeavesOthers
    <3> QED BY <1>1, <3>1 DEF TheOrder, Key, Cost
  <2>3. wallet[o.user].lock = t => wallet'[o.user] = wallet[o.user]
    BY <2>1 DEF LeavesFills, LeavesOthers
  <2>4. /\ holding[k].lock = t => holding'[k] = holding[k]
        /\ holding[k].lock # t => holding'[k].lock # t
    BY <2>1 DEF LeavesFills, LeavesOthers
  <2>5. wallet[o.user].lock = t => holding'[k].old = holding[k].old
    <3>1. SUFFICES ASSUME wallet[o.user].lock = t, holding[k].lock = s, tx[s].pc # "wallet",
                          holding[k].new # holding[k].old
                   PROVE  FALSE
      BY <2>1 DEF LeavesFills
    <3>2. k = <<o.user, o.asset>>
      BY DEF Key
    <3>3. ChangeCovered(o.user, o.asset)
      BY <2>1 DEF FillsCovered
    <3> QED BY <3>1, <3>2, <3>3 DEF ChangeCovered
  <2> HIDE DEF o, k
  <2>6. FillCovered(t)'
    BY <1>1, <1>3, <2>2, <2>3, <2>4, <2>5 DEF FillCovered, o, k
  <2> QED BY <2>6
<1> QED BY <1>2, <1>3

\* A position another transaction has changed stays covered.
LEMMA OthersChange ==
  ASSUME Covered, NEW s \in Sessions, LeavesFills(s), NEW u \in Users, NEW a \in Assets,
         holding'[<<u, a>>].lock \in Sessions \ {s}
  PROVE  ChangeCovered(u, a)'
<1> USE DEF Covered
<1> DEFINE k == <<u, a>>
<1>0. PICK t \in Sessions \ {s} : holding'[k].lock = t
  OBVIOUS
<1>1. k \in Keys
  BY DEF Keys
<1>2. holding[k].lock = t /\ holding'[k] = holding[k]
  BY <1>0, <1>1 DEF LeavesFills, LeavesOthers
<1>3. ChangeCovered(u, a)
  BY DEF FillsCovered
<1>4. wallet[u].lock = t => wallet'[u].lock = t
  BY DEF LeavesFills, LeavesOthers
<1>5. tx[t].pc = "wallet" /\ Key(t) = k => tx'[t].pc = "wallet" /\ Key(t)' = k
  <2>1. SUFFICES ASSUME tx[t].pc = "wallet", Key(t) = k PROVE tx'[t].pc = "wallet" /\ Key(t)' = k
    OBVIOUS
  <2>2. tx'[t] = tx[t]
    BY DEF LeavesFills
  <2>3. tx[t].order \in OrderIds /\ orders[tx[t].order].lock = t
    BY <2>1, FillTypes DEF Coherent, TxCoherent, Ready
  <2>4. orders'[tx[t].order] = orders[tx[t].order]
    BY <2>3 DEF LeavesFills, LeavesOthers
  <2> QED BY <2>1, <2>2, <2>4 DEF Key, TheOrder
<1>6. CASE wallet[u].lock = t
  BY <1>0, <1>4, <1>6 DEF ChangeCovered
<1>7. CASE tx[t].pc = "wallet" /\ Key(t) = k
  <2>1. tx'[holding'[k].lock].pc = "wallet" /\ Key(holding[k].lock)' = k
    BY <1>0, <1>5, <1>7 DEF Key, TheOrder
  <2> QED BY <2>1 DEF ChangeCovered
<1>8. CASE holding[k].new = holding[k].old
  BY <1>2, <1>8 DEF ChangeCovered
<1> QED BY <1>2, <1>3, <1>6, <1>7, <1>8 DEF ChangeCovered

\* A position s itself has changed, by a step that is not the end of its fill.
LEMMA OwnChange ==
  ASSUME Covered, NEW s \in Sessions, tx[s].pc # "wallet", NEW u \in Users, NEW a \in Assets,
         wallet[u].lock = s => wallet'[u].lock = s, holding'[<<u, a>>].lock = s,
         \/ holding'[<<u, a>>].new = holding'[<<u, a>>].old
         \/ holding'[<<u, a>>] = holding[<<u, a>>]
  PROVE  ChangeCovered(u, a)'
BY DEF Covered, FillsCovered, ChangeCovered

LEMMA StepCovered ==
  ASSUME Covered, Coherent', NEW s \in Sessions, LeavesFills(s), FillCovered(s)',
         \A u \in Users, a \in Assets : holding'[<<u, a>>].lock = s => ChangeCovered(u, a)'
  PROVE  Covered'
<1>1. \A t \in Sessions : FillCovered(t)'
  BY OthersFill
<1>2. ASSUME NEW u \in Users, NEW a \in Assets PROVE ChangeCovered(u, a)'
  <2>1. <<u, a>> \in Keys
    BY DEF Keys
  <2>2. holding'[<<u, a>>].lock \in Sessions \cup {None}
    BY <2>1 DEF Coherent, TypeOK, Row
  <2>3. CASE holding'[<<u, a>>].lock = None
    BY <2>1, <2>3 DEF Coherent, RowsCoherent, ChangeCovered
  <2> QED BY <2>2, <2>3, OthersChange
<1> QED BY <1>1, <1>2 DEF Covered, FillsCovered

LEMMA RollbackCovered ==
  ASSUME Covered, Coherent', NEW s \in Sessions, Rollback(s) PROVE Covered'
<1> USE DEF Covered
<1>1. tx'[s] = Idle /\ \A t \in Sessions \ {s} : tx'[t] = tx[t]
  BY DEF Rollback, Coherent, TypeOK
<1>2. FillCovered(s)'
  BY <1>1 DEF FillCovered, Idle
<1>3. \A k \in Keys : holding'[k].old = holding[k].old /\ holding'[k].lock # s
  <2>1. holding \in [Keys -> Row(Holding)] /\ holding' = Undo(holding, s) /\ s # None
    BY SessionAssumption DEF Rollback, Coherent, TypeOK
  <2>2. \A k \in Keys : holding'[k] = IF holding[k].lock = s THEN Fresh(holding[k].old) ELSE holding[k]
    BY <2>1, EndedRows
  <2> QED BY <2>1, <2>2, FreshRows
<1>4. LeavesFills(s)
  <2>1. LeavesOthers(Users, wallet, wallet', s)
    BY OthersRows DEF Rollback, Coherent, TypeOK
  <2>2. LeavesOthers(Keys, holding, holding', s)
    BY OthersRows DEF Rollback, Coherent, TypeOK
  <2>3. LeavesOthers(OrderIds, orders, orders', s)
    BY OthersRows DEF Rollback, Coherent, TypeOK
  <2> QED BY <1>1, <1>3, <2>1, <2>2, <2>3 DEF LeavesFills
<1>5. \A u \in Users, a \in Assets : holding'[<<u, a>>].lock # s
  BY <1>3 DEF Keys
<1> QED BY <1>2, <1>4, <1>5, StepCovered

\* A step of s that leaves wallets and positions as they are.
LEMMA QuietCovered ==
  ASSUME Covered, Coherent', NEW s \in Sessions, UNCHANGED <<wallet, holding>>,
         LeavesOthers(OrderIds, orders, orders', s), \A t \in Sessions \ {s} : tx'[t] = tx[t],
         FillCovered(s)', tx[s].pc # "wallet"
  PROVE  Covered'
<1>1. LeavesFills(s)
  <2>1. LeavesOthers(Users, wallet, wallet', s)
    BY OthersRows DEF Covered, Coherent, TypeOK
  <2>2. LeavesOthers(Keys, holding, holding', s)
    BY OthersRows DEF Covered, Coherent, TypeOK
  <2> QED BY <2>1, <2>2 DEF LeavesFills
<1>2. \A u \in Users, a \in Assets : holding'[<<u, a>>].lock = s => ChangeCovered(u, a)'
  BY OwnChange
<1> QED BY <1>1, <1>2, StepCovered

LEMMA InitCovered == Init => Covered
<1> SUFFICES ASSUME Init PROVE Covered
  OBVIOUS
<1>1. \A s \in Sessions : FillCovered(s)
  BY DEF Init, Idle, FillCovered
<1>2. \A u \in Users, a \in Assets : ChangeCovered(u, a)
  BY DEF Init, Fresh, ChangeCovered, Keys
<1> QED BY <1>1, <1>2, InitCoherent DEF Covered, FillsCovered

LEMMA NextCovered == ASSUME Covered, [Next]_vars PROVE Covered'
<1> USE DEF Covered
<1>1. Coherent'
  BY NextCoherent
<1>2. /\ wallet \in [Users -> Row(Wallet)] /\ holding \in [Keys -> Row(Holding)]
      /\ orders \in [OrderIds -> Row(Order \cup {NoOrder})]
  BY DEF Coherent, TypeOK
<1>3. ASSUME NEW s \in Sessions, NEW t, tx' = [tx EXCEPT ![s] = t]
      PROVE  tx'[s] = t /\ \A r \in Sessions \ {s} : tx'[r] = tx[r]
  BY <1>3 DEF Coherent, TypeOK
<1>4. ASSUME NEW s \in Sessions, UNCHANGED orders PROVE LeavesOthers(OrderIds, orders, orders', s)
  BY <1>2, <1>4, OthersRows
<1>5. ASSUME NEW s \in Sessions, Raise(s) PROVE Covered'
  BY <1>1, <1>5, RollbackCovered DEF Raise
<1>6. \A s \in Sessions : tx[s] \in Transaction /\ FillCovered(s) /\ Ready(s)
  BY StepFacts DEF Coherent, TxCoherent, FillsCovered
<1>7. ASSUME NEW s \in Web, NEW u \in Users, NEW amount \in Amounts, RequestCash(s, u, amount)
      PROVE  Covered'
  <2>1. s \in Sessions
    BY DEF Sessions
  <2>2. /\ tx'[s] = [Idle EXCEPT !.pc = "cash", !.start = now, !.user = u, !.amount = amount]
        /\ \A t \in Sessions \ {s} : tx'[t] = tx[t]
    BY <1>3, <1>7, <2>1 DEF RequestCash, Begin
  <2>3. FillCovered(s)'
    BY <2>2 DEF FillCovered, Idle
  <2> QED BY <1>1, <1>4, <1>7, <2>1, <2>2, <2>3, QuietCovered DEF RequestCash, rows
<1>8. ASSUME NEW s \in Web, NEW u \in Users, NEW a \in Assets, NEW side \in Sides,
             NEW kind \in Kinds, NEW q \in Quantities, NEW target \in Targets \cup {None},
             NEW expiry \in Expiries \cup {None}, PlaceOrder(s, u, a, side, kind, q, target, expiry)
      PROVE  Covered'
  <2> DEFINE o == calls + 1
             order == [status |-> "open", user |-> u, asset |-> a, side |-> side, kind |-> kind,
                       quantity |-> q, price |-> IF target = None THEN cache[a] ELSE target,
                       target_price |-> target, expires_at |-> expiry, created_at |-> now,
                       trades |-> << >>]
             t == IF kind = "market" THEN [Idle EXCEPT !.pc = "check", !.start = now, !.order = o]
                                     ELSE [Idle EXCEPT !.pc = "next", !.start = now]
  <2>1. s \in Sessions
    BY DEF Sessions
  <2>2. tx'[s] = t /\ \A r \in Sessions \ {s} : tx'[r] = tx[r]
    BY <1>3, <1>8, <2>1 DEF PlaceOrder, Begin
  <2>3. FillCovered(s)'
    BY <2>2 DEF FillCovered, Idle
  <2>4. o \in OrderIds /\ Free(orders[o], s)
    <3>1. calls \in Nat /\ o \in OrderIds /\ o > calls
      BY <1>8, StepFacts, BoundAssumption DEF PlaceOrder, Coherent, TypeOK, OrderIds
    <3> QED BY <3>1 DEF Coherent, RowsCoherent, Fresh, Free
  <2>5. order \in Order
    <3>1. cache[a] \in (Nat \ {0}) \cup {None} /\ Targets \subseteq Nat \ {0} /\ now \in Nat
      BY InputAssumption, StepFacts DEF Coherent, TypeOK
    <3>2. (IF target = None THEN cache[a] ELSE target) \in Nat \ {0}
      BY <1>8, <3>1 DEF PlaceOrder
    <3> QED BY <3>1, <3>2 DEF Order
  <2>6. orders' = Write(orders, o, s, order)
    BY <1>8 DEF PlaceOrder
  <2> HIDE DEF o, order
  <2>7. LeavesOthers(OrderIds, orders, orders', s)
    BY <1>2, <2>1, <2>4, <2>5, <2>6, OthersRows
  <2> QED BY <1>1, <1>8, <2>1, <2>2, <2>3, <2>7, QuietCovered DEF PlaceOrder
<1>9. ASSUME NEW s \in Sessions, MoveCash(s) PROVE Covered'
  <2> DEFINE u == tx[s].user
             b == wallet[u].new.balance + tx[s].amount
             v == [balance |-> b, audit |-> Audited(wallet[u].new, b, tx[s].start)]
  <2>1. CASE /\ Free(wallet[u], s) /\ Fits(b) /\ wallet' = SetBalance(s, u, b)
             /\ tx' = [tx EXCEPT ![s].pc = "next"]
             /\ UNCHANGED <<holding, orders, cache, now, left, calls, crashes>>
    <3>1. u \in Users /\ tx[s].pc = "cash"
      BY <1>6, <1>9 DEF MoveCash, Ready
    <3>2. v \in Wallet /\ wallet' = Write(wallet, u, s, v)
      BY <2>1, <3>1, BalanceTypes DEF Coherent, SetBalance
    <3> HIDE DEF u, b, v
    <3>3. LeavesOthers(Users, wallet, wallet', s)
      BY <1>2, <2>1, <3>1, <3>2, OthersRows
    <3>4. LeavesFills(s)
      BY <1>2, <1>4, <2>1, <3>3, OthersRows DEF LeavesFills, Coherent, TypeOK
    <3>5. tx'[s].pc = "next" /\ tx'[s].seen = tx[s].seen
      BY <1>6, <2>1 DEF Coherent, TypeOK, Transaction
    <3>6. FillCovered(s)'
      BY <1>6, <3>1, <3>5 DEF FillCovered
    <3>7. \A x \in Users : wallet[x].lock = s => wallet'[x].lock = s
      BY <1>2, <3>1, <3>2, WrittenRows
    <3>8. \A x \in Users, a \in Assets : holding'[<<x, a>>].lock = s => ChangeCovered(x, a)'
      BY <2>1, <3>1, <3>7, OwnChange
    <3> QED BY <1>1, <3>4, <3>6, <3>8, StepCovered
  <2> QED BY <1>5, <1>9, <2>1 DEF MoveCash
<1>10. ASSUME NEW s \in Sessions, CheckFunds(s) PROVE Covered'
  <2> DEFINE u == TheOrder(s).user
  <2>1. CASE /\ Free(wallet[u], s) /\ wallet[u].new.balance >= Cost(TheOrder(s))
             /\ wallet' = Lock(wallet, u, s)
             /\ tx' = [tx EXCEPT ![s].pc = "portfolio"]
             /\ UNCHANGED <<holding, orders, cache, now, left, calls, crashes>>
    <3>1. u \in Users /\ tx[s].pc = "check" /\ TheOrder(s).side = "buy"
      BY <1>10, FillTypes DEF CheckFunds
    <3>2. LeavesOthers(Users, wallet, wallet', s)
      BY <1>2, <2>1, <3>1, OthersRows
    <3>3. LeavesFills(s)
      BY <1>2, <1>4, <2>1, <3>2, OthersRows DEF LeavesFills, Coherent, TypeOK
    <3>4. tx'[s].pc = "portfolio" /\ tx'[s].seen = None /\ tx'[s].order = tx[s].order
      BY <1>6, <2>1, <3>1 DEF FillCovered, Coherent, TypeOK, Transaction
    <3>5. /\ \A x \in Users : wallet[x].lock = s => wallet'[x].lock = s
          /\ wallet'[u].lock = s /\ wallet'[u].new = wallet[u].new
      BY <1>2, <2>1, <3>1, LockedRows
    <3>6. TheOrder(s)' = TheOrder(s)
      BY <2>1, <3>4 DEF TheOrder
    <3>7. FillCovered(s)'
      BY <2>1, <3>1, <3>4, <3>5, <3>6 DEF FillCovered, Cost
    <3>8. \A x \in Users, a \in Assets : holding'[<<x, a>>].lock = s => ChangeCovered(x, a)'
      BY <2>1, <3>1, <3>5, OwnChange
    <3> QED BY <1>1, <3>3, <3>7, <3>8, StepCovered
  <2> QED BY <1>5, <1>10, <2>1 DEF CheckFunds
<1>11. ASSUME NEW s \in Sessions, WaitForHolding(s) PROVE Covered'
  <2> DEFINE n == Version(holding[Key(s)].old)
  <2>1. /\ tx[s].pc \in {"check", "portfolio"} /\ tx[s].seen = None
        /\ tx[s].pc = "check" => TheOrder(s).side = "sell"
        /\ holding[Key(s)].lock # s
    BY <1>11 DEF WaitForHolding, Free
  <2>2. tx' = [tx EXCEPT ![s].seen = n] /\ UNCHANGED <<rows, calls>>
    BY <1>11 DEF WaitForHolding
  <2>3. tx'[s].pc = tx[s].pc /\ tx'[s].seen = n /\ tx'[s].order = tx[s].order
    BY <1>6, <2>2 DEF Coherent, TypeOK, Transaction
  <2>4. TheOrder(s)' = TheOrder(s) /\ Key(s)' = Key(s)
    BY <2>2, <2>3 DEF TheOrder, Key, rows
  <2>5. FillCovered(s)'
    BY <1>6, <2>1, <2>2, <2>3, <2>4 DEF FillCovered, Cost, rows
  <2>6. \A t \in Sessions \ {s} : tx'[t] = tx[t]
    BY <2>2 DEF Coherent, TypeOK
  <2> QED BY <1>1, <1>4, <2>1, <2>2, <2>5, <2>6, QuietCovered DEF rows
<1>12. ASSUME NEW s \in Sessions, CheckHolding(s) PROVE Covered'
  <2> DEFINE k == Key(s)
             o == TheOrder(s)
  <2>1. CASE /\ Free(holding[k], s) \/ holding[k].old.quantity = 0
             /\ Current(s).quantity >= o.quantity
             /\ holding' = Lock(holding, k, s)
             /\ tx' = [tx EXCEPT ![s].pc = "portfolio", ![s].seen = None]
             /\ UNCHANGED <<wallet, orders, cache, now, left, calls, crashes>>
    <3>1. k \in Keys /\ o.quantity \in Nat \ {0} /\ tx[s].pc = "check" /\ o.side = "sell"
      BY <1>12, FillTypes DEF CheckHolding
    <3>2. holding[k].new \in Holding /\ holding[k].old \in Holding
      BY <1>2, <3>1 DEF Row
    <3>3. Current(s).quantity = 0 \/ Current(s) = Seen(holding[k], s)
      BY <3>2 DEF Current, Seen, Holding
    <3>4. Free(holding[k], s) /\ Current(s) = Seen(holding[k], s)
      BY <2>1, <3>1, <3>3 DEF Seen, Free
    <3>5. Seen(holding[k], s) = holding[k].new
      BY <3>1, <3>4 DEF Seen, Free, Coherent, RowsCoherent
    <3>6. LeavesOthers(Keys, holding, holding', s)
      BY <1>2, <2>1, <3>1, <3>4, OthersRows
    <3>7. /\ holding'[k].lock = s /\ holding'[k].new = holding[k].new
          /\ \A j \in Keys : /\ holding'[j].new = holding[j].new /\ holding'[j].old = holding[j].old
                             /\ holding'[j].lock = IF j = k THEN s ELSE holding[j].lock
      BY <1>2, <2>1, <3>1, LockedRows
    <3>8. LeavesFills(s)
      BY <1>2, <1>4, <2>1, <3>6, <3>7, OthersRows DEF LeavesFills, Coherent, TypeOK
    <3>9. tx'[s].pc = "portfolio" /\ tx'[s].seen = None /\ tx'[s].order = tx[s].order
      BY <1>6, <2>1 DEF Coherent, TypeOK, Transaction
    <3>10. TheOrder(s)' = o /\ Key(s)' = k
      BY <2>1, <3>9 DEF TheOrder, Key
    <3>11. FillCovered(s)'
      BY <2>1, <3>1, <3>4, <3>5, <3>7, <3>9, <3>10 DEF FillCovered
    <3>12. ASSUME NEW x \in Users, NEW a \in Assets, holding'[<<x, a>>].lock = s
           PROVE  ChangeCovered(x, a)'
      <4>1. <<x, a>> \in Keys
        BY DEF Keys
      <4>2. CASE holding[<<x, a>>].lock = s /\ holding[<<x, a>>].new # holding[<<x, a>>].old
        BY <1>2, <2>1, <3>1, <3>7, <3>12, <4>1, <4>2 DEF FillsCovered, ChangeCovered
      <4>3. CASE holding[<<x, a>>].new = holding[<<x, a>>].old
        BY <3>7, <4>1, <4>3 DEF ChangeCovered
      <4>4. holding[<<x, a>>].lock \in {None, s}
        BY <3>4, <3>7, <3>12, <4>1 DEF Free
      <4> QED BY <4>1, <4>2, <4>3, <4>4 DEF Coherent, RowsCoherent
    <3> QED BY <1>1, <3>8, <3>11, <3>12, StepCovered
  <2> QED BY <1>5, <1>12, <2>1 DEF CheckHolding
<1>13. ASSUME NEW s \in Sessions, UpdatePortfolio(s) PROVE Covered'
  <2> DEFINE o == TheOrder(s)
             k == Key(s)
             v == Traded(o, Current(s), tx[s].start)
             profit == IF o.side = "buy" THEN 0 ELSE (o.price - Current(s).avg_price) * o.quantity
  <2>1. CASE /\ ~TradeFails(s) /\ Free(holding[k], s)
             /\ holding' = Write(holding, k, s, v)
             /\ tx' = [tx EXCEPT ![s].pc = "wallet", ![s].seen = None, ![s].profit = profit]
             /\ UNCHANGED <<wallet, orders, cache, now, left, calls, crashes>>
    <3>1. /\ o \in Order /\ Current(s) \in Holding /\ k \in Keys /\ tx[s].start \in Nat
          /\ tx[s].pc = "portfolio" /\ o.user \in Users /\ o.asset \in Assets
      BY <1>6, <1>13, FillTypes DEF UpdatePortfolio, Transaction
    <3>2. o.side = "sell" => Current(s).quantity >= o.quantity
      BY <2>1, <3>1, InputAssumption DEF TradeFails, Order, Holding
    <3>3. v \in Holding
      BY <3>1, <3>2, TradedTypes
    <3> HIDE DEF v, profit
    <3>4. LeavesOthers(Keys, holding, holding', s)
      BY <1>2, <2>1, <3>1, <3>3, OthersRows
    <3>5. \A j \in Keys : holding'[j].old = holding[j].old /\ (j # k => holding'[j] = holding[j])
      BY <1>2, <2>1, <3>1, <3>3, WrittenRows
    <3>6. LeavesFills(s)
      BY <1>2, <1>4, <2>1, <3>4, <3>5, OthersRows DEF LeavesFills, Coherent, TypeOK
    <3>7. tx'[s].pc = "wallet" /\ tx'[s].seen = None /\ tx'[s].order = tx[s].order
      BY <1>6, <2>1 DEF Coherent, TypeOK, Transaction
    <3>8. TheOrder(s)' = o /\ Key(s)' = k
      BY <2>1, <3>7 DEF TheOrder, Key
    <3>9. FillCovered(s)'
      BY <1>6, <2>1, <3>1, <3>7, <3>8 DEF FillCovered, Cost
    <3>10. ASSUME NEW x \in Users, NEW a \in Assets, holding'[<<x, a>>].lock = s
           PROVE  ChangeCovered(x, a)'
      <4>1. CASE <<x, a>> = k
        <5>1. tx'[holding'[<<x, a>>].lock].pc = "wallet" /\ Key(holding[<<x, a>>].lock)' = <<x, a>>
          BY <3>7, <3>8, <3>10, <4>1 DEF Key, TheOrder
        <5> QED BY <5>1 DEF ChangeCovered
      <4>2. CASE <<x, a>> # k
        <5>1. holding'[<<x, a>>] = holding[<<x, a>>]
          BY <3>5, <4>2 DEF Keys
        <5> QED BY <2>1, <3>1, <3>10, <5>1, OwnChange
      <4> QED BY <4>1, <4>2
    <3> QED BY <1>1, <3>6, <3>9, <3>10, StepCovered
  <2> QED BY <1>5, <1>13, <2>1 DEF UpdatePortfolio
<1>14. ASSUME NEW s \in Sessions, UpdateWallet(s) PROVE Covered'
  <2> DEFINE o == TheOrder(s)
             b == wallet[o.user].new.balance + Proceeds(o)
             w == [balance |-> b, audit |-> Audited(wallet[o.user].new, b, tx[s].start)]
             trade == [price |-> o.price, profit |-> tx[s].profit, booked |-> ProfitBooked(s)]
             filled == [o EXCEPT !.status = "filled", !.trades = Append(@, trade)]
  <2>1. CASE /\ Free(wallet[o.user], s) /\ Fits(b) /\ wallet' = SetBalance(s, o.user, b)
             /\ orders' = Write(orders, tx[s].order, s, filled)
             /\ tx' = [tx EXCEPT ![s].pc = "next", ![s].order = None, ![s].profit = 0]
             /\ UNCHANGED <<holding, cache, now, left, calls, crashes>>
    <3>1. /\ o.user \in Users /\ tx[s].pc = "wallet" /\ tx[s].order \in OrderIds
          /\ Free(orders[tx[s].order], s)
      BY <1>6, <1>14, FillTypes DEF UpdateWallet, Ready, Free
    <3>2. w \in Wallet /\ wallet' = Write(wallet, o.user, s, w)
      BY <2>1, <3>1, BalanceTypes DEF Coherent, SetBalance
    <3>3. filled \in Order
      BY <3>1, FilledTypes
    <3> HIDE DEF w, filled
    <3>4. LeavesOthers(Users, wallet, wallet', s)
      BY <1>2, <2>1, <3>1, <3>2, OthersRows
    <3>5. LeavesOthers(OrderIds, orders, orders', s)
      BY <1>2, <2>1, <3>1, <3>3, OthersRows
    <3>6. LeavesOthers(Keys, holding, holding', s)
      BY <1>2, <2>1, OthersRows
    <3>7. LeavesFills(s)
      BY <2>1, <3>4, <3>5, <3>6 DEF LeavesFills, Coherent, TypeOK
    <3>8. tx'[s].pc = "next" /\ tx'[s].seen = tx[s].seen
      BY <1>6, <2>1 DEF Coherent, TypeOK, Transaction
    <3>9. FillCovered(s)'
      BY <1>6, <3>1, <3>8 DEF FillCovered
    <3>10. ASSUME NEW x \in Users, NEW a \in Assets, holding'[<<x, a>>].lock = s
           PROVE  ChangeCovered(x, a)'
      <4>1. \A y \in Users : wallet'[y].lock = IF y = o.user THEN s ELSE wallet[y].lock
        BY <1>2, <3>1, <3>2, WrittenRows
      <4>2. Key(s) = <<x, a>> => x = o.user
        BY DEF Key
      <4>3. ChangeCovered(x, a)
        BY DEF FillsCovered
      <4> QED BY <2>1, <3>10, <4>1, <4>2, <4>3 DEF ChangeCovered
    <3> QED BY <1>1, <3>7, <3>9, <3>10, StepCovered
  <2> QED BY <1>5, <1>14, <2>1 DEF UpdateWallet
<1>15. ASSUME NEW s \in Sessions, Commit(s) PROVE Covered'
  <2>1. tx'[s] = Idle /\ (\A t \in Sessions \ {s} : tx'[t] = tx[t]) /\ tx[s].pc = "next"
    BY <1>3, <1>15 DEF Commit
  <2>2. \A j \in Keys : holding'[j] = IF holding[j].lock = s THEN Fresh(holding[j].new) ELSE holding[j]
    BY <1>2, <1>15, EndedRows DEF Commit
  <2>3. LeavesOthers(Users, wallet, wallet', s) /\ LeavesOthers(Keys, holding, holding', s)
    BY <1>2, <1>15, OthersRows DEF Commit
  <2>4. LeavesOthers(OrderIds, orders, orders', s)
    BY <1>2, <1>15, OthersRows DEF Commit
  <2>5. \A k \in Keys : \/ holding'[k].old = holding[k].old
                        \/ holding[k].lock = s /\ holding'[k].old = holding[k].new
    BY <2>2, FreshRows
  <2>6. LeavesFills(s)
    BY <2>1, <2>3, <2>4, <2>5 DEF LeavesFills
  <2>7. FillCovered(s)'
    BY <2>1 DEF FillCovered, Idle
  <2>8. \A u \in Users, a \in Assets : holding'[<<u, a>>].lock # s
    BY <2>2, FreshRows, SessionAssumption DEF Keys
  <2> QED BY <1>1, <2>6, <2>7, <2>8, StepCovered
<1>16. ASSUME UNCHANGED <<rows, tx, calls>> PROVE Covered'
  <2>1. ASSUME NEW s \in Sessions PROVE FillCovered(s)'
    BY <1>6, <1>16 DEF FillCovered, TheOrder, Key, Cost, rows
  <2>2. ASSUME NEW u \in Users, NEW a \in Assets PROVE ChangeCovered(u, a)'
    <3>1. ChangeCovered(u, a)
      BY DEF FillsCovered
    <3> QED BY <1>16, <3>1 DEF ChangeCovered, TheOrder, Key, rows
  <2> QED BY <1>1, <2>1, <2>2 DEF FillsCovered
<1>17. ASSUME NEW s \in Matchers, NEW a \in Assets, ReadPrice(s, a) PROVE Covered'
  <2>1. s \in Sessions
    BY DEF Sessions
  <2>2. /\ tx'[s] = [Idle EXCEPT !.pc = IF cache[a] = None THEN "next" ELSE "cursor",
                                 !.start = now, !.asset = a, !.price = cache[a]]
        /\ \A t \in Sessions \ {s} : tx'[t] = tx[t]
    BY <1>3, <1>17, <2>1 DEF ReadPrice, Begin
  <2>3. tx'[s].pc = (IF cache[a] = None THEN "next" ELSE "cursor")
    BY <2>2 DEF Idle
  <2>4. tx'[s].seen = None
    BY <2>2 DEF Idle
  <2>5. FillCovered(s)'
    BY <2>3, <2>4 DEF FillCovered
  <2> QED BY <1>1, <1>4, <1>17, <2>1, <2>2, <2>5, QuietCovered DEF ReadPrice, rows
<1>18. ASSUME NEW s \in Sessions, OpenCursor(s) PROVE Covered'
  <2> DEFINE S == {o \in OrderIds :
                     Matchable(orders[o].old, tx[s].asset, tx[s].start, tx[s].price)}
  <2>1. tx' = [tx EXCEPT ![s].pc = "next", ![s].todo = S] /\ tx[s].pc = "cursor"
    BY <1>18 DEF OpenCursor
  <2> HIDE DEF S
  <2>2. tx'[s].pc = "next" /\ tx'[s].seen = tx[s].seen /\ \A t \in Sessions \ {s} : tx'[t] = tx[t]
    BY <1>6, <2>1 DEF Coherent, TypeOK, Transaction
  <2>3. FillCovered(s)'
    BY <1>6, <2>1, <2>2 DEF FillCovered
  <2> QED BY <1>1, <1>4, <1>18, <2>1, <2>2, <2>3, QuietCovered DEF OpenCursor, rows
<1>19. ASSUME NEW s \in Sessions, NextOrder(s) PROVE Covered'
  <2>1. PICK o \in tx[s].todo :
          /\ s \in Matchers /\ tx[s].pc = "next" /\ Free(orders[o], s)
          /\ orders' = Write(orders, o, s, [orders[o].new EXCEPT !.price = tx[s].price])
          /\ tx' = [tx EXCEPT ![s].pc = "check", ![s].order = o, ![s].todo = @ \ {o}]
          /\ UNCHANGED <<wallet, holding, cache, now, left, calls, crashes>>
    BY <1>19 DEF NextOrder
  <2>2. o \in OrderIds /\ orders[o].old # NoOrder /\ tx[s].price \in Nat \ {0}
    BY <1>6, <2>1, InputAssumption DEF Ready, Transaction
  <2>3. [orders[o].new EXCEPT !.price = tx[s].price] \in Order
    <3>1. orders[o].new \in Order
      BY <2>2 DEF Coherent, RowsCoherent, TypeOK, Row
    <3> QED BY <2>2, <3>1 DEF Order
  <2>4. LeavesOthers(OrderIds, orders, orders', s)
    BY <1>2, <2>1, <2>2, <2>3, OthersRows
  <2>5. tx'[s].pc = "check" /\ tx'[s].seen = tx[s].seen /\ \A t \in Sessions \ {s} : tx'[t] = tx[t]
    BY <1>6, <2>1 DEF Coherent, TypeOK, Transaction
  <2>6. FillCovered(s)'
    BY <1>6, <2>1, <2>5 DEF FillCovered
  <2> QED BY <1>1, <2>1, <2>4, <2>5, <2>6, QuietCovered
<1>20. ASSUME NEW s \in Expirers, FindStale(s) PROVE Covered'
  <2> DEFINE S == {o \in OrderIds : Stale(orders[o].old, now)}
  <2>1. s \in Sessions
    BY DEF Sessions
  <2>2. /\ tx'[s] = [Idle EXCEPT !.pc = "next", !.start = now, !.todo = S]
        /\ \A t \in Sessions \ {s} : tx'[t] = tx[t]
    BY <1>3, <1>20, <2>1 DEF FindStale, Begin
  <2> HIDE DEF S
  <2>3. FillCovered(s)'
    BY <2>2 DEF FillCovered, Idle
  <2> QED BY <1>1, <1>4, <1>20, <2>1, <2>2, <2>3, QuietCovered DEF FindStale, rows
<1>21. ASSUME NEW s \in Sessions, ExpireOne(s) PROVE Covered'
  <2> DEFINE v(o) == [orders[o].new EXCEPT !.status = "cancelled"]
  <2>1. PICK o \in tx[s].todo :
          /\ tx[s].pc = "next" /\ Free(orders[o], s)
          /\ orders' = IF Stale(orders[o].new, tx[s].start) THEN Write(orders, o, s, v(o)) ELSE orders
          /\ tx' = [tx EXCEPT ![s].todo = @ \ {o}]
          /\ UNCHANGED <<wallet, holding, cache, now, left, calls, crashes>>
    BY <1>21 DEF ExpireOne
  <2>2. o \in OrderIds /\ orders[o].old # NoOrder
    BY <1>6, <2>1, InputAssumption DEF Ready, Transaction
  <2>3. v(o) \in Order
    <3>1. orders[o].new \in Order
      BY <2>2 DEF Coherent, RowsCoherent, TypeOK, Row
    <3> QED BY <3>1 DEF Order
  <2>4. LeavesOthers(OrderIds, orders, orders', s)
    BY <1>2, <2>1, <2>2, <2>3, OthersRows
  <2>5. tx'[s].pc = "next" /\ tx'[s].seen = tx[s].seen /\ \A t \in Sessions \ {s} : tx'[t] = tx[t]
    BY <1>6, <2>1 DEF Coherent, TypeOK, Transaction
  <2>6. FillCovered(s)'
    BY <1>6, <2>1, <2>5 DEF FillCovered
  <2> QED BY <1>1, <2>1, <2>4, <2>5, <2>6, QuietCovered
<1>22. ASSUME NEW s \in Sessions, AbortDeadlock(s) PROVE Covered'
  BY <1>5, <1>22 DEF AbortDeadlock
<1>23. ASSUME NEW s \in Sessions, Crash(s) PROVE Covered'
  BY <1>1, <1>23, RollbackCovered DEF Crash
<1>24. ASSUME NEW s \in Matchers, StartRun(s) PROVE Covered'
  BY <1>16, <1>24 DEF StartRun
<1>25. ASSUME NEW a \in Assets, NEW p \in Prices, PriceTick(a, p) PROVE Covered'
  BY <1>16, <1>25 DEF PriceTick
<1>26. CASE Tick \/ UNCHANGED vars
  BY <1>16, <1>26 DEF Tick, vars
<1> QED
  BY <1>7, <1>8, <1>9, <1>10, <1>11, <1>12, <1>13, <1>14, <1>15, <1>17, <1>18, <1>19, <1>20, <1>21,
     <1>22, <1>23, <1>24, <1>25, <1>26
  DEF Next, Request, StartJob, Statement, ExecuteTrade

LEMMA NeverLate == ASSUME Covered PROVE NoLateRefusal
<1> USE DEF Covered
<1> SUFFICES ASSUME NEW s \in Sessions
             PROVE  /\ tx[s].pc = "portfolio" /\ Free(holding[Key(s)], s) => ~TradeFails(s)
                    /\ tx[s].pc = "wallet" /\ TheOrder(s).side = "buy" =>
                         LET w == wallet[TheOrder(s).user] IN
                         w.lock = s /\ w.new.balance >= Cost(TheOrder(s))
  BY DEF NoLateRefusal
<1>1. FillCovered(s)
  BY DEF FillsCovered
<1>2. ASSUME tx[s].pc = "portfolio", Free(holding[Key(s)], s) PROVE ~TradeFails(s)
  <2> DEFINE h == holding[Key(s)]
  <2>1. Key(s) \in Keys /\ TheOrder(s) \in Order /\ TheOrder(s).quantity \in Nat
    BY <1>2, FillTypes
  <2>2. h.new \in Holding /\ h.old \in Holding /\ (h.lock = None => h.new = h.old)
    BY <2>1 DEF Coherent, RowsCoherent, TypeOK, Row
  <2>3. Seen(h, s) = h.new
    BY <1>2, <2>2 DEF Seen, Free
  <2>4. TheOrder(s).side \in {"buy", "sell"}
    BY <2>1, InputAssumption DEF Order
  <2>5. Current(s) = h.new
    <3>1. CASE tx[s].seen = None
      BY <2>3, <3>1 DEF Current
    <3>2. CASE tx[s].seen # None
      BY <1>1, <1>2, <2>2, <2>3, <2>4, <3>2 DEF Current, FillCovered, Free
    <3> QED BY <3>1, <3>2
  <2>6. CASE TheOrder(s).side = "sell"
    BY <1>1, <1>2, <2>1, <2>2, <2>5, <2>6 DEF TradeFails, FillCovered, Holding
  <2>7. CASE TheOrder(s).side = "buy"
    BY <2>2, <2>5, <2>7 DEF TradeFails, Holding
  <2> QED BY <2>4, <2>6, <2>7
<1> QED BY <1>1, <1>2 DEF FillCovered

\* A fill that has passed the check of execute_trade is never refused later in its
\* transaction, whatever other fills, withdrawals, aborts and crashes run beside it:
\* no overdraft, no 'Insufficient holdings' and no second current portfolio version.
THEOREM FillsNeverRefusedLate == Spec => []NoLateRefusal
BY InitCovered, NextCovered, NeverLate, PTL DEF Spec
=============================================================================
