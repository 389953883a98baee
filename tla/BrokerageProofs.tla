--------------------------- MODULE BrokerageProofs ---------------------------
(***************************************************************************)
(* The exchange is a brokerage (ExchangeBooks!IsBrokerage): every commit   *)
(* is one step of Brokerage, and every other statement changes nothing its *)
(* users can tell.  This takes one matcher at most: what two could do is   *)
(* the subject of the run two_matchers.  An order that expires while the   *)
(* matcher has it in hand (the subject of the run expiry_race) counts as   *)
(* open until the matcher is done with it (ExchangeBooks!Shown).           *)
(***************************************************************************)
EXTENDS BooksProofs

-----------------------------------------------------------------------------
(* What each kind of transaction has in hand *)

Filling(s) == tx[s].pc \in {"check", "portfolio", "wallet"}

\* Order o of the web transaction s: a market order that is being filled or has been,
\* or another that has been placed.
Placed(s, o) ==
  LET r == orders[o].new IN
  /\ r.status # "none"
  /\ \/ Filling(s) /\ tx[s].order = o /\ r.status = "open" /\ r.kind = "market" /\ r.price \in Prices
     \/ tx[s].pc = "next" /\ r.status = "open" /\ r.kind # "market"
     \/ /\ tx[s].pc = "next" /\ r.status = "filled" /\ r.kind = "market"
        /\ r.price \in Prices /\ r.trades[1].price = r.price

\* An order the matcher s has found open; it may have expired since.
Found(s, o) ==
  LET r == orders[o].old IN
  r.status \in {"open", "cancelled"} /\ r.asset = tx[s].asset /\ Triggered(r, tx[s].price)

\* One it is filling, or has filled.
Matched(s, o) ==
  LET r == orders[o].new IN
  /\ Found(s, o) /\ tx[s].price # None
  /\ Asked(r) = Asked(orders[o].old) /\ r.price = tx[s].price
  /\ \/ Filling(s) /\ tx[s].order = o /\ r.status \in {"open", "cancelled"}
     \/ r.status = "filled" /\ r.trades[1].price = r.price

\* One an expiry has cancelled.
Expired(o) ==
  LET r == orders[o].new IN
  orders[o].old.status = "open" /\ r.status = "cancelled" /\ Asked(r) = Asked(orders[o].old)

Deal(s) ==
  /\ tx[s].user # None => /\ s \in Web /\ tx[s].pc \in {"cash", "next"} /\ tx[s].amount \in Amounts
                          /\ \A o \in OrderIds : orders[o].lock # s
  /\ tx[s].pc = "idle" => \A o \in OrderIds : orders[o].lock # s
  /\ s \in Web =>
       /\ \A o, p \in OrderIds : orders[o].lock = s /\ orders[p].lock = s => o = p
       /\ \A o \in OrderIds : orders[o].lock = s => Placed(s, o)
  /\ s \in Matchers =>
       /\ \A o \in OrderIds : orders[o].lock = s => Matched(s, o)
       /\ \A o \in tx[s].todo : Found(s, o)
       /\ tx[s].pc \in {"idle", "cursor"} => tx[s].todo = {}
  /\ s \in Expirers => \A o \in OrderIds : orders[o].lock = s => Expired(o)

Deals == \A s \in Sessions : Deal(s)

LEMMA InitDeals == Init => Deals
<1> SUFFICES ASSUME Init PROVE Deals
  OBVIOUS
<1>1. \A s \in Sessions : tx[s] = Idle
  BY DEF Init
<1>2. \A o \in OrderIds : orders[o].lock = None /\ orders[o].old = NoOrder /\ orders[o].new = NoOrder
  BY FreshRows DEF Init
<1>3. ASSUME NEW s \in Sessions PROVE Deal(s)
  BY <1>1, <1>2, SessionAssumption DEF Deal, Idle
<1> QED BY <1>3 DEF Deals

\* What a row may become while a matcher has found it.
SameRequest(o) ==
  \/ orders'[o].old = orders[o].old
  \/ /\ orders'[o].old.status \in {"open", "cancelled"}
     /\ Asked(orders'[o].old) = Asked(orders[o].old)

LEMMA StillFound ==
  ASSUME NEW t, NEW o \in OrderIds, Found(t, o), SameRequest(o), tx'[t] = tx[t]
  PROVE  Found(t, o)'
<1>1. CASE orders'[o].old = orders[o].old
  BY <1>1 DEF Found
<1>2. CASE /\ orders'[o].old.status \in {"open", "cancelled"}
           /\ Asked(orders'[o].old) = Asked(orders[o].old)
  <2> PICK r : r = orders[o].old
    OBVIOUS
  <2> PICK q : q = orders'[o].old
    OBVIOUS
  <2>1. q.asset = r.asset /\ q.kind = r.kind /\ q.side = r.side /\ q.target_price = r.target_price
    BY <1>2 DEF Asked
  <2>2. Triggered(q, tx[t].price) = Triggered(r, tx[t].price)
    BY <2>1 DEF Triggered
  <2> QED BY <1>2, <2>1, <2>2 DEF Found
<1> QED BY <1>1, <1>2 DEF SameRequest

\* A step of s leaves the others what they have in hand.
LEMMA StepDeals ==
  ASSUME Coherent, Deals, NEW s \in Sessions, Steps(s), LeavesOthers(OrderIds, orders, orders', s),
         \A t \in Matchers \ {s} : \A o \in tx[t].todo : SameRequest(o),
         Deal(s)'
  PROVE  Deals'
<1> SUFFICES ASSUME NEW t \in Sessions \ {s} PROVE Deal(t)'
  BY DEF Deals
<1>1. Deal(t) /\ tx'[t] = tx[t] /\ tx[t] \in Transaction
  BY StepFacts DEF Deals, Steps, Coherent
<1>2. \A o \in OrderIds : /\ orders'[o].lock = t => orders[o].lock = t /\ orders'[o] = orders[o]
                          /\ orders[o].lock = t => orders'[o].lock = t
  BY DEF LeavesOthers
<1>3. ASSUME NEW o \in OrderIds, orders'[o].lock = t
      PROVE  /\ Placed(t, o) => Placed(t, o)'
             /\ Matched(t, o) => Matched(t, o)'
             /\ Expired(o) => Expired(o)'
  BY <1>1, <1>2, <1>3 DEF Placed, Matched, Found, Expired, Filling
<1>4. ASSUME t \in Matchers, NEW o \in tx'[t].todo PROVE Found(t, o)'
  <2>1. o \in OrderIds /\ o \in tx[t].todo /\ SameRequest(o) /\ Found(t, o)
    BY <1>1, <1>4 DEF Deal, Transaction
  <2> QED BY <1>1, <2>1, StillFound
<1>5. tx'[t].user # None => /\ t \in Web /\ tx'[t].pc \in {"cash", "next"} /\ tx'[t].amount \in Amounts
                            /\ \A o \in OrderIds : orders'[o].lock # t
  BY <1>1, <1>2 DEF Deal
<1>6. tx'[t].pc = "idle" => \A o \in OrderIds : orders'[o].lock # t
  BY <1>1, <1>2 DEF Deal
<1>7. ASSUME t \in Web, NEW o \in OrderIds, orders'[o].lock = t
      PROVE  Placed(t, o)' /\ \A p \in OrderIds : orders'[p].lock = t => p = o
  <2>1. Placed(t, o) /\ \A p \in OrderIds : orders[p].lock = t => p = o
    BY <1>1, <1>2, <1>7 DEF Deal
  <2> QED BY <1>2, <1>3, <1>7, <2>1
<1>8. ASSUME t \in Matchers, NEW o \in OrderIds, orders'[o].lock = t PROVE Matched(t, o)'
  <2>1. Matched(t, o)
    BY <1>1, <1>2, <1>8 DEF Deal
  <2> QED BY <1>3, <1>8, <2>1
<1>9. ASSUME t \in Expirers, NEW o \in OrderIds, orders'[o].lock = t PROVE Expired(o)'
  <2>1. Expired(o)
    BY <1>1, <1>2, <1>9 DEF Deal
  <2> QED BY <1>3, <1>9, <2>1
<1>10. t \in Matchers /\ tx'[t].pc \in {"idle", "cursor"} => tx'[t].todo = {}
  BY <1>1 DEF Deal
<1> QED BY <1>4, <1>5, <1>6, <1>7, <1>8, <1>9, <1>10 DEF Deal

-----------------------------------------------------------------------------
(* What wallets have in hand *)

\* The filled orders of u that are not committed yet, with what each is worth.
Settled(o)  == orders[o].new.status = "filled" /\ orders[o].old.status # "filled"
Proceeding(u) ==
  [o \in OrderIds |-> IF Settled(o) /\ orders[o].new.user = u THEN Worth(orders[o].new) ELSE 0]

\* A deposit or withdrawal that is not committed yet.
Moved(s) == tx[s].user # None /\ tx[s].pc = "next"
Deposit(u) ==
  LET s == wallet[u].lock IN
  IF s # None /\ Moved(s) /\ tx[s].user = u THEN tx[s].amount ELSE 0

Funded ==
  \A u \in Users :
    wallet[u].new.balance = wallet[u].old.balance + Total(Proceeding(u), MaxCalls) + Deposit(u)

LEMMA ProceedingTypes ==
  ASSUME Coherent, NEW u
  PROVE  Proceeding(u) \in [1 .. MaxCalls -> Int] /\ Total(Proceeding(u), MaxCalls) \in Int
<1>1. MaxCalls \in Nat /\ OrderIds = 1 .. MaxCalls
  BY BoundAssumption DEF OrderIds
<1>2. ASSUME NEW o \in OrderIds, Settled(o) PROVE Worth(orders[o].new) \in Int
  <2>1. orders[o].new \in Order
    BY <1>2 DEF Settled, Coherent, TypeOK, Row, NoOrder
  <2>2. orders[o].new.price \in Nat /\ orders[o].new.quantity \in Nat
    BY <2>1, InputAssumption DEF Order
  <2>3. Cost(orders[o].new) \in Nat
    BY <2>2, Products DEF Cost
  <2> QED BY <2>3 DEF Worth
<1>3. Proceeding(u) \in [1 .. MaxCalls -> Int]
  BY <1>1, <1>2 DEF Proceeding
<1> QED BY <1>1, <1>3, TotalTypes

ProceedingInts == \A u : Proceeding(u) \in [1 .. MaxCalls -> Int]

LEMMA ProceedingTypesNext == Coherent' => ProceedingInts'
<1>1. Coherent => ProceedingInts
  BY ProceedingTypes DEF ProceedingInts
<1> QED BY <1>1, PTL

LEMMA DepositTypes ==
  ASSUME Coherent, NEW u \in Users PROVE Deposit(u) \in Int
<1>1. wallet[u].lock # None => tx[wallet[u].lock].amount \in Int
  BY StepFacts DEF Coherent, TypeOK, Row, Transaction
<1> QED BY <1>1 DEF Deposit

\* A step that fills no order and moves no money.
LEMMA StillFunded ==
  ASSUME Funded, NEW s \in Sessions, Steps(s), ~Moved(s), ~Moved(s)',
         SameRows(Users, wallet, wallet'), LeavesOthers(Users, wallet, wallet', s),
         \A u \in Users : wallet[u].lock \in Sessions \cup {None} /\ wallet'[u].lock \in Sessions \cup {None},
         \A o \in OrderIds :
           \/ orders'[o].new = orders[o].new /\ orders'[o].old = orders[o].old
           \/ ~Settled(o) /\ ~Settled(o)'
  PROVE  Funded'
<1> SUFFICES ASSUME NEW u \in Users
             PROVE  wallet'[u].new.balance =
                      wallet'[u].old.balance + Total(Proceeding(u)', MaxCalls) + Deposit(u)'
  BY DEF Funded
<1>1. Proceeding(u)' = Proceeding(u)
  BY DEF Proceeding, Settled
<1>2. Deposit(u)' = Deposit(u)
  <2>1. CASE wallet[u].lock \in Sessions \ {s}
    <3>1. wallet'[u] = wallet[u] /\ tx'[wallet[u].lock] = tx[wallet[u].lock]
      BY <2>1 DEF LeavesOthers, Steps
    <3> QED BY <3>1 DEF Deposit, Moved
  <2>2. CASE wallet[u].lock \in {s, None}
    <3>1. wallet'[u].lock \in {s, None}
      BY <2>2, SessionAssumption DEF LeavesOthers
    <3> QED BY <2>2, <3>1 DEF Deposit, Moved
  <2> QED BY <2>1, <2>2
<1> QED BY <1>1, <1>2 DEF Funded, SameRows

-----------------------------------------------------------------------------
(* Who holds what, statement by statement *)

OneMatcher == \A m, n \in Matchers : m = n

\* Of the orders that have expired, matcher s keeps those it has in hand, and takes none.
KeepsHand(s) ==
  s \in Matchers =>
    \A o \in OrderIds :
      orders[o].old.status = "cancelled" =>
        (o \in tx'[s].todo \/ orders'[o].lock = s <=> o \in tx[s].todo \/ orders[o].lock = s)

\* What a step of s that is no end of a transaction leaves: everybody has in hand what
\* they should, and s has moved no money.
Dealt(s) == Steps(s) /\ Deals' /\ KeepsHand(s) /\ ~Moved(s) /\ ~Moved(s)'

\* A step of s that leaves the orders alone.
LEMMA SameDeals ==
  ASSUME Coherent, Deals, NEW s \in Sessions, Steps(s), UNCHANGED orders, Deal(s)'
  PROVE  Deals'
<1>1. LeavesOthers(OrderIds, orders, orders', s)
  BY OthersRows DEF Coherent, TypeOK
<1>2. \A t \in Matchers \ {s} : \A o \in tx[t].todo : SameRequest(o)
  BY DEF SameRequest
<1> QED BY <1>1, <1>2, StepDeals

\* Whoever is neither of the web, nor a matcher, nor an expiry is nobody.
LEMMA SessionRoles ==
  ASSUME NEW s \in Sessions
  PROVE  /\ s \in Web \/ s \in Matchers \/ s \in Expirers
         /\ s \in Web => s \notin Matchers /\ s \notin Expirers
         /\ s \in Matchers => s \notin Expirers
BY SessionAssumption DEF Sessions

\* The next statement of the same fill.
LEMMA FillGoesOn ==
  ASSUME Coherent, Deals, NEW s \in Sessions, Steps(s), UNCHANGED orders, Filling(s), Filling(s)',
         tx'[s].order = tx[s].order, tx'[s].user = tx[s].user, tx'[s].todo = tx[s].todo,
         tx'[s].asset = tx[s].asset, tx'[s].price = tx[s].price
  PROVE  Dealt(s)
<1>1. Deal(s) /\ tx[s].pc \in {"check", "portfolio", "wallet"} /\ tx'[s].pc \in {"check", "portfolio", "wallet"}
  BY DEF Deals, Filling
<1>2. tx[s].user = None
  BY <1>1 DEF Deal
<1>3. ASSUME NEW o \in OrderIds
      PROVE  /\ Placed(s, o) => Placed(s, o)'
             /\ Matched(s, o) => Matched(s, o)'
             /\ Expired(o) => Expired(o)'
             /\ Found(s, o) => Found(s, o)'
  BY <1>1 DEF Placed, Matched, Found, Expired, Filling
<1>4. tx[s].todo \subseteq OrderIds
  BY StepFacts DEF Coherent, Transaction
<1>5. Deal(s)'
  BY <1>1, <1>2, <1>3, <1>4 DEF Deal
<1>6. KeepsHand(s)
  BY DEF KeepsHand
<1> QED BY <1>1, <1>2, <1>5, <1>6, SameDeals DEF Dealt, Moved

LEMMA ExecuteDeals ==
  ASSUME Covered, Once, Deals, NEW s \in Sessions,
         CheckFunds(s) \/ CheckHolding(s) \/ WaitForHolding(s) \/ UpdatePortfolio(s), ~Rollback(s)
  PROVE  Dealt(s)
<1> USE DEF Covered
<1>1. tx \in [Sessions -> Transaction] /\ tx[s] \in Transaction /\ ~Raise(s)
  BY StepFacts DEF Coherent, TypeOK, Raise
<1>2. UNCHANGED orders /\ Filling(s)
  BY <1>1 DEF CheckFunds, CheckHolding, WaitForHolding, UpdatePortfolio, rows, Filling
<1> DEFINE SameFill(t) ==
             /\ t.pc \in {"check", "portfolio", "wallet"} /\ t.order = tx[s].order
             /\ t.user = tx[s].user /\ t.todo = tx[s].todo
             /\ t.asset = tx[s].asset /\ t.price = tx[s].price
<1>3. PICK t : tx' = [tx EXCEPT ![s] = t] /\ SameFill(t)
  <2>1. CASE CheckFunds(s)
    <3> DEFINE t == [tx[s] EXCEPT !.pc = "portfolio"]
    <3>1. tx' = [tx EXCEPT ![s] = t]
      BY <1>1, <2>1 DEF CheckFunds
    <3>2. SameFill(t)
      BY <1>1, <1>2, <2>1 DEF Transaction, Filling
    <3> HIDE DEF t, SameFill
    <3> QED BY <3>1, <3>2
  <2>2. CASE CheckHolding(s)
    <3> DEFINE t == [tx[s] EXCEPT !.pc = "portfolio", !.seen = None]
    <3>1. tx' = [tx EXCEPT ![s] = t]
      BY <1>1, <2>2 DEF CheckHolding
    <3>2. SameFill(t)
      BY <1>1, <1>2, <2>2 DEF Transaction, Filling
    <3> HIDE DEF t, SameFill
    <3> QED BY <3>1, <3>2
  <2>3. CASE WaitForHolding(s)
    <3> DEFINE t == [tx[s] EXCEPT !.seen = Version(holding[Key(s)].old)]
    <3>1. tx' = [tx EXCEPT ![s] = t]
      BY <1>1, <2>3 DEF WaitForHolding
    <3>2. SameFill(t)
      BY <1>1, <1>2, <2>3 DEF Transaction, Filling
    <3> HIDE DEF t, SameFill
    <3> QED BY <3>1, <3>2
  <2>4. CASE UpdatePortfolio(s)
    <3>1. PICK p : tx' = [tx EXCEPT ![s] = [tx[s] EXCEPT !.pc = "wallet", !.seen = None, !.profit = p]]
      BY <1>1, <2>4 DEF UpdatePortfolio
    <3> DEFINE t == [tx[s] EXCEPT !.pc = "wallet", !.seen = None, !.profit = p]
    <3>2. SameFill(t)
      BY <1>1 DEF Transaction
    <3> HIDE DEF SameFill
    <3> QED BY <3>1, <3>2
  <2> QED BY <2>1, <2>2, <2>3, <2>4
<1>4. Steps(s) /\ tx'[s] = t
  BY <1>1, <1>3 DEF Steps
<1>5. Filling(s)'
  BY <1>3, <1>4 DEF Filling
<1> QED BY <1>2, <1>3, <1>4, <1>5, FillGoesOn

\* A transaction that begins has no order in hand yet.
LEMMA BeginDeals ==
  ASSUME Coherent, Deals, NEW s \in Sessions, tx[s].pc = "idle", UNCHANGED orders,
         NEW t, Begin(s, t), t.pc \in {"cash", "cursor", "next"},
         \/ t.user = None
         \/ s \in Web /\ t.pc = "cash" /\ t.amount \in Amounts,
         s \in Matchers => t.todo = {}
  PROVE  Dealt(s)
<1>1. tx'[s] = t /\ Steps(s)
  BY DEF Begin, Steps, Coherent, TypeOK
<1>2. tx[s].user = None /\ \A o \in OrderIds : orders'[o].lock # s
  BY DEF Deals, Deal
<1>3. Deal(s)'
  BY <1>1, <1>2, SessionRoles DEF Deal
<1>4. KeepsHand(s)
  BY <1>1 DEF KeepsHand, Deals, Deal
<1> QED BY <1>1, <1>2, <1>3, <1>4, SameDeals DEF Dealt, Moved

LEMMA StartDeals ==
  ASSUME Coherent, Deals, NEW s \in Sessions,
         \/ s \in Web /\ \E u \in Users, amount \in Amounts : RequestCash(s, u, amount)
         \/ s \in Matchers /\ \E a \in Assets : ReadPrice(s, a)
         \/ s \in Expirers /\ FindStale(s)
  PROVE  Dealt(s)
<1>1. CASE s \in Web /\ \E u \in Users, amount \in Amounts : RequestCash(s, u, amount)
  <2>1. PICK u \in Users, amount \in Amounts : RequestCash(s, u, amount)
    BY <1>1
  <2> DEFINE t == [Idle EXCEPT !.pc = "cash", !.start = now, !.user = u, !.amount = amount]
  <2>2. t.pc = "cash" /\ t.amount \in Amounts
    BY DEF Idle
  <2>3. tx[s].pc = "idle" /\ UNCHANGED orders /\ Begin(s, t)
    BY <2>1 DEF RequestCash, rows
  <2> HIDE DEF t
  <2> QED BY <1>1, <2>2, <2>3, BeginDeals, SessionRoles
<1>2. CASE s \in Matchers /\ \E a \in Assets : ReadPrice(s, a)
  <2>1. PICK a \in Assets : ReadPrice(s, a)
    BY <1>2
  <2> DEFINE t == [Idle EXCEPT !.pc = IF cache[a] = None THEN "next" ELSE "cursor",
                               !.start = now, !.asset = a, !.price = cache[a]]
  <2>2. t.pc \in {"cursor", "next"} /\ t.user = None /\ t.todo = {}
    BY DEF Idle
  <2>3. tx[s].pc = "idle" /\ UNCHANGED orders /\ Begin(s, t)
    BY <2>1 DEF ReadPrice, rows
  <2> HIDE DEF t
  <2> QED BY <2>2, <2>3, BeginDeals
<1>3. CASE s \in Expirers /\ FindStale(s)
  <2> DEFINE t == [Idle EXCEPT !.pc = "next", !.start = now,
                               !.todo = {o \in OrderIds : Stale(orders[o].old, now)}]
  <2>1. t.pc = "next" /\ t.user = None
    BY DEF Idle
  <2>2. tx[s].pc = "idle" /\ UNCHANGED orders /\ Begin(s, t)
    BY <1>3 DEF FindStale, rows
  <2> HIDE DEF t
  <2> QED BY <1>3, <2>1, <2>2, BeginDeals, SessionRoles
<1> QED BY <1>1, <1>2, <1>3

\* Only users of the web have their money moved, by transactions without an order.
LEMMA CashDeals ==
  ASSUME Coherent, Deals, NEW s \in Sessions, MoveCash(s), ~Rollback(s)
  PROVE  /\ Steps(s) /\ Deals' /\ KeepsHand(s)
         /\ tx[s].user \in Users /\ s \in Web /\ tx[s].amount \in Amounts
<1>1. /\ tx[s].pc = "cash" /\ tx[s].user \in Users /\ tx[s].amount \in Amounts
      /\ tx \in [Sessions -> Transaction] /\ tx[s] \in Transaction
  BY StepFacts DEF MoveCash, Coherent, TxCoherent, Ready, TypeOK
<1>2. tx' = [tx EXCEPT ![s] = [tx[s] EXCEPT !.pc = "next"]] /\ UNCHANGED orders
  BY <1>1 DEF MoveCash, Raise
<1>3. /\ tx'[s].pc = "next" /\ tx'[s].user = tx[s].user /\ tx'[s].amount = tx[s].amount
      /\ Steps(s)
  BY <1>1, <1>2 DEF Steps, Transaction
<1>4. s \in Web /\ \A o \in OrderIds : orders'[o].lock # s
  BY <1>1, <1>2, SessionAssumption DEF Deals, Deal
<1>5. Deal(s)'
  BY <1>1, <1>3, <1>4, SessionRoles DEF Deal
<1>6. KeepsHand(s)
  BY <1>4, SessionRoles DEF KeepsHand
<1> QED BY <1>1, <1>2, <1>3, <1>4, <1>5, <1>6, SameDeals

LEMMA CursorDeals ==
  ASSUME Coherent, Once, Deals, NEW s \in Sessions, OpenCursor(s)
  PROVE  Dealt(s)
<1> DEFINE found == {o \in OrderIds : Matchable(orders[o].old, tx[s].asset, tx[s].start, tx[s].price)}
<1>1. tx \in [Sessions -> Transaction] /\ tx[s] \in Transaction /\ TxOnce(s) /\ Deal(s)
  BY StepFacts DEF Coherent, TypeOK, Once, Deals
<1>2. /\ tx[s].pc = "cursor" /\ UNCHANGED orders
      /\ tx' = [tx EXCEPT ![s] = [tx[s] EXCEPT !.pc = "next", !.todo = found]]
  BY <1>1 DEF OpenCursor, rows
<1> HIDE DEF found
<1>3. /\ tx'[s].pc = "next" /\ tx'[s].user = tx[s].user /\ tx'[s].todo = found
      /\ tx'[s].asset = tx[s].asset /\ tx'[s].price = tx[s].price /\ Steps(s)
  BY <1>1, <1>2 DEF Steps, Transaction
<1>4. tx[s].user = None /\ s \notin Expirers
  BY <1>1, <1>2 DEF Deal, TxOnce
<1>5. ASSUME NEW o \in OrderIds PROVE orders'[o].lock # s
  <2>1. s \in Web => ~Placed(s, o)
    BY <1>2 DEF Placed, Filling
  <2> QED BY <1>1, <1>2, <1>4, <2>1, SessionRoles DEF Deal, TxOnce
<1>6. ASSUME NEW o \in found PROVE Found(s, o)'
  BY <1>2, <1>3, <1>6 DEF found, Found, Matchable, Live
<1>7. Deal(s)'
  BY <1>1, <1>3, <1>4, <1>5, <1>6 DEF Deal
<1>8. KeepsHand(s)
  <2>1. s \in Matchers => tx[s].todo = {}
    BY <1>1, <1>2 DEF Deal
  <2>2. \A o \in found : orders[o].old.status = "open"
    BY DEF found, Matchable, Live
  <2> QED BY <1>2, <1>3, <2>1, <2>2 DEF KeepsHand
<1> QED BY <1>1, <1>2, <1>3, <1>4, <1>7, <1>8, SameDeals DEF Dealt, Moved

\* A step of s that writes v to order n.
LEMMA WriteDeals ==
  ASSUME Coherent, Deals, NEW s \in Sessions, Steps(s),
         NEW n \in OrderIds, NEW v \in Order, Free(orders[n], s), orders' = Write(orders, n, s, v),
         Deal(s)'
  PROVE  Deals'
<1>1. orders \in [OrderIds -> Row(Order \cup {NoOrder})]
  BY DEF Coherent, TypeOK
<1>2. \A o \in OrderIds : orders'[o].old = orders[o].old /\ orders'[o].new = IF o = n THEN v ELSE orders[o].new
  BY <1>1, WrittenRows
<1>3. LeavesOthers(OrderIds, orders, orders', s)
  BY <1>1, OthersRows
<1>4. \A t \in Matchers \ {s} : \A o \in tx[t].todo : SameRequest(o)
  <2>1. \A t \in Matchers : tx[t].todo \subseteq OrderIds
    BY StepFacts DEF Coherent, Transaction, Sessions
  <2> QED BY <1>2, <2>1 DEF SameRequest
<1> QED BY <1>3, <1>4, StepDeals

LEMMA PlaceDeals ==
  ASSUME Coherent, Deals, NEW s \in Web, NEW u \in Users, NEW a \in Assets, NEW side \in Sides,
         NEW kind \in Kinds, NEW q \in Quantities, NEW target \in Targets \cup {None},
         NEW expiry \in Expiries \cup {None}, PlaceOrder(s, u, a, side, kind, q, target, expiry)
  PROVE  Dealt(s)
<1>14. PICK n : n = calls + 1
  OBVIOUS
<1> DEFINE v == [status |-> "open", user |-> u, asset |-> a, side |-> side, kind |-> kind,
                 quantity |-> q, price |-> IF target = None THEN cache[a] ELSE target,
                 target_price |-> target, expires_at |-> expiry, created_at |-> now,
                 trades |-> << >>]
           t == IF kind = "market" THEN [Idle EXCEPT !.pc = "check", !.start = now, !.order = n]
                                   ELSE [Idle EXCEPT !.pc = "next", !.start = now]
<1>0. s \in Sessions
  BY DEF Sessions
<1>1. tx'[s] = t /\ Steps(s) /\ tx[s].pc = "idle" /\ orders' = Write(orders, n, s, v)
  BY <1>0, <1>14 DEF PlaceOrder, Begin, Steps, Coherent, TypeOK
<1>2. /\ t.user = None /\ t.todo = {}
      /\ IF kind = "market" THEN t.pc = "check" /\ t.order = n ELSE t.pc = "next"
  BY DEF Idle
<1>3. n \in OrderIds /\ orders[n] = Fresh(NoOrder)
  <2>1. calls \in Nat /\ n \in OrderIds /\ n > calls
    BY <1>14, StepFacts, BoundAssumption DEF PlaceOrder, Coherent, TypeOK, OrderIds
  <2> QED BY <2>1 DEF Coherent, RowsCoherent
<1>4. cache[a] \in Prices /\ (kind = "market" <=> target = None) /\ now \in Nat
  BY StepFacts DEF PlaceOrder, Coherent, TypeOK
<1>5. v \in Order
  <2>1. Prices \subseteq Nat \ {0} /\ Targets \subseteq Nat \ {0}
    BY InputAssumption
  <2>2. (IF target = None THEN cache[a] ELSE target) \in Nat \ {0}
    BY <1>4, <2>1
  <2> QED BY <1>4, <2>2 DEF Order
<1>6. /\ v.status = "open" /\ v.kind = kind /\ (kind = "market" => v.price \in Prices)
  BY <1>4
<1>7. Free(orders[n], s) /\ Deal(s)
  BY <1>0, <1>3, FreshRows DEF Free, Deals
<1> HIDE DEF v, t
<1>8. \A o \in OrderIds : /\ orders'[o].lock = IF o = n THEN s ELSE orders[o].lock
                          /\ orders'[o].new = IF o = n THEN v ELSE orders[o].new
  BY <1>0, <1>1, <1>3, <1>5, WrittenRows DEF Coherent, TypeOK
<1>9. \A o \in OrderIds : orders'[o].lock = s => o = n
  BY <1>1, <1>7, <1>8 DEF Deal
<1>10. Placed(s, n)'
  <2>1. orders'[n].new = v
    BY <1>3, <1>8
  <2>2. CASE kind = "market"
    BY <1>1, <1>2, <1>6, <2>1, <2>2 DEF Placed, Filling
  <2>3. CASE kind # "market"
    BY <1>1, <1>2, <1>6, <2>1, <2>3 DEF Placed
  <2> QED BY <2>2, <2>3
<1>11. Deal(s)'
  <2>1. s \notin Matchers /\ s \notin Expirers
    BY <1>0, SessionRoles
  <2>2. tx'[s].user = None /\ tx'[s].pc # "idle"
    BY <1>1, <1>2
  <2> QED BY <1>9, <1>10, <2>1, <2>2 DEF Deal
<1>12. Deals'
  BY <1>0, <1>1, <1>3, <1>5, <1>6, <1>7, <1>11, WriteDeals
<1>13. tx[s].user = None /\ KeepsHand(s)
  BY <1>0, <1>1, <1>7, SessionRoles DEF Deal, KeepsHand
<1> QED BY <1>1, <1>2, <1>12, <1>13 DEF Dealt, Moved

LEMMA TakeUpDeals ==
  ASSUME Coherent, Once, Deals, NEW s \in Sessions, NextOrder(s)
  PROVE  Dealt(s)
<1>1. PICK n \in tx[s].todo :
        /\ s \in Matchers /\ tx[s].pc = "next" /\ Free(orders[n], s)
        /\ orders' = Write(orders, n, s, [orders[n].new EXCEPT !.price = tx[s].price])
        /\ tx' = [tx EXCEPT ![s].pc = "check", ![s].order = n, ![s].todo = @ \ {n}]
  BY DEF NextOrder
<1> DEFINE v == [orders[n].new EXCEPT !.price = tx[s].price]
<1>2. /\ tx \in [Sessions -> Transaction] /\ tx[s] \in Transaction /\ TxOnce(s) /\ Ready(s) /\ Deal(s)
  BY StepFacts DEF Coherent, TypeOK, TxCoherent, Once, Deals
<1>3. n \in OrderIds /\ Untraded(n) /\ tx[s].price \in Nat \ {0} /\ tx[s].price # None /\ Found(s, n)
  BY <1>1, <1>2, InputAssumption DEF Transaction, TxOnce, Ready, Deal
<1>4. orders[n].new \in Order
  BY <1>1, <1>2, <1>3 DEF Ready, Coherent, RowsCoherent, TypeOK, Row
<1>5. v \in Order /\ v.status = orders[n].new.status /\ Asked(v) = Asked(orders[n].new) /\ v.price = tx[s].price
  BY <1>3, <1>4 DEF Order, Asked
<1>6. tx[s].user = None
  BY <1>1, <1>2, SessionRoles DEF Deal
<1>7. orders[n].lock # s
  <2>1. orders[n].new.status # "filled"
    BY <1>3 DEF Once, RowOnce, Untraded
  <2>2. ~Matched(s, n)
    BY <1>1, <2>1 DEF Matched, Filling
  <2> QED BY <1>1, <1>2, <1>3, <2>2 DEF Deal
<1>8. orders[n].new = orders[n].old
  BY <1>1, <1>3, <1>7 DEF Free, Coherent, RowsCoherent
<1>9. /\ tx'[s].pc = "check" /\ tx'[s].order = n /\ tx'[s].todo = tx[s].todo \ {n} /\ Steps(s)
      /\ tx'[s].user = tx[s].user /\ tx'[s].asset = tx[s].asset /\ tx'[s].price = tx[s].price
  BY <1>1, <1>2 DEF Steps, Transaction
<1> HIDE DEF v
<1>10. \A o \in OrderIds : /\ orders'[o].lock = IF o = n THEN s ELSE orders[o].lock
                           /\ orders'[o].new = IF o = n THEN v ELSE orders[o].new
                           /\ orders'[o].old = orders[o].old
  BY <1>1, <1>3, <1>5, WrittenRows DEF Coherent, TypeOK, v
<1>11. \A o \in OrderIds : Found(s, o) => Found(s, o)'
  BY <1>9, <1>10 DEF Found
<1>12. ASSUME NEW o \in OrderIds, orders'[o].lock = s PROVE Matched(s, o)'
  <2>1. CASE o = n
    BY <1>3, <1>5, <1>8, <1>9, <1>10, <1>11, <2>1 DEF Matched, Filling, Found
  <2>2. CASE o # n
    <3>1. Matched(s, o)
      BY <1>1, <1>2, <1>10, <1>12, <2>2 DEF Deal
    <3> QED BY <1>1, <1>9, <1>10, <1>11, <2>2, <3>1 DEF Matched, Filling
  <2> QED BY <2>1, <2>2
<1>13. ASSUME NEW o \in tx'[s].todo PROVE Found(s, o)'
  <2>1. o \in OrderIds /\ Found(s, o)
    BY <1>1, <1>2, <1>9 DEF Deal, Transaction
  <2> QED BY <1>11, <2>1
<1>14. Deal(s)'
  BY <1>1, <1>6, <1>9, <1>12, <1>13, SessionRoles DEF Deal
<1>15. orders' = Write(orders, n, s, v)
  BY <1>1 DEF v
<1>16. Deals'
  BY <1>1, <1>3, <1>5, <1>9, <1>14, <1>15, WriteDeals
<1>17. KeepsHand(s)
  BY <1>1, <1>7, <1>9, <1>10 DEF KeepsHand
<1> QED BY <1>6, <1>9, <1>16, <1>17 DEF Dealt, Moved

LEMMA ExpireDeals ==
  ASSUME Coherent, Deals, NEW s \in Sessions, ExpireOne(s)
  PROVE  Dealt(s)
<1>1. PICK n \in tx[s].todo :
        /\ s \in Expirers /\ tx[s].pc = "next" /\ Free(orders[n], s)
        /\ orders' = IF Stale(orders[n].new, tx[s].start)
                     THEN Write(orders, n, s, [orders[n].new EXCEPT !.status = "cancelled"])
                     ELSE orders
        /\ tx' = [tx EXCEPT ![s].todo = @ \ {n}]
  BY DEF ExpireOne
<1> DEFINE v == [orders[n].new EXCEPT !.status = "cancelled"]
<1>2. tx \in [Sessions -> Transaction] /\ tx[s] \in Transaction /\ Ready(s) /\ Deal(s) /\ n \in OrderIds
  BY <1>1, StepFacts DEF Coherent, TypeOK, TxCoherent, Deals, Transaction
<1>3. orders[n].new \in Order /\ orders[n].old # NoOrder
  BY <1>1, <1>2 DEF Ready, Coherent, RowsCoherent, TypeOK, Row
<1>4. v \in Order /\ v.status = "cancelled" /\ Asked(v) = Asked(orders[n].new)
  BY <1>3 DEF Order, Asked
<1>5. tx'[s].pc = "next" /\ tx'[s].user = tx[s].user /\ Steps(s)
  BY <1>1, <1>2 DEF Steps, Transaction
<1>6. tx[s].user = None /\ KeepsHand(s)
  BY <1>1, <1>2, SessionRoles DEF Deal, KeepsHand
<1> HIDE DEF v
<1>7. CASE ~Stale(orders[n].new, tx[s].start)
  <2>1. UNCHANGED orders
    BY <1>1, <1>7
  <2>2. \A o \in OrderIds : Expired(o) => Expired(o)'
    BY <2>1 DEF Expired
  <2>3. Deal(s)'
    BY <1>1, <1>2, <1>5, <1>6, <2>1, <2>2, SessionRoles DEF Deal
  <2> QED BY <1>5, <1>6, <2>1, <2>3, SameDeals DEF Dealt, Moved
<1>8. CASE Stale(orders[n].new, tx[s].start)
  <2>1. orders' = Write(orders, n, s, v)
    BY <1>1, <1>8 DEF v
  <2>2. orders[n].new.status = "open"
    BY <1>8 DEF Stale
  <2>3. orders[n].new = orders[n].old
    <3>1. orders[n].lock # s
      BY <1>1, <1>2, <2>2 DEF Deal, Expired
    <3> QED BY <1>1, <1>2, <3>1 DEF Free, Coherent, RowsCoherent
  <2>4. \A o \in OrderIds : /\ orders'[o].lock = IF o = n THEN s ELSE orders[o].lock
                            /\ orders'[o].new = IF o = n THEN v ELSE orders[o].new
                            /\ orders'[o].old = orders[o].old
    BY <1>2, <1>4, <2>1, WrittenRows DEF Coherent, TypeOK
  <2>5. ASSUME NEW o \in OrderIds, orders'[o].lock = s PROVE Expired(o)'
    <3>1. CASE o = n
      BY <1>2, <1>4, <2>2, <2>3, <2>4, <3>1 DEF Expired
    <3>2. CASE o # n
      BY <1>1, <1>2, <2>4, <2>5, <3>2 DEF Deal, Expired
    <3> QED BY <3>1, <3>2
  <2>6. Deal(s)'
    BY <1>1, <1>5, <1>6, <2>5, SessionRoles DEF Deal
  <2>7. Deals'
    BY <1>1, <1>2, <1>4, <1>5, <2>1, <2>6, WriteDeals
  <2> QED BY <1>5, <1>6, <2>7 DEF Dealt, Moved
<1> QED BY <1>7, <1>8

\* What the row of a filled order shows.
LEMMA RowFilled ==
  ASSUME NEW o \in Order, Len(o.trades) = 0, NEW trade
  PROVE  LET v == [o EXCEPT !.status = "filled", !.trades = Append(@, trade)] IN
         /\ v.status = "filled" /\ v.trades[1] = trade /\ v.price = o.price /\ v.kind = o.kind
         /\ v.user = o.user /\ Asked(v) = Asked(o) /\ Worth(v) = Worth(o)
<1> DEFINE v == [o EXCEPT !.status = "filled", !.trades = Append(@, trade)]
<1>1. /\ v.status = "filled" /\ v.trades = Append(o.trades, trade)
      /\ v.price = o.price /\ v.kind = o.kind /\ v.user = o.user /\ v.side = o.side
      /\ v.quantity = o.quantity /\ Asked(v) = Asked(o)
  BY DEF Order, Asked
<1>2. o.trades \in Seq(Trade)
  BY DEF Order
<1>3. Append(o.trades, trade)[1] = trade
  BY <1>2
<1> HIDE DEF v
<1>4. Worth(v) = Worth(o)
  BY <1>1 DEF Worth, Cost
<1>5. /\ v.status = "filled" /\ v.trades[1] = trade /\ v.price = o.price /\ v.kind = o.kind
      /\ v.user = o.user /\ Asked(v) = Asked(o) /\ Worth(v) = Worth(o)
  BY <1>1, <1>3, <1>4
<1> QED BY <1>5 DEF v

LEMMA FillDeals ==
  ASSUME Coherent, Once, Deals, NEW s \in Sessions, UpdateWallet(s), ~Rollback(s)
  PROVE  Dealt(s)
<1> PICK n : n = tx[s].order
  OBVIOUS
<1> DEFINE o == orders[n].new
           b == wallet[o.user].new.balance + Proceeds(o)
           w == [balance |-> b, audit |-> Audited(wallet[o.user].new, b, tx[s].start)]
           trade == [price |-> o.price, profit |-> tx[s].profit, booked |-> ProfitBooked(s)]
           v == [o EXCEPT !.status = "filled", !.trades = Append(@, trade)]
<1>1. /\ tx[s].pc = "wallet" /\ n \in OrderIds /\ orders[n].lock = s /\ o \in Order
      /\ Len(o.trades) = 0 /\ v \in Order /\ orders' = Write(orders, n, s, v)
      /\ tx'[s] = [tx[s] EXCEPT !.pc = "next", !.order = None, !.profit = 0]
  BY FillEnds
<1>2. /\ tx \in [Sessions -> Transaction] /\ tx[s] \in Transaction /\ TxOnce(s) /\ Deal(s)
  BY StepFacts DEF Coherent, TypeOK, Once, Deals
<1>3. Steps(s)
  BY <1>2 DEF UpdateWallet, Raise, Steps
<1>4. /\ v.status = "filled" /\ v.trades[1].price = v.price /\ v.price = o.price /\ v.kind = o.kind
      /\ Asked(v) = Asked(o)
  <2>1. trade.price = o.price
    OBVIOUS
  <2>2. o \in Order /\ Len(o.trades) = 0
    BY <1>1
  <2> HIDE DEF trade, o
  <2>3. /\ v.status = "filled" /\ v.trades[1] = trade /\ v.price = o.price /\ v.kind = o.kind
        /\ Asked(v) = Asked(o)
    BY <2>2, RowFilled
  <2> HIDE DEF v
  <2> QED BY <2>1, <2>3
<1> HIDE DEF v, b, w, trade
<1>5. /\ tx'[s].pc = "next" /\ tx'[s].user = tx[s].user /\ tx'[s].todo = tx[s].todo
      /\ tx'[s].asset = tx[s].asset /\ tx'[s].price = tx[s].price
  BY <1>1, <1>2 DEF Transaction
<1>6. tx[s].user = None /\ s \notin Expirers
  BY <1>1, <1>2 DEF Deal, TxOnce
<1>7. \A p \in OrderIds : /\ orders'[p].lock = orders[p].lock /\ orders'[p].old = orders[p].old
                          /\ orders'[p].new = IF p = n THEN v ELSE orders[p].new
  BY <1>1, WrittenRows DEF Coherent, TypeOK
<1>8. ASSUME s \in Web
      PROVE  \A p \in OrderIds : orders'[p].lock = s => p = n /\ Placed(s, p)'
  <2>1. \A p \in OrderIds : orders[p].lock = s => p = n
    BY <1>1, <1>2, <1>8 DEF Deal
  <2>2. Placed(s, n)
    BY <1>1, <1>2, <1>8 DEF Deal
  <2>3. o.kind = "market" /\ o.price \in Prices
    BY <1>1, <2>2 DEF Placed
  <2>4. orders'[n].new = v
    BY <1>1, <1>7
  <2>5. Placed(s, n)'
    BY <1>4, <1>5, <2>3, <2>4 DEF Placed
  <2> QED BY <1>7, <2>1, <2>5
<1>9. \A p \in OrderIds : Found(s, p) => Found(s, p)'
  BY <1>5, <1>7 DEF Found
<1>10. ASSUME s \in Matchers, NEW p \in OrderIds, orders'[p].lock = s PROVE Matched(s, p)'
  <2>1. Matched(s, p)
    BY <1>2, <1>7, <1>10 DEF Deal
  <2>2. CASE p = n
    <3>1. orders'[p].new = v
      BY <1>7, <2>2
    <3> QED BY <1>4, <1>5, <1>7, <1>9, <2>1, <2>2, <3>1 DEF Matched
  <2>3. CASE p # n
    BY <1>1, <1>5, <1>7, <1>9, <2>1, <2>3 DEF Matched, Filling
  <2> QED BY <2>2, <2>3
<1>11. ASSUME s \in Matchers, NEW p \in tx'[s].todo PROVE Found(s, p)'
  BY <1>2, <1>5, <1>9, <1>11 DEF Deal, Transaction
<1>12. Deal(s)'
  <2>1. tx'[s].user = None /\ tx'[s].pc \notin {"idle", "cursor"}
    BY <1>5, <1>6
  <2> QED BY <1>6, <1>8, <1>10, <1>11, <2>1 DEF Deal
<1>13. Deals'
  BY <1>1, <1>3, <1>4, <1>12, WriteDeals DEF Free
<1>14. KeepsHand(s)
  BY <1>5, <1>7 DEF KeepsHand
<1> QED BY <1>3, <1>5, <1>6, <1>13, <1>14 DEF Dealt, Moved

\* A transaction that has ended has nothing in hand.
LEMMA EndDeals ==
  ASSUME OneMatcher, Coherent, Once, Deals, NEW s \in Sessions, Commit(s) \/ Rollback(s)
  PROVE  Steps(s) /\ Deals'
<1>1. /\ tx \in [Sessions -> Transaction] /\ tx'[s] = Idle /\ Steps(s)
      /\ orders \in [OrderIds -> Row(Order \cup {NoOrder})]
      /\ orders' = Keep(orders, s) \/ orders' = Undo(orders, s)
  BY DEF Coherent, TypeOK, Commit, Rollback, Steps
<1>2. ASSUME NEW o \in OrderIds
      PROVE  \/ orders'[o] = orders[o] /\ orders[o].lock # s
             \/ /\ orders[o].lock = s /\ orders'[o].lock = None /\ orders'[o].new = orders'[o].old
                /\ orders'[o].new \in {orders[o].new, orders[o].old}
  BY <1>1, EndedRows, FreshRows
<1>3. LeavesOthers(OrderIds, orders, orders', s)
  BY <1>1, OthersRows
<1>4. Deal(s)'
  BY <1>1, <1>2, SessionAssumption DEF Deal, Idle
<1>5. ASSUME NEW t \in Matchers \ {s}, NEW o \in tx[t].todo PROVE SameRequest(o)
  <2>1. t \in Sessions /\ Deal(t) /\ Deal(s)
    BY DEF Sessions, Deals
  <2>2. o \in OrderIds /\ Found(t, o)
    BY <2>1, StepFacts DEF Coherent, Transaction, Deal
  <2>3. CASE orders[o].lock = s
    <3>1. s \notin Web
      BY <2>2, <2>3 DEF Once, RowOnce, Found, NoOrder
    <3>2. s \notin Matchers
      BY DEF OneMatcher
    <3>3. Expired(o)
      BY <2>1, <2>2, <2>3, <3>1, <3>2, SessionRoles DEF Deal
    <3> QED BY <1>2, <2>2, <2>3, <3>3 DEF Expired, SameRequest
  <2> QED BY <1>2, <2>2, <2>3 DEF SameRequest
<1>6. Deals'
  BY <1>1, <1>3, <1>4, <1>5, StepDeals
<1> QED BY <1>1, <1>6

\* Every step leaves everybody with what they should have in hand, and a statement that
\* changes no balance moves no money.
LEMMA StatementDeals ==
  ASSUME OneMatcher, Covered, Once, Deals, [Next]_vars
  PROVE  \/ UNCHANGED <<rows, tx>>
         \/ \E s \in Sessions :
              /\ Steps(s) /\ Deals'
              /\ KeepsHand(s) \/ Commit(s) \/ Rollback(s)
              /\ \/ (Rest(s) \/ Rewrites(s)) /\ ~Moved(s) /\ ~Moved(s)'
                 \/ Commit(s) \/ Rollback(s) \/ MoveCash(s)
                 \/ UpdatePortfolio(s) \/ UpdateWallet(s)
<1> USE DEF Covered
<1> DEFINE Q(s) == \/ (Rest(s) \/ Rewrites(s)) /\ ~Moved(s) /\ ~Moved(s)'
                   \/ Commit(s) \/ Rollback(s) \/ MoveCash(s)
                   \/ UpdatePortfolio(s) \/ UpdateWallet(s)
           P(s) == Steps(s) /\ Deals' /\ (KeepsHand(s) \/ Commit(s) \/ Rollback(s)) /\ Q(s)
<1>1. ASSUME NEW s \in Sessions, Commit(s) \/ Rollback(s) PROVE P(s)
  BY <1>1, EndDeals
<1>2. ASSUME NEW s \in Sessions, Dealt(s), Rest(s) \/ Rewrites(s) PROVE P(s)
  BY <1>2 DEF Dealt
<1>3. ASSUME NEW s \in Web, Request(s) PROVE \E t \in Sessions : P(t)
  <2>1. s \in Sessions
    BY DEF Sessions
  <2>2. ASSUME NEW u \in Users, NEW amount \in Amounts, RequestCash(s, u, amount) PROVE P(s)
    <3> DEFINE t == [Idle EXCEPT !.pc = "cash", !.start = now, !.user = u, !.amount = amount]
    <3>1. t.pc = "cash"
      BY DEF Idle
    <3>2. tx[s].pc = "idle" /\ UNCHANGED rows /\ Begin(s, t)
      BY <2>2 DEF RequestCash
    <3> HIDE DEF t
    <3>3. Rest(s)
      BY <2>1, <3>1, <3>2, BeginsRest
    <3>4. Dealt(s)
      BY <2>1, <2>2, StartDeals
    <3> QED BY <1>2, <2>1, <3>3, <3>4
  <2>3. ASSUME NEW u \in Users, NEW a \in Assets, NEW side \in Sides,
               NEW kind \in Kinds, NEW q \in Quantities, NEW target \in Targets \cup {None},
               NEW expiry \in Expiries \cup {None},
               PlaceOrder(s, u, a, side, kind, q, target, expiry)
        PROVE  P(s)
    <3>1. Rewrites(s)
      BY <2>1, <2>3, PlacesOrder
    <3>2. Dealt(s)
      BY <2>3, PlaceDeals
    <3> QED BY <1>2, <2>1, <3>1, <3>2
  <2> HIDE DEF P
  <2> QED BY <1>3, <2>1, <2>2, <2>3 DEF Request
<1>4. ASSUME NEW s \in Sessions, MoveCash(s) \/ UpdatePortfolio(s) \/ UpdateWallet(s) PROVE P(s)
  <2>1. CASE Rollback(s)
    BY <1>1, <2>1
  <2>2. CASE ~Rollback(s)
    <3>1. Steps(s) /\ Deals' /\ KeepsHand(s)
      BY <1>4, <2>2, CashDeals, ExecuteDeals, FillDeals DEF Dealt
    <3> QED BY <1>4, <3>1
  <2> QED BY <2>1, <2>2
<1>5. ASSUME NEW s \in Matchers, NEW a \in Assets, ReadPrice(s, a) PROVE \E t \in Sessions : P(t)
  <2> DEFINE t == [Idle EXCEPT !.pc = IF cache[a] = None THEN "next" ELSE "cursor",
                               !.start = now, !.asset = a, !.price = cache[a]]
  <2>1. s \in Sessions /\ t.pc # "wallet"
    BY DEF Sessions, Idle
  <2>2. tx[s].pc = "idle" /\ UNCHANGED rows /\ Begin(s, t)
    BY <1>5 DEF ReadPrice
  <2> HIDE DEF t
  <2>3. Rest(s)
    BY <2>1, <2>2, BeginsRest
  <2>4. Dealt(s)
    BY <1>5, <2>1, StartDeals
  <2> HIDE DEF P
  <2> QED BY <1>2, <2>1, <2>3, <2>4
<1>6. ASSUME NEW s \in Expirers, FindStale(s) PROVE \E t \in Sessions : P(t)
  <2> DEFINE t == [Idle EXCEPT !.pc = "next", !.start = now,
                               !.todo = {o \in OrderIds : Stale(orders[o].old, now)}]
  <2>1. s \in Sessions /\ t.pc # "wallet"
    BY DEF Sessions, Idle
  <2>2. tx[s].pc = "idle" /\ UNCHANGED rows /\ Begin(s, t)
    BY <1>6 DEF FindStale
  <2> HIDE DEF t
  <2>3. Rest(s)
    BY <2>1, <2>2, BeginsRest
  <2>4. Dealt(s)
    BY <1>6, <2>1, StartDeals
  <2> HIDE DEF P
  <2> QED BY <1>2, <2>1, <2>3, <2>4
<1>7. ASSUME NEW s \in Sessions, CheckFunds(s) \/ CheckHolding(s) \/ WaitForHolding(s) PROVE P(s)
  <2>1. Rest(s) \/ Rollback(s)
    BY <1>7, LocksRest
  <2>2. ~Rollback(s) => Dealt(s)
    BY <1>7, ExecuteDeals
  <2> HIDE DEF P
  <2> QED BY <1>1, <1>2, <2>1, <2>2
<1>8. ASSUME NEW s \in Sessions, OpenCursor(s) PROVE P(s)
  <2>1. Rest(s) \/ Rollback(s)
    BY <1>8, LocksRest
  <2>2. Dealt(s)
    BY <1>8, CursorDeals
  <2> HIDE DEF P
  <2> QED BY <1>1, <1>2, <2>1, <2>2
<1>9. ASSUME NEW s \in Sessions, NextOrder(s) \/ ExpireOne(s) PROVE P(s)
  <2>1. Rest(s) \/ Rewrites(s)
    BY <1>9, TakesUpOrder, CancelsOrder
  <2>2. Dealt(s)
    BY <1>9, TakeUpDeals, ExpireDeals
  <2> HIDE DEF P
  <2> QED BY <1>2, <2>1, <2>2
<1>10. ASSUME NEW s \in Sessions, AbortDeadlock(s) \/ Crash(s) PROVE P(s)
  BY <1>1, <1>10 DEF AbortDeadlock, Raise, Crash
<1>11. ASSUME (\E s \in Matchers : StartRun(s)) \/ (\E a \in Assets, p \in Prices : PriceTick(a, p))
              \/ Tick \/ UNCHANGED vars
       PROVE  UNCHANGED <<rows, tx>>
  BY <1>11 DEF StartRun, PriceTick, Tick, vars
<1> HIDE DEF P
<1>12. UNCHANGED <<rows, tx>> \/ \E s \in Sessions : P(s)
  BY <1>1, <1>3, <1>4, <1>5, <1>6, <1>7, <1>8, <1>9, <1>10, <1>11
  DEF Next, StartJob, Statement, ExecuteTrade
<1> QED BY <1>12 DEF P

LEMMA NextDeals ==
  ASSUME OneMatcher, Covered, Once, Deals, [Next]_vars PROVE Deals'
<1>1. ASSUME UNCHANGED <<rows, tx>> PROVE Deals'
  <2>1. orders' = orders /\ tx' = tx
    BY <1>1 DEF rows
  <2> QED BY <2>1 DEF Deals, Deal, Placed, Matched, Found, Expired, Filling
<1> QED BY <1>1, StatementDeals

-----------------------------------------------------------------------------
(* A wallet shows what is committed, and what is in hand *)

LEMMA FundTypes ==
  ASSUME Coherent, NEW u \in Users
  PROVE  /\ Total(Proceeding(u), MaxCalls) \in Int /\ Deposit(u) \in Int
         /\ wallet[u].new.balance \in Int /\ wallet[u].old.balance \in Int
<1>1. wallet[u].new \in Wallet /\ wallet[u].old \in Wallet
  BY DEF Coherent, TypeOK, Row
<1>2. wallet[u].new.balance \in 0 .. MaxBalance /\ wallet[u].old.balance \in 0 .. MaxBalance
  BY <1>1 DEF Wallet
<1> QED BY <1>2, ProceedingTypes, DepositTypes, InitialAssumption

LEMMA InitFunded == Init => Funded
<1> SUFFICES ASSUME Init, NEW u \in Users
             PROVE  wallet[u].new.balance =
                      wallet[u].old.balance + Total(Proceeding(u), MaxCalls) + Deposit(u)
  BY DEF Funded
<1>1. wallet[u].lock = None /\ wallet[u].new = wallet[u].old
  BY FreshRows DEF Init
<1>2. Coherent
  BY InitCoherent
<1>3. \A o \in OrderIds : Proceeding(u)[o] = 0
  <2>1. \A o \in OrderIds : ~Settled(o)
    BY FreshRows DEF Init, Settled, NoOrder
  <2> QED BY <2>1 DEF Proceeding
<1>4. Total(Proceeding(u), MaxCalls) = 0
  BY <1>2, <1>3, ProceedingTypes, TotalTypes, BoundAssumption DEF OrderIds
<1>5. Deposit(u) = 0
  BY <1>1 DEF Deposit
<1>6. wallet[u].old.balance \in Nat
  BY <1>2 DEF Coherent, TypeOK, Row, Wallet
<1> QED BY <1>1, <1>4, <1>5, <1>6

\* A statement that locks rows or writes an order, and fills none.
LEMMA QuietFunded ==
  ASSUME Coherent, Coherent', Funded, NEW s \in Sessions, Steps(s), Rest(s) \/ Rewrites(s),
         ~Moved(s), ~Moved(s)'
  PROVE  Funded'
<1>1. /\ wallet \in [Users -> Row(Wallet)] /\ wallet' \in [Users -> Row(Wallet)]
      /\ orders \in [OrderIds -> Row(Order \cup {NoOrder})]
  BY DEF Coherent, TypeOK
<1>2. SameRows(Users, wallet, wallet') /\ LeavesOthers(Users, wallet, wallet', s)
  BY <1>1, HeldRows, OthersRows DEF Rest, Rewrites
<1>3. \A u \in Users : wallet[u].lock \in Sessions \cup {None} /\ wallet'[u].lock \in Sessions \cup {None}
  BY <1>1 DEF Row
<1>4. ASSUME NEW o \in OrderIds
      PROVE  \/ orders'[o].new = orders[o].new /\ orders'[o].old = orders[o].old
             \/ ~Settled(o) /\ ~Settled(o)'
  <2>1. CASE Rest(s)
    BY <2>1 DEF Rest
  <2>2. CASE Rewrites(s)
    <3>1. PICK n \in OrderIds : \E v \in Order :
            /\ orders' = Write(orders, n, s, v)
            /\ v.status # "filled" /\ orders[n].new.status # "filled"
      BY <2>2 DEF Rewrites
    <3>2. PICK v \in Order :
            /\ orders' = Write(orders, n, s, v)
            /\ v.status # "filled" /\ orders[n].new.status # "filled"
      BY <3>1
    <3> QED BY <1>1, <3>2, WrittenRows DEF Settled
  <2> QED BY <2>1, <2>2
<1> QED BY <1>2, <1>3, <1>4, StillFunded

LEMMA CashFunded ==
  ASSUME Coherent, Coherent', Deals, Funded, NEW s \in Sessions, MoveCash(s), ~Rollback(s)
  PROVE  Funded'
<1> PICK u : u = tx[s].user
  OBVIOUS
<1> DEFINE b == wallet[u].new.balance + tx[s].amount
           w == [balance |-> b, audit |-> Audited(wallet[u].new, b, tx[s].start)]
<1>1. /\ tx[s].pc = "cash" /\ u \in Users /\ Free(wallet[u], s)
      /\ w \in Wallet /\ wallet' = Write(wallet, u, s, w)
      /\ tx'[s] = [tx[s] EXCEPT !.pc = "next"] /\ UNCHANGED orders
  BY CashMoves
<1>2. Steps(s) /\ tx[s].amount \in Int
  BY CashDeals, InputAssumption
<1>3. tx'[s].pc = "next" /\ tx'[s].user = u /\ tx'[s].amount = tx[s].amount
  BY <1>1, StepFacts DEF Coherent, Transaction
<1>4. w.balance = b
  OBVIOUS
<1> HIDE DEF w
<1>5. \A x \in Users : /\ wallet'[x].lock = IF x = u THEN s ELSE wallet[x].lock
                       /\ wallet'[x].new = IF x = u THEN w ELSE wallet[x].new
                       /\ wallet'[x].old = wallet[x].old
                       /\ wallet[x].lock \in Sessions \cup {None}
  BY <1>1, WrittenRows DEF Coherent, TypeOK, Row
<1>6. u # None /\ s # None
  BY <1>1, SessionAssumption
<1> SUFFICES ASSUME NEW x \in Users
             PROVE  wallet'[x].new.balance =
                      wallet'[x].old.balance + Total(Proceeding(x)', MaxCalls) + Deposit(x)'
  BY DEF Funded
<1>7. Proceeding(x)' = Proceeding(x)
  BY <1>1 DEF Proceeding, Settled
<1>8. /\ wallet[x].new.balance = wallet[x].old.balance + Total(Proceeding(x), MaxCalls) + Deposit(x)
      /\ Total(Proceeding(x), MaxCalls) \in Int /\ Deposit(x) \in Int
      /\ wallet[x].new.balance \in Int /\ wallet[x].old.balance \in Int
  BY FundTypes DEF Funded
<1>9. CASE x = u
  <2>1. Deposit(x) = 0
    BY <1>1, <1>9 DEF Deposit, Moved, Free
  <2>2. Deposit(x)' = tx[s].amount
    BY <1>3, <1>5, <1>6, <1>9 DEF Deposit, Moved
  <2>3. wallet'[x].new.balance = wallet[x].new.balance + tx[s].amount /\ wallet'[x].old = wallet[x].old
    BY <1>4, <1>5, <1>9
  <2> HIDE DEF b
  <2> QED BY <1>2, <1>7, <1>8, <2>1, <2>2, <2>3
<1>10. CASE x # u
  <2>1. Deposit(x)' = Deposit(x)
    <3>1. CASE wallet[x].lock = s
      BY <1>1, <1>3, <1>5, <1>10, <3>1 DEF Deposit, Moved
    <3>2. CASE wallet[x].lock # s
      BY <1>2, <1>5, <1>10, <3>2 DEF Deposit, Moved, Steps
    <3> QED BY <3>1, <3>2
  <2> QED BY <1>5, <1>7, <1>8, <1>10, <2>1
<1> QED BY <1>9, <1>10

\* The statement that writes the wallet of u and order n changes no other row.
LEMMA WalletWritten ==
  ASSUME Coherent, NEW s \in Sessions, NEW u \in Users, NEW w \in Wallet,
         wallet' = Write(wallet, u, s, w)
  PROVE  \A x \in Users : /\ wallet'[x].lock = IF x = u THEN s ELSE wallet[x].lock
                          /\ wallet'[x].new = IF x = u THEN w ELSE wallet[x].new
                          /\ wallet'[x].old = wallet[x].old
<1>1. wallet \in [Users -> Row(Wallet)]
  BY DEF Coherent, TypeOK
<1> QED BY <1>1, WrittenRows

LEMMA OrderWritten ==
  ASSUME Coherent, NEW s \in Sessions, NEW n \in OrderIds, NEW v \in Order,
         orders' = Write(orders, n, s, v)
  PROVE  \A p \in OrderIds : /\ orders'[p].old = orders[p].old
                             /\ orders'[p].new = IF p = n THEN v ELSE orders[p].new
<1>1. orders \in [OrderIds -> Row(Order \cup {NoOrder})]
  BY DEF Coherent, TypeOK
<1> QED BY <1>1, WrittenRows

LEMMA WalletFunded ==
  ASSUME Covered, Covered', Once, Deals, Funded, NEW s \in Sessions, UpdateWallet(s), ~Rollback(s)
  PROVE  Funded'
<1> USE DEF Covered
<1> PICK n : n = tx[s].order
  OBVIOUS
<1> PICK u : u = orders[n].new.user
  OBVIOUS
<1> DEFINE o == orders[n].new
           b == wallet[u].new.balance + Proceeds(o)
           w == [balance |-> b, audit |-> Audited(wallet[u].new, b, tx[s].start)]
           trade == [price |-> o.price, profit |-> tx[s].profit, booked |-> ProfitBooked(s)]
           v == [o EXCEPT !.status = "filled", !.trades = Append(@, trade)]
<1>1. /\ n \in OrderIds /\ orders[n].lock = s /\ o \in Order
      /\ Len(o.trades) = 0 /\ orders[n].old.status # "filled" /\ o.status # "filled"
      /\ Free(wallet[u], s) /\ w \in Wallet /\ wallet' = Write(wallet, u, s, w)
      /\ v \in Order /\ orders' = Write(orders, n, s, v)
  BY FillEnds
<1>2. Dealt(s)
  BY FillDeals
<1>3. u \in Users /\ w.balance = b /\ Worth(o) = Proceeds(o) /\ s # None
  BY <1>1, SessionAssumption DEF Order, Worth, Proceeds
<1>4. v.status = "filled" /\ v.user = u /\ Worth(v) = Worth(o)
  <2>1. o \in Order /\ Len(o.trades) = 0
    BY <1>1
  <2> HIDE DEF trade, b, w
  <2>2. v.status = "filled" /\ v.user = o.user /\ Worth(v) = Worth(o)
    BY <2>1, RowFilled
  <2> QED BY <2>2
<1> HIDE DEF v, w, b, trade
<1>0. wallet \in [Users -> Row(Wallet)] /\ orders \in [OrderIds -> Row(Order \cup {NoOrder})]
  BY DEF Coherent, TypeOK
<1>5. \A x \in Users : /\ wallet'[x].lock = IF x = u THEN s ELSE wallet[x].lock
                       /\ wallet'[x].new = IF x = u THEN w ELSE wallet[x].new
                       /\ wallet'[x].old = wallet[x].old
  <2>1. u \in Users /\ w \in Wallet /\ wallet' = Write(wallet, u, s, w)
    BY <1>1, <1>3
  <2>2. PICK ww \in Wallet : ww = w /\ wallet' = Write(wallet, u, s, ww)
    BY <2>1
  <2>3. \A x \in Users : /\ wallet'[x].lock = IF x = u THEN s ELSE wallet[x].lock
                         /\ wallet'[x].new = IF x = u THEN ww ELSE wallet[x].new
                         /\ wallet'[x].old = wallet[x].old
    BY <2>1, <2>2, WalletWritten
  <2> QED BY <2>2, <2>3
<1>6. \A p \in OrderIds : /\ orders'[p].old = orders[p].old
                          /\ orders'[p].new = IF p = n THEN v ELSE orders[p].new
  <2>1. n \in OrderIds /\ v \in Order /\ orders' = Write(orders, n, s, v) /\ Coherent
    BY <1>1
  <2> QED BY <2>1, OrderWritten
<1> SUFFICES ASSUME NEW x \in Users
             PROVE  wallet'[x].new.balance =
                      wallet'[x].old.balance + Total(Proceeding(x)', MaxCalls) + Deposit(x)'
  BY DEF Funded
<1>7. /\ wallet[x].new.balance = wallet[x].old.balance + Total(Proceeding(x), MaxCalls) + Deposit(x)
      /\ Total(Proceeding(x), MaxCalls) \in Int /\ Deposit(x) \in Int
      /\ wallet[x].new.balance \in Int /\ wallet[x].old.balance \in Int
  BY FundTypes DEF Funded
<1>8. Deposit(x)' = Deposit(x)
  <2>1. ~Moved(s) /\ ~Moved(s)' /\ Steps(s)
    BY <1>2 DEF Dealt
  <2>2. wallet[x].lock \in {s, None} => wallet'[x].lock \in {s, None}
    BY <1>5
  <2>3. ASSUME wallet[x].lock \notin {s, None}
        PROVE  wallet'[x].lock = wallet[x].lock /\ tx'[wallet[x].lock] = tx[wallet[x].lock]
    <3>1. x # u /\ wallet[x].lock \in Sessions \cup {None} /\ tx \in [Sessions -> Transaction]
      BY <1>0, <1>1, <2>3 DEF Free, Row, Coherent, TypeOK
    <3> QED BY <1>5, <2>1, <2>3, <3>1 DEF Steps
  <2>4. CASE wallet[x].lock \in {s, None}
    BY <2>1, <2>2, <2>4 DEF Deposit
  <2>5. CASE wallet[x].lock \notin {s, None}
    BY <2>3, <2>5 DEF Deposit, Moved
  <2> QED BY <2>4, <2>5
<1>9. CASE x = u
  <2>1. Worth(o) \in Int
    <3>1. o.price \in Nat /\ o.quantity \in Nat
      BY <1>1, InputAssumption DEF Order
    <3>2. Cost(o) \in Int
      BY <3>1, Products DEF Cost
    <3> QED BY <3>2 DEF Worth
  <2>2. /\ Proceeding(x) \in [1 .. MaxCalls -> Int] /\ Proceeding(x)' \in [1 .. MaxCalls -> Int]
        /\ n \in 1 .. MaxCalls /\ MaxCalls \in Nat
    BY <1>1, ProceedingTypes, ProceedingTypesNext, BoundAssumption DEF OrderIds, ProceedingInts
  <2>3. Proceeding(x)[n] = 0 /\ Proceeding(x)'[n] = Worth(v)
    BY <1>1, <1>4, <1>6, <1>9 DEF Proceeding, Settled
  <2>4. \A p \in 1 .. MaxCalls \ {n} : Proceeding(x)'[p] = Proceeding(x)[p]
    BY <1>6 DEF Proceeding, Settled, OrderIds
  <2>5. Proceeding(x)'[n] = Proceeding(x)[n] + Worth(o)
    BY <1>4, <2>1, <2>3
  <2>6. Total(Proceeding(x)', MaxCalls) = Total(Proceeding(x), MaxCalls) + Worth(o)
    BY <2>1, <2>2, <2>4, <2>5, TotalGrows
  <2>7. wallet'[x].new.balance = wallet[x].new.balance + Worth(o) /\ wallet'[x].old = wallet[x].old
    BY <1>3, <1>5, <1>9 DEF b
  <2> HIDE DEF o
  <2> QED BY <1>7, <1>8, <2>1, <2>6, <2>7
<1>10. CASE x # u
  <2>1. Proceeding(x)' = Proceeding(x)
    BY <1>1, <1>4, <1>6, <1>10 DEF Proceeding, Settled
  <2> QED BY <1>5, <1>7, <1>8, <1>10, <2>1
<1> QED BY <1>9, <1>10

\* At its end a transaction has nothing in hand: the wallets it held show what is committed.
LEMMA EndFunded ==
  ASSUME Coherent, Coherent', Balanced, Funded, NEW s \in Sessions, Commit(s) \/ Rollback(s)
  PROVE  Funded'
<1>1. /\ wallet \in [Users -> Row(Wallet)] /\ orders \in [OrderIds -> Row(Order \cup {NoOrder})]
      /\ \/ wallet' = Keep(wallet, s) /\ orders' = Keep(orders, s)
         \/ wallet' = Undo(wallet, s) /\ orders' = Undo(orders, s)
      /\ tx \in [Sessions -> Transaction] /\ s # None
  BY SessionAssumption DEF Coherent, TypeOK, Commit, Rollback
<1>2. Steps(s)
  BY <1>1 DEF Commit, Rollback, Steps
<1>3. ASSUME NEW o \in OrderIds
      PROVE  \/ orders'[o] = orders[o] /\ orders[o].lock # s
             \/ orders[o].lock = s /\ ~Settled(o)'
  <2>1. \/ orders'[o] = orders[o] /\ orders[o].lock # s
        \/ orders[o].lock = s /\ orders'[o].new = orders'[o].old
    BY <1>1, EndedRows, FreshRows
  <2> QED BY <2>1 DEF Settled
<1> SUFFICES ASSUME NEW x \in Users
             PROVE  wallet'[x].new.balance =
                      wallet'[x].old.balance + Total(Proceeding(x)', MaxCalls) + Deposit(x)'
  BY DEF Funded
<1>4. \/ wallet'[x] = wallet[x] /\ wallet[x].lock # s
      \/ wallet[x].lock = s /\ wallet'[x].lock = None /\ wallet'[x].new = wallet'[x].old
  BY <1>1, EndedRows, FreshRows
<1>5. \A o \in OrderIds : Settled(o) /\ orders[o].new.user = x => wallet[x].lock = orders[o].lock
  BY DEF Settled, Balanced, FillHeld
<1>6. CASE wallet[x].lock = s
  <2>1. \A o \in OrderIds : Proceeding(x)'[o] = 0
    BY <1>3, <1>5, <1>6 DEF Proceeding, Settled
  <2>2. Total(Proceeding(x)', MaxCalls) = 0
    BY <2>1, ProceedingTypesNext, TotalTypes, BoundAssumption DEF OrderIds, ProceedingInts
  <2>3. Deposit(x)' = 0
    BY <1>1, <1>4, <1>6 DEF Deposit
  <2>4. wallet'[x].old.balance \in Int
    <3>1. wallet[x].new \in Wallet /\ wallet[x].old \in Wallet
      BY <1>1 DEF Row
    <3>2. wallet[x].new.balance \in Int /\ wallet[x].old.balance \in Int
      BY FundTypes
    <3> QED BY <1>1, <1>6, <3>2, EndedRows, FreshRows
  <2> QED BY <1>1, <1>4, <1>6, <2>2, <2>3, <2>4
<1>7. CASE wallet[x].lock # s
  <2>1. Proceeding(x)' = Proceeding(x)
    BY <1>3, <1>5, <1>7 DEF Proceeding, Settled
  <2>2. wallet[x].lock \in Sessions \cup {None}
    BY <1>1 DEF Row
  <2>3. Deposit(x)' = Deposit(x)
    BY <1>2, <1>4, <1>7, <2>2 DEF Deposit, Moved, Steps
  <2> QED BY <1>4, <1>7, <2>1, <2>3 DEF Funded
<1> QED BY <1>6, <1>7

LEMMA NextFunded ==
  ASSUME OneMatcher, Covered, Once, Balanced, Deals, Funded, [Next]_vars
  PROVE  Funded'
<1>1. Covered' /\ Coherent /\ Coherent'
  BY NextCovered DEF Covered
<1>2. ASSUME UNCHANGED <<rows, tx>> PROVE Funded'
  <2>1. wallet' = wallet /\ orders' = orders /\ tx' = tx
    BY <1>2 DEF rows
  <2>2. \A u \in Users : Proceeding(u)' = Proceeding(u) /\ Deposit(u)' = Deposit(u)
    BY <2>1 DEF Proceeding, Settled, Deposit, Moved
  <2> QED BY <2>1, <2>2 DEF Funded
<1>3. ASSUME NEW s \in Sessions, Steps(s), UpdatePortfolio(s), ~Rollback(s) PROVE Funded'
  <2>1. Dealt(s)
    BY <1>3, ExecuteDeals
  <2>2. UNCHANGED <<wallet, orders>>
    BY <1>3, PositionTrades
  <2>3. SameRows(Users, wallet, wallet') /\ LeavesOthers(Users, wallet, wallet', s)
    BY <1>1, <2>2, HeldRows, OthersRows DEF Coherent, TypeOK
  <2>4. \A u \in Users : wallet[u].lock \in Sessions \cup {None} /\ wallet'[u].lock \in Sessions \cup {None}
    BY <1>1 DEF Coherent, TypeOK, Row
  <2> QED BY <2>1, <2>2, <2>3, <2>4, StillFunded DEF Dealt
<1>4. ASSUME NEW s \in Sessions, Steps(s),
             \/ (Rest(s) \/ Rewrites(s)) /\ ~Moved(s) /\ ~Moved(s)'
             \/ Commit(s) \/ Rollback(s) \/ MoveCash(s)
             \/ UpdatePortfolio(s) \/ UpdateWallet(s)
      PROVE  Funded'
  <2>1. CASE (Rest(s) \/ Rewrites(s)) /\ ~Moved(s) /\ ~Moved(s)'
    BY <1>1, <1>4, <2>1, QuietFunded
  <2>2. CASE Commit(s) \/ Rollback(s)
    BY <1>1, <2>2, EndFunded
  <2>3. CASE ~Rollback(s) /\ (MoveCash(s) \/ UpdatePortfolio(s) \/ UpdateWallet(s))
    BY <1>1, <1>3, <1>4, <2>3, CashFunded, WalletFunded
  <2> QED BY <1>4, <2>1, <2>2, <2>3
<1> QED BY <1>2, <1>4, StatementDeals

-----------------------------------------------------------------------------
(* A commit is a step of Brokerage *)

\* The orders transaction s fills, and what they are worth to u and to position k.
Ended(s) == {o \in OrderIds : orders[o].lock = s /\ Settled(o)}
Gains(s, u) ==
  [o \in OrderIds |-> IF o \in Ended(s) /\ orders[o].new.user = u THEN Worth(orders[o].new) ELSE 0]
Moves(s, k) ==
  [o \in OrderIds |->
     LET r == orders[o].new IN
     IF o \in Ended(s) /\ <<r.user, r.asset>> = k
     THEN IF r.side = "buy" THEN r.quantity ELSE -r.quantity ELSE 0]

LEMMA EndedTypes ==
  ASSUME Coherent, NEW s, NEW o \in Ended(s)
  PROVE  /\ orders[o].new \in Order /\ orders[o].new.status = "filled"
         /\ orders[o].new.price \in Nat /\ orders[o].new.quantity \in Nat
         /\ orders[o].new.user \in Users /\ orders[o].new.side \in {"buy", "sell"}
         /\ Worth(orders[o].new) \in Int
<1>1. orders[o].new \in Order /\ orders[o].new.status = "filled"
  BY DEF Ended, Settled, Coherent, TypeOK, Row, NoOrder
<1>2. /\ orders[o].new.price \in Nat /\ orders[o].new.quantity \in Nat
      /\ orders[o].new.user \in Users /\ orders[o].new.side \in {"buy", "sell"}
  BY <1>1, InputAssumption DEF Order
<1>3. Cost(orders[o].new) \in Nat
  BY <1>2, Products DEF Cost
<1> QED BY <1>1, <1>2, <1>3 DEF Worth

\* The committed wallet of u after the commit of s.
LEMMA CommitCash ==
  ASSUME Coherent, Balanced, Funded, NEW s \in Sessions, Commit(s), NEW u \in Users
  PROVE  /\ wallet'[u].old.balance =
              wallet[u].old.balance + Total(Gains(s, u), MaxCalls)
                + IF wallet[u].lock = s /\ tx[s].user = u THEN tx[s].amount ELSE 0
         /\ Gains(s, u) \in [1 .. MaxCalls -> Int]
<1>1. /\ wallet \in [Users -> Row(Wallet)] /\ wallet' = Keep(wallet, s) /\ tx[s].pc = "next"
      /\ MaxCalls \in Nat /\ OrderIds = 1 .. MaxCalls /\ u # None /\ s # None
  BY SessionAssumption, BoundAssumption DEF Coherent, TypeOK, Commit, OrderIds
<1>2. Gains(s, u) \in [1 .. MaxCalls -> Int]
  BY <1>1, EndedTypes DEF Gains
<1>3. \A o \in OrderIds : Settled(o) /\ orders[o].new.user = u => wallet[u].lock = orders[o].lock
  BY DEF Settled, Balanced, FillHeld
<1>4. /\ wallet[u].old.balance \in Int /\ wallet[u].new.balance \in Int
      /\ Total(Proceeding(u), MaxCalls) \in Int /\ Deposit(u) \in Int
      /\ wallet[u].new.balance = wallet[u].old.balance + Total(Proceeding(u), MaxCalls) + Deposit(u)
  BY FundTypes DEF Funded
<1>5. CASE wallet[u].lock = s
  <2>1. Gains(s, u) = Proceeding(u)
    BY <1>3, <1>5 DEF Gains, Proceeding, Ended
  <2>2. Deposit(u) = IF tx[s].user = u THEN tx[s].amount ELSE 0
    BY <1>1, <1>5 DEF Deposit, Moved
  <2>3. wallet'[u].old = wallet[u].new
    BY <1>1, <1>5, EndedRows, FreshRows
  <2> QED BY <1>2, <1>4, <1>5, <2>1, <2>2, <2>3
<1>6. CASE wallet[u].lock # s
  <2>1. \A o \in 1 .. MaxCalls : Gains(s, u)[o] = 0
    BY <1>1, <1>3, <1>6 DEF Gains, Ended
  <2>2. Total(Gains(s, u), MaxCalls) = 0
    BY <1>1, <1>2, <2>1, TotalTypes
  <2>3. wallet'[u] = wallet[u]
    BY <1>1, <1>6, EndedRows
  <2> QED BY <1>2, <1>4, <1>6, <2>2, <2>3
<1> QED BY <1>5, <1>6

\* Two books that differ by moves of position k.
QuantityOf(F, k, side) == [o \in OrderIds |-> IF Trades(F[o], k, side) THEN F[o].quantity ELSE 0]

LEMMA TradedQuantity ==
  ASSUME NEW H \in FillBook, NEW o \in OrderIds, NEW k, NEW side, Trades(H[o], k, side)
  PROVE  H[o].quantity \in Int
<1>1. H[o] \in Fills
  BY NoFillTrades DEF FillBook
<1>2. H[o].quantity \in Nat
  BY <1>1 DEF Fills
<1> QED BY <1>2

LEMMA SharesMove ==
  ASSUME NEW F \in FillBook, NEW G \in FillBook, NEW k \in Keys, NEW d \in [1 .. MaxCalls -> Int],
         \A o \in OrderIds :
           QuantityOf(G, k, "buy")[o] + QuantityOf(F, k, "sell")[o]
             = QuantityOf(F, k, "buy")[o] + QuantityOf(G, k, "sell")[o] + d[o]
  PROVE  Shares(G, k, "buy") - Shares(G, k, "sell")
           = Shares(F, k, "buy") - Shares(F, k, "sell") + Total(d, MaxCalls)
<1>0. MaxCalls \in Nat /\ OrderIds = 1 .. MaxCalls
  BY BoundAssumption DEF OrderIds
<1>1. ASSUME NEW H \in FillBook, NEW side
      PROVE  QuantityOf(H, k, side) \in [1 .. MaxCalls -> Int]
  <2>1. \A o \in OrderIds : Trades(H[o], k, side) => H[o].quantity \in Int
    BY TradedQuantity
  <2> QED BY <1>0, <2>1 DEF QuantityOf
<1>2. ASSUME NEW H \in FillBook, NEW side PROVE Shares(H, k, side) = Total(QuantityOf(H, k, side), MaxCalls)
  BY DEF Shares, QuantityOf
<1> DEFINE f == QuantityOf(G, k, "buy")
           g == QuantityOf(F, k, "sell")
           p == QuantityOf(F, k, "buy")
           q == QuantityOf(G, k, "sell")
           x == [o \in 1 .. MaxCalls |-> f[o] + g[o]]
           y == [o \in 1 .. MaxCalls |-> p[o] + q[o]]
<1>3. /\ f \in [1 .. MaxCalls -> Int] /\ g \in [1 .. MaxCalls -> Int]
      /\ p \in [1 .. MaxCalls -> Int] /\ q \in [1 .. MaxCalls -> Int]
  BY <1>1
<1>4. \A o \in 1 .. MaxCalls : f[o] + g[o] = p[o] + q[o] + d[o]
  BY <1>0
<1>5. /\ Shares(G, k, "buy") = Total(f, MaxCalls) /\ Shares(F, k, "sell") = Total(g, MaxCalls)
      /\ Shares(F, k, "buy") = Total(p, MaxCalls) /\ Shares(G, k, "sell") = Total(q, MaxCalls)
  BY <1>2
<1> HIDE DEF f, g, p, q
<1>6. x \in [1 .. MaxCalls -> Int] /\ y \in [1 .. MaxCalls -> Int]
  BY <1>3
<1>7. \A o \in 1 .. MaxCalls : x[o] = f[o] + g[o]
  OBVIOUS
<1>8. \A o \in 1 .. MaxCalls : y[o] = p[o] + q[o]
  OBVIOUS
<1>9. \A o \in 1 .. MaxCalls : x[o] = y[o] + d[o]
  BY <1>4
<1> HIDE DEF x, y
<1>10. /\ Total(x, MaxCalls) = Total(f, MaxCalls) + Total(g, MaxCalls)
       /\ Total(y, MaxCalls) = Total(p, MaxCalls) + Total(q, MaxCalls)
       /\ Total(x, MaxCalls) = Total(y, MaxCalls) + Total(d, MaxCalls)
  <2>1. Total(x, MaxCalls) = Total(f, MaxCalls) + Total(g, MaxCalls)
    BY <1>0, <1>3, <1>6, <1>7, TotalOfSums
  <2>2. Total(y, MaxCalls) = Total(p, MaxCalls) + Total(q, MaxCalls)
    BY <1>0, <1>3, <1>6, <1>8, TotalOfSums
  <2>3. Total(x, MaxCalls) = Total(y, MaxCalls) + Total(d, MaxCalls)
    BY <1>0, <1>6, <1>9, TotalOfSums
  <2> QED BY <2>1, <2>2, <2>3
<1>11. /\ Total(f, MaxCalls) \in Int /\ Total(g, MaxCalls) \in Int /\ Total(p, MaxCalls) \in Int
       /\ Total(q, MaxCalls) \in Int /\ Total(d, MaxCalls) \in Int
  BY <1>0, <1>3, TotalTypes
<1>12. Total(f, MaxCalls) - Total(q, MaxCalls) =
         Total(p, MaxCalls) - Total(g, MaxCalls) + Total(d, MaxCalls)
  BY <1>10, <1>11
<1> QED BY <1>5, <1>12

\* What a committed order becomes.
LEMMA CommittedFills ==
  ASSUME Coherent, Once, NEW s \in Sessions, Commit(s), NEW o \in OrderIds
  PROVE  /\ orders'[o].old = IF orders[o].lock = s THEN orders[o].new ELSE orders[o].old
         /\ o \notin Ended(s) => Committed'[o] = Committed[o]
         /\ o \in Ended(s) =>
              /\ Committed[o] = NoFill
              /\ Committed'[o] = FillOf(orders[o].new, orders[o].new.trades[1].profit)
<1>1. orders \in [OrderIds -> Row(Order \cup {NoOrder})] /\ orders' = Keep(orders, s)
  BY DEF Coherent, TypeOK, Commit
<1>2. orders'[o].old = IF orders[o].lock = s THEN orders[o].new ELSE orders[o].old
  BY <1>1, EndedRows, FreshRows
<1>3. orders[o].old.status = "filled" => orders[o].new = orders[o].old
  BY DEF Once, RowOnce
<1> QED BY <1>2, <1>3 DEF Ended, Settled, Committed, Fill

BooksTyped == Committed \in FillBook

LEMMA BooksTypedNext == Coherent' /\ Once' => BooksTyped'
<1>1. Coherent /\ Once => BooksTyped
  BY FillTables DEF BooksTyped
<1> QED BY <1>1, PTL

\* The committed position k after the commit of s.
LEMMA CommitPositions ==
  ASSUME Coherent, Coherent', Once, Once', Balanced, Balanced', NEW s \in Sessions, Commit(s),
         NEW k \in Keys
  PROVE  /\ holding'[k].old.quantity = holding[k].old.quantity + Total(Moves(s, k), MaxCalls)
         /\ Moves(s, k) \in [1 .. MaxCalls -> Int]
<1>0. MaxCalls \in Nat /\ OrderIds = 1 .. MaxCalls
  BY BoundAssumption DEF OrderIds
<1>1. Moves(s, k) \in [1 .. MaxCalls -> Int]
  BY <1>0, EndedTypes DEF Moves
<1> PICK F, G : F = Committed /\ G = Committed'
  OBVIOUS
<1>2. F \in FillBook /\ G \in FillBook
  BY FillTables, BooksTypedNext DEF BooksTyped
<1>3. ASSUME NEW o \in OrderIds
      PROVE  QuantityOf(G, k, "buy")[o] + QuantityOf(F, k, "sell")[o]
               = QuantityOf(F, k, "buy")[o] + QuantityOf(G, k, "sell")[o] + Moves(s, k)[o]
  <2>1. CASE o \notin Ended(s)
    <3>1. F[o] = G[o] /\ Moves(s, k)[o] = 0
      BY <2>1, CommittedFills DEF Moves
    <3>2. \A side : Trades(F[o], k, side) => F[o].quantity \in Int
      BY <1>2, TradedQuantity
    <3> QED BY <3>1, <3>2 DEF QuantityOf
  <2>2. CASE o \in Ended(s)
    <3> DEFINE r == orders[o].new
    <3>1. F[o] = NoFill /\ G[o] = FillOf(r, r.trades[1].profit)
      BY <2>2, CommittedFills
    <3>2. r.quantity \in Nat /\ r.side \in {"buy", "sell"}
      BY <2>2, EndedTypes
    <3>3. /\ QuantityOf(F, k, "buy")[o] = 0 /\ QuantityOf(F, k, "sell")[o] = 0
      BY <3>1, NoFillTrades DEF QuantityOf
    <3>4. \A side : QuantityOf(G, k, side)[o] =
                      IF <<r.user, r.asset>> = k /\ r.side = side THEN r.quantity ELSE 0
      BY <3>1 DEF QuantityOf, Trades, FillOf
    <3>5. Moves(s, k)[o] = IF <<r.user, r.asset>> = k
                           THEN IF r.side = "buy" THEN r.quantity ELSE -r.quantity ELSE 0
      BY <2>2 DEF Moves
    <3> HIDE DEF r
    <3> QED BY <3>2, <3>3, <3>4, <3>5
  <2> QED BY <2>1, <2>2
<1>4. Shares(G, k, "buy") - Shares(G, k, "sell")
        = Shares(F, k, "buy") - Shares(F, k, "sell") + Total(Moves(s, k), MaxCalls)
  BY <1>1, <1>2, <1>3, SharesMove
<1>5. /\ holding[k].old.quantity = Endowed[k].quantity + Shares(F, k, "buy") - Shares(F, k, "sell")
      /\ holding'[k].old.quantity = Endowed[k].quantity + Shares(G, k, "buy") - Shares(G, k, "sell")
  BY DEF Balanced, AddsUp
<1>6. /\ Shares(F, k, "buy") \in Nat /\ Shares(F, k, "sell") \in Nat
      /\ Shares(G, k, "buy") \in Nat /\ Shares(G, k, "sell") \in Nat
  BY <1>2, SumTypes
<1>7. Total(Moves(s, k), MaxCalls) \in Int /\ Endowed[k].quantity \in Nat
  BY <1>0, <1>1, TotalTypes, InitialAssumption
<1> QED BY <1>1, <1>4, <1>5, <1>6, <1>7

\* Brokerage sums as the books do.
LEMMA SameTotal == \A f, n : B!Total(f, n) = Total(f, n)
BY DEF B!Total, Total, B!PartialSums, PartialSums

LEMMA NegatedTotal ==
  ASSUME NEW n \in Nat, NEW f \in [1 .. n -> Int], NEW g \in [1 .. n -> Int],
         \A i \in 1 .. n : f[i] + g[i] = 0
  PROVE  Total(f, n) = -Total(g, n) /\ Total(f, n) \in Int /\ Total(g, n) \in Int
<1> DEFINE z == [i \in 1 .. n |-> 0]
<1>1. z \in [1 .. n -> Int] /\ \A i \in 1 .. n : z[i] = 0
  OBVIOUS
<1> HIDE DEF z
<1>2. \A i \in 1 .. n : z[i] = f[i] + g[i]
  BY <1>1
<1>3. Total(z, n) = Total(f, n) + Total(g, n)
  BY <1>1, <1>2, TotalOfSums
<1>4. Total(z, n) = 0
  BY <1>1, TotalTypes
<1>5. Total(f, n) \in Int /\ Total(g, n) \in Int
  BY TotalTypes
<1> QED BY <1>3, <1>4, <1>5

\* What s has filled it exchanges: cash against shares.
LEMMA CommitExchanges ==
  ASSUME Covered, Covered', Once, Once', Balanced, Balanced', Funded,
         NEW s \in Sessions, Commit(s), tx[s].user = None,
         NEW p \in Prices, NEW r,
         \A o \in Ended(s) : r[o] = Asked(orders[o].new) /\ orders[o].new.price = p
  PROVE  B!Exchanged(Ended(s), r, p)
<1>0. /\ MaxCalls \in Nat /\ OrderIds = 1 .. MaxCalls /\ B!OrderIds = OrderIds
      /\ Coherent /\ Coherent' /\ p \in Nat
  BY BoundAssumption, InputAssumption DEF OrderIds, B!OrderIds, Covered
<1> DEFINE cost(u) == [o \in OrderIds |-> IF o \in Ended(s) /\ r[o].user = u THEN p * B!Shares(r[o]) ELSE 0]
           moves(k) == [o \in OrderIds |-> IF o \in Ended(s) /\ <<r[o].user, r[o].asset>> = k
                                           THEN B!Shares(r[o]) ELSE 0]
<1>1. ASSUME NEW o \in Ended(s)
      PROVE  LET v == orders[o].new IN
             /\ r[o].user = v.user /\ r[o].asset = v.asset
             /\ B!Shares(r[o]) = IF v.side = "buy" THEN v.quantity ELSE -v.quantity
             /\ B!Shares(r[o]) \in Int /\ p * B!Shares(r[o]) \in Int
             /\ Worth(v) + p * B!Shares(r[o]) = 0
  <2> DEFINE v == orders[o].new
  <2>1. r[o] = Asked(v) /\ v.price = p
    OBVIOUS
  <2>2. r[o].user = v.user /\ r[o].asset = v.asset /\ r[o].side = v.side /\ r[o].quantity = v.quantity
    BY <2>1 DEF Asked
  <2>3. v.quantity \in Nat /\ v.side \in {"buy", "sell"}
    BY <1>0, EndedTypes
  <2>4. Worth(v) = IF v.side = "buy" THEN -(p * v.quantity) ELSE p * v.quantity
    BY <2>1 DEF Worth, Cost
  <2> HIDE DEF v
  <2>5. B!Shares(r[o]) = IF v.side = "buy" THEN v.quantity ELSE -v.quantity
    BY <2>2 DEF B!Shares
  <2>6. p * v.quantity \in Nat /\ p * (-v.quantity) = -(p * v.quantity)
    BY <1>0, <2>3
  <2>7. B!Shares(r[o]) \in Int /\ p * B!Shares(r[o]) \in Int /\ Worth(v) + p * B!Shares(r[o]) = 0
    BY <2>3, <2>4, <2>5, <2>6
  <2> QED BY <2>2, <2>5, <2>7 DEF v
<1>2. ASSUME NEW u \in Users
      PROVE  wallet'[u].old.balance = wallet[u].old.balance - Total(cost(u), MaxCalls)
  <2>1. cost(u) \in [1 .. MaxCalls -> Int]
    BY <1>0, <1>1
  <2>2. Gains(s, u) \in [1 .. MaxCalls -> Int]
    BY <1>0, CommitCash
  <2>3. \A o \in 1 .. MaxCalls : Gains(s, u)[o] + cost(u)[o] = 0
    BY <1>0, <1>1 DEF Gains
  <2> HIDE DEF cost
  <2>4. Total(Gains(s, u), MaxCalls) = -Total(cost(u), MaxCalls)
        /\ Total(Gains(s, u), MaxCalls) \in Int /\ Total(cost(u), MaxCalls) \in Int
    BY <1>0, <2>1, <2>2, <2>3, NegatedTotal
  <2>5. u # None /\ wallet[u].old.balance \in Int
    BY <1>0, FundTypes, SessionAssumption
  <2>6. wallet'[u].old.balance = wallet[u].old.balance + Total(Gains(s, u), MaxCalls) + 0
    BY <1>0, <2>5, CommitCash
  <2> QED BY <2>4, <2>5, <2>6
<1>3. ASSUME NEW k \in Keys
      PROVE  holding'[k].old.quantity = holding[k].old.quantity + Total(moves(k), MaxCalls)
  <2>1. moves(k) = Moves(s, k)
    BY <1>1 DEF Moves
  <2> HIDE DEF moves
  <2> QED BY <1>0, <2>1, CommitPositions
<1>4. /\ \A u \in Users : Balances'[u] \in 0 .. MaxBalance
      /\ \A k \in Users \X Assets : Positions'[k] \in Nat
  BY <1>0 DEF Coherent, TypeOK, Row, Wallet, Holding, Balances, Positions, Keys
<1>5. /\ Balances' = [u \in Users |-> Balances[u] - Total(cost(u), MaxCalls)]
      /\ Positions' = [k \in Users \X Assets |-> Positions[k] + Total(moves(k), MaxCalls)]
  <2> HIDE DEF cost, moves
  <2> QED BY <1>2, <1>3 DEF Balances, Positions, Keys
<1> QED BY <1>0, <1>4, <1>5, SameTotal DEF B!Exchanged

\* A commit that fills nothing moves no shares, and cash only by a deposit or withdrawal.
LEMMA NothingFilled ==
  ASSUME Covered, Covered', Once, Once', Balanced, Balanced', Funded,
         NEW s \in Sessions, Commit(s), Ended(s) = {}
  PROVE  /\ Positions' = Positions
         /\ \A u \in Users :
              Balances'[u] = Balances[u] + IF wallet[u].lock = s /\ tx[s].user = u THEN tx[s].amount ELSE 0
         /\ tx[s].user = None => Balances' = Balances
<1>0. MaxCalls \in Nat /\ OrderIds = 1 .. MaxCalls /\ Coherent /\ Coherent'
  BY BoundAssumption DEF OrderIds, Covered
<1>1. ASSUME NEW k \in Keys PROVE holding'[k].old.quantity = holding[k].old.quantity
  <2>1. \A o \in 1 .. MaxCalls : Moves(s, k)[o] = 0
    BY <1>0 DEF Moves
  <2>2. Total(Moves(s, k), MaxCalls) = 0
    BY <1>0, <2>1, CommitPositions, TotalTypes
  <2>3. holding[k].old.quantity \in Nat
    BY <1>0 DEF Coherent, TypeOK, Row, Holding
  <2>4. holding'[k].old.quantity = holding[k].old.quantity + Total(Moves(s, k), MaxCalls)
    BY <1>0, CommitPositions
  <2> QED BY <2>2, <2>3, <2>4
<1>2. ASSUME NEW u \in Users
      PROVE  wallet'[u].old.balance =
               wallet[u].old.balance + IF wallet[u].lock = s /\ tx[s].user = u THEN tx[s].amount ELSE 0
  <2>1. \A o \in 1 .. MaxCalls : Gains(s, u)[o] = 0
    BY <1>0 DEF Gains
  <2>2. Total(Gains(s, u), MaxCalls) = 0
    BY <1>0, <2>1, CommitCash, TotalTypes
  <2>3. wallet[u].old.balance \in Int /\ tx[s].amount \in Int
    BY <1>0, FundTypes, StepFacts DEF Coherent, Transaction
  <2>4. wallet'[u].old.balance =
          wallet[u].old.balance + Total(Gains(s, u), MaxCalls)
            + IF wallet[u].lock = s /\ tx[s].user = u THEN tx[s].amount ELSE 0
    BY <1>0, CommitCash
  <2> QED BY <2>2, <2>3, <2>4
<1>3. tx[s].user = None => \A u \in Users : wallet'[u].old.balance = wallet[u].old.balance
  <2>1. \A u \in Users : u # None /\ wallet[u].old.balance \in Int
    BY <1>0, FundTypes, SessionAssumption
  <2> QED BY <1>2, <2>1
<1>4. Positions' = Positions
  BY <1>1 DEF Positions
<1>5. tx[s].user = None => Balances' = Balances
  BY <1>3 DEF Balances
<1>6. \A u \in Users :
        Balances'[u] = Balances[u] + IF wallet[u].lock = s /\ tx[s].user = u THEN tx[s].amount ELSE 0
  BY <1>2 DEF Balances
<1> QED BY <1>4, <1>5, <1>6

\* What the book shows of an order depends on its committed row, and on whether a
\* matcher has it in hand when it has expired.
LEMMA SameShown ==
  ASSUME NEW o, orders'[o].old = orders[o].old,
         orders[o].old.status = "cancelled" => (InHand(o)' <=> InHand(o))
  PROVE  Shown(o)' = Shown(o)
BY DEF Shown

\* A step of s changes what matchers have in hand at most if s is one.
LEMMA OthersInHand ==
  ASSUME NEW s \in Sessions, Steps(s), LeavesOthers(OrderIds, orders, orders', s), NEW o \in OrderIds,
         s \in Matchers =>
           (o \in tx'[s].todo \/ orders'[o].lock = s <=> o \in tx[s].todo \/ orders[o].lock = s)
  PROVE  InHand(o)' <=> InHand(o)
<1>1. ASSUME NEW m \in Matchers
      PROVE  (o \in tx'[m].todo \/ orders'[o].lock = m) <=> (o \in tx[m].todo \/ orders[o].lock = m)
  <2>1. CASE m = s
    BY <2>1
  <2>2. CASE m # s
    <3>1. m \in Sessions \ {s}
      BY <2>2 DEF Sessions
    <3>2. tx'[m] = tx[m] /\ (orders'[o].lock = m <=> orders[o].lock = m)
      BY <3>1 DEF Steps, LeavesOthers
    <3> QED BY <3>2
  <2> QED BY <2>1, <2>2
<1> QED BY <1>1 DEF InHand

\* A commit shows the rows the transaction has written: an order that was filled, placed
\* or has expired, unless a matcher still has it in hand.
LEMMA CommitBook ==
  ASSUME Coherent, Deals, NEW s \in Sessions, Commit(s)
  PROVE  Book' = [o \in OrderIds |-> IF orders[o].lock # s \/ (s \in Expirers /\ InHand(o))
                                     THEN Book[o] ELSE Entry(orders[o].new)]
<1>1. /\ orders \in [OrderIds -> Row(Order \cup {NoOrder})] /\ orders' = Keep(orders, s)
      /\ tx \in [Sessions -> Transaction] /\ tx' = [tx EXCEPT ![s] = Idle] /\ tx[s].pc = "next"
      /\ tx[s].todo = {} /\ Deal(s) /\ tx'[s] = Idle /\ Steps(s)
  BY DEF Coherent, TypeOK, Commit, Deals, Steps
<1>2. LeavesOthers(OrderIds, orders, orders', s)
  BY <1>1, OthersRows
<1>3. ASSUME NEW o \in OrderIds, orders[o].lock # s PROVE Shown(o)' = Shown(o)
  <2>1. orders'[o] = orders[o]
    BY <1>1, <1>3, EndedRows
  <2>2. InHand(o)' <=> InHand(o)
    BY <1>1, <1>2, <1>3, <2>1, OthersInHand DEF Idle
  <2> QED BY <2>1, <2>2, SameShown
<1>4. ASSUME NEW o \in OrderIds, orders[o].lock = s
      PROVE  Shown(o)' = IF s \in Expirers /\ InHand(o) THEN Shown(o) ELSE Entry(orders[o].new)
  <2>1. orders'[o].old = orders[o].new /\ orders'[o].lock = None
    BY <1>1, <1>4, EndedRows, FreshRows
  <2>2. CASE s \in Expirers
    <3>1. Expired(o) /\ s \notin Matchers
      BY <1>1, <1>4, <2>2, SessionRoles DEF Deal
    <3>2. InHand(o)' <=> InHand(o)
      BY <1>1, <1>2, <3>1, OthersInHand
    <3>3. Shown(o) = [status |-> "open", request |-> Asked(orders[o].old)]
      BY <3>1 DEF Expired, Shown, Entry
    <3>4. Shown(o)' = IF InHand(o) THEN [status |-> "open", request |-> Asked(orders[o].new)]
                      ELSE Entry(orders[o].new)
      BY <2>1, <3>1, <3>2 DEF Expired, Shown
    <3>5. Asked(orders[o].new) = Asked(orders[o].old)
      BY <3>1 DEF Expired
    <3> QED BY <2>2, <3>3, <3>4, <3>5
  <2>3. CASE s \notin Expirers
    <3>1. orders[o].new.status # "cancelled"
      BY <1>1, <1>4, <2>3, SessionRoles DEF Deal, Placed, Matched, Filling
    <3> QED BY <2>1, <2>3, <3>1 DEF Shown
  <2> QED BY <2>2, <2>3
<1> QED BY <1>3, <1>4 DEF Book

\* The committed rows change as B!vars says.
SameBooks == UNCHANGED <<Balances, Positions, Book>>

LEMMA CommitMoves ==
  ASSUME Covered, Covered', Once, Once', Balanced, Balanced', Deals, Funded,
         NEW s \in Sessions, Commit(s), tx[s].user # None
  PROVE  B!Step \/ SameBooks
<1> PICK u : u = tx[s].user
  OBVIOUS
<1> PICK x : x = tx[s].amount
  OBVIOUS
<1>0. Coherent /\ Coherent' /\ Deal(s)
  BY DEF Covered, Deals
<1>1. u \in Users /\ x \in Amounts /\ \A o \in OrderIds : orders[o].lock # s
  BY <1>0, StepFacts DEF Deal, Coherent, Transaction
<1>2. Ended(s) = {}
  BY <1>1 DEF Ended
<1>3. Book' = Book
  BY <1>0, <1>1, CommitBook DEF Book
<1>4. /\ Positions' = Positions
      /\ \A v \in Users : Balances'[v] = Balances[v] + IF wallet[v].lock = s /\ u = v THEN x ELSE 0
  BY <1>2, NothingFilled
<1>5. \A v \in Users : Balances[v] \in Int /\ Balances'[v] \in 0 .. MaxBalance
  BY <1>0, FundTypes DEF Coherent, TypeOK, Row, Wallet, Balances
<1>6. Balances = [v \in Users |-> Balances[v]] /\ Balances' = [v \in Users |-> Balances'[v]]
  BY DEF Balances
<1>7. CASE wallet[u].lock = s
  <2>1. Balances' = [Balances EXCEPT ![u] = Balances[u] + x]
    BY <1>4, <1>5, <1>6, <1>7
  <2>2. Balances[u] + x \in 0 .. MaxBalance
    BY <1>1, <1>4, <1>5, <1>7
  <2>3. B!Move(u, x)
    BY <1>3, <1>4, <2>1, <2>2 DEF B!Move
  <2> QED BY <1>1, <2>3 DEF B!Step
<1>8. CASE wallet[u].lock # s
  BY <1>3, <1>4, <1>5, <1>6, <1>8 DEF SameBooks
<1> QED BY <1>7, <1>8

\* What the book says of a row.
LEMMA Entries ==
  ASSUME NEW r
  PROVE  /\ r.status = "none" => Entry(r) = B!Unused
         /\ r.status = "open" => Entry(r) = B!Open(Asked(r))
         /\ r.status = "cancelled" => Entry(r) = B!Cancelled(Asked(r))
         /\ r.status = "filled" => Entry(r) = B!Filled(Asked(r), r.trades[1].price)
<1>1. r.status = "none" => Entry(r) = B!Unused
  BY DEF Entry, B!Unused
<1>2. r.status = "open" => Entry(r) = B!Open(Asked(r))
  BY DEF Entry, B!Open
<1>3. r.status = "cancelled" => Entry(r) = B!Cancelled(Asked(r))
  BY DEF Entry, B!Cancelled
<1>4. r.status = "filled" => Entry(r) = B!Filled(Asked(r), r.trades[1].price)
  BY DEF Entry, B!Filled
<1> QED BY <1>1, <1>2, <1>3, <1>4

LEMMA CommitPlaces ==
  ASSUME Covered, Covered', Once, Once', Balanced, Balanced', Deals, Funded,
         NEW s \in Web, Commit(s), tx[s].user = None
  PROVE  B!Step \/ SameBooks
<1>0. /\ Coherent /\ s \in Sessions /\ Deal(s) /\ tx[s].pc = "next"
      /\ orders \in [OrderIds -> Row(Order \cup {NoOrder})] /\ B!OrderIds = OrderIds
  BY DEF Covered, Deals, Sessions, Commit, Coherent, TypeOK, B!OrderIds, OrderIds
<1>1. CASE \A o \in OrderIds : orders[o].lock # s
  <2>1. Ended(s) = {}
    BY <1>1 DEF Ended
  <2>2. Book' = Book
    BY <1>0, <1>1, CommitBook DEF Book
  <2> QED BY <1>0, <2>1, <2>2, NothingFilled DEF SameBooks
<1>2. ASSUME NEW o \in OrderIds, orders[o].lock = s PROVE B!Step
  <2> PICK r : r = orders[o].new
    OBVIOUS
  <2>1. Placed(s, o) /\ (\A q \in OrderIds : orders[q].lock = s => q = o) /\ orders[o].old = NoOrder
    BY <1>0, <1>2 DEF Deal, Once, RowOnce
  <2>2. r \in Order
    BY <1>0, <2>1 DEF Placed, Row, NoOrder
  <2>3. Asked(r) \in AllRequests /\ Asked(r).kind = r.kind
    BY <2>2 DEF Asked, AllRequests, Order
  <2>4. Book[o] = B!Unused
    BY <2>1, Entries DEF Book, Shown, NoOrder
  <2>5. Book' = [Book EXCEPT ![o] = Entry(r)]
    <3>1. s \notin Expirers
      BY <1>0, SessionRoles
    <3>2. Book' = [q \in OrderIds |-> IF q = o THEN Entry(r) ELSE Book[q]]
      BY <1>0, <1>2, <2>1, <3>1, CommitBook
    <3> QED BY <3>2 DEF Book
  <2>6. CASE r.status = "open" /\ r.kind # "market"
    <3>1. Ended(s) = {}
      BY <2>1, <2>6 DEF Ended, Settled
    <3>2. Balances' = Balances /\ Positions' = Positions
      BY <1>0, <3>1, NothingFilled
    <3>3. B!Submit(o, Asked(r))
      BY <2>3, <2>4, <2>5, <2>6, <3>2, Entries DEF B!Submit
    <3> QED BY <1>0, <2>3, <3>3 DEF B!Step
  <2>7. CASE /\ r.status = "filled" /\ r.kind = "market"
             /\ r.price \in Prices /\ r.trades[1].price = r.price
    <3>1. Ended(s) = {o}
      BY <1>2, <2>1, <2>7 DEF Ended, Settled, NoOrder
    <3> DEFINE f == [x \in {o} |-> Asked(r)]
    <3>2. \A x \in Ended(s) : f[x] = Asked(orders[x].new) /\ orders[x].new.price = r.price
      BY <3>1
    <3> HIDE DEF f
    <3>3. B!Exchanged(Ended(s), f, r.price)
      BY <1>0, <2>7, <3>2, CommitExchanges
    <3>4. B!Trade(o, Asked(r), r.price)
      BY <2>3, <2>4, <2>5, <2>7, <3>1, <3>3, Entries DEF B!Trade, f
    <3> QED BY <1>0, <2>3, <2>7, <3>4 DEF B!Step
  <2> QED BY <1>0, <2>1, <2>6, <2>7 DEF Placed, Filling
<1> QED BY <1>1, <1>2

LEMMA CommitMatches ==
  ASSUME Covered, Covered', Once, Once', Balanced, Balanced', Deals, Funded,
         NEW s \in Matchers, Commit(s), tx[s].user = None
  PROVE  B!Step \/ SameBooks
<1> PICK p : p = tx[s].price
  OBVIOUS
<1> PICK F : F = Ended(s)
  OBVIOUS
<1>0. /\ Coherent /\ s \in Sessions /\ Deal(s) /\ tx[s].pc = "next" /\ p \in Prices \cup {None}
      /\ B!OrderIds = OrderIds
  BY StepFacts DEF Covered, Deals, Sessions, Commit, Coherent, Transaction, B!OrderIds, OrderIds
<1>1. ASSUME NEW o \in OrderIds, orders[o].lock = s
      PROVE  /\ o \in F /\ p # None /\ orders[o].old.status \in {"open", "cancelled"}
             /\ orders[o].old.asset = tx[s].asset
             /\ Triggered(orders[o].old, p) /\ Asked(orders[o].new) = Asked(orders[o].old)
             /\ orders[o].new.price = p /\ orders[o].new.status = "filled"
             /\ orders[o].new.trades[1].price = p
  BY <1>0, <1>1 DEF Deal, Matched, Found, Filling, Ended, Settled
<1>2. \A o \in OrderIds : o \in F <=> orders[o].lock = s
  BY <1>1 DEF Ended
<1>3. F \subseteq OrderIds
  BY DEF Ended
<1>4. ASSUME NEW o \in F
      PROVE  /\ Book[o] = B!Open(Asked(orders[o].old)) /\ Book[o].request = Asked(orders[o].old)
             /\ Book[o].status = "open"
             /\ Entry(orders[o].new) = B!Filled(Book[o].request, p)
  <2>1. /\ orders[o].old.status \in {"open", "cancelled"} /\ orders[o].new.status = "filled"
        /\ o \in OrderIds /\ InHand(o)
    BY <1>1, <1>2, <1>3 DEF InHand
  <2>2. Book[o] = B!Open(Asked(orders[o].old))
    BY <2>1, Entries DEF Book, Shown, B!Open
  <2>3. Book[o].request = Asked(orders[o].old) /\ Book[o].status = "open"
    BY <2>2 DEF B!Open
  <2>4. Entry(orders[o].new) = B!Filled(Asked(orders[o].new), orders[o].new.trades[1].price)
    BY <2>1, Entries
  <2>5. Entry(orders[o].new) = B!Filled(Book[o].request, p)
    BY <1>1, <1>2, <1>3, <2>3, <2>4
  <2> QED BY <2>2, <2>3, <2>5
<1>5. Book' = [o \in OrderIds |-> IF o \in F THEN B!Filled(Book[o].request, p) ELSE Book[o]]
  <2>1. \A o \in OrderIds : (IF orders[o].lock # s \/ (s \in Expirers /\ InHand(o))
                             THEN Book[o] ELSE Entry(orders[o].new))
                              = (IF o \in F THEN B!Filled(Book[o].request, p) ELSE Book[o])
    BY <1>0, <1>2, <1>4, SessionRoles
  <2> QED BY <1>0, <2>1, CommitBook
<1>6. CASE F = {}
  <2>1. Book' = Book
    BY <1>5, <1>6 DEF Book
  <2> QED BY <1>0, <1>6, <2>1, NothingFilled DEF SameBooks
<1>7. CASE F # {}
  <2>1. p \in Prices
    BY <1>0, <1>1, <1>2, <1>3, <1>7
  <2>2. ASSUME NEW o \in F
        PROVE  Book[o].request.asset = tx[s].asset /\ B!Accepts(Book[o].request, p)
    <3>1. Triggered(orders[o].old, p) /\ orders[o].old.asset = tx[s].asset
      BY <1>1, <1>2, <1>3
    <3>2. Book[o].request = Asked(orders[o].old)
      BY <1>4
    <3>3. B!Accepts(Asked(orders[o].old), p) /\ Asked(orders[o].old).asset = tx[s].asset
      BY <3>1 DEF Triggered, B!Accepts, Asked
    <3> QED BY <3>2, <3>3
  <2> DEFINE f == [o \in F |-> Book[o].request]
  <2>3. \A o \in Ended(s) : f[o] = Asked(orders[o].new) /\ orders[o].new.price = p
    BY <1>1, <1>2, <1>3, <1>4
  <2> HIDE DEF f
  <2>4. B!Exchanged(F, f, p)
    BY <1>0, <2>1, <2>3, CommitExchanges
  <2>5. B!Settle(F, p)
    BY <1>0, <1>4, <1>5, <1>7, <2>2, <2>4 DEF B!Settle, f
  <2> QED BY <1>0, <1>3, <2>1, <2>5 DEF B!Step
<1> QED BY <1>6, <1>7

LEMMA CommitExpires ==
  ASSUME Covered, Covered', Once, Once', Balanced, Balanced', Deals, Funded,
         NEW s \in Expirers, Commit(s), tx[s].user = None
  PROVE  B!Step \/ SameBooks
<1> PICK F : F = {o \in OrderIds : orders[o].lock = s /\ ~InHand(o)}
  OBVIOUS
<1>0. Coherent /\ s \in Sessions /\ Deal(s) /\ B!OrderIds = OrderIds
  BY DEF Covered, Deals, Sessions, B!OrderIds, OrderIds
<1>1. \A o \in OrderIds : orders[o].lock = s => Expired(o)
  BY <1>0 DEF Deal
<1>2. Ended(s) = {}
  BY <1>1 DEF Ended, Settled, Expired
<1>3. Balances' = Balances /\ Positions' = Positions
  BY <1>0, <1>2, NothingFilled
<1>4. ASSUME NEW o \in F
      PROVE  Book[o].status = "open" /\ Entry(orders[o].new) = B!Cancelled(Book[o].request)
  <2>1. /\ orders[o].old.status = "open" /\ orders[o].new.status = "cancelled"
        /\ Asked(orders[o].new) = Asked(orders[o].old)
    BY <1>1 DEF Expired
  <2>2. Book[o] = B!Open(Asked(orders[o].old))
    BY <2>1, Entries DEF Book, Shown
  <2>3. Book[o].request = Asked(orders[o].old) /\ Book[o].status = "open"
    BY <2>2 DEF B!Open
  <2> QED BY <2>1, <2>3, Entries
<1>5. Book' = [o \in OrderIds |-> IF o \in F THEN B!Cancelled(Book[o].request) ELSE Book[o]]
  <2>1. \A o \in OrderIds : (IF orders[o].lock # s \/ (s \in Expirers /\ InHand(o))
                             THEN Book[o] ELSE Entry(orders[o].new))
                              = (IF o \in F THEN B!Cancelled(Book[o].request) ELSE Book[o])
    BY <1>4
  <2> QED BY <1>0, <2>1, CommitBook
<1>6. CASE F = {}
  <2>1. Book' = Book
    BY <1>5, <1>6 DEF Book
  <2> QED BY <1>3, <2>1 DEF SameBooks
<1>7. CASE F # {}
  <2>1. B!Cancel(F)
    BY <1>0, <1>3, <1>4, <1>5, <1>7 DEF B!Cancel
  <2> QED BY <1>0, <2>1 DEF B!Step
<1> QED BY <1>6, <1>7

\* Any other step leaves the committed rows alone.
SameOld(K, R, Q) == \A k \in K : Q[k].old = R[k].old
OldRowsKept == /\ SameOld(Users, wallet, wallet') /\ SameOld(Keys, holding, holding')
               /\ SameOld(OrderIds, orders, orders')

LEMMA OtherSteps ==
  ASSUME Coherent, Once, NEW s \in Sessions, Covered,
         Rest(s) \/ Rewrites(s) \/ Rollback(s) \/ MoveCash(s) \/ UpdatePortfolio(s) \/ UpdateWallet(s)
  PROVE  OldRowsKept
<1> USE DEF SameOld
<1>0. /\ wallet \in [Users -> Row(Wallet)] /\ holding \in [Keys -> Row(Holding)]
      /\ orders \in [OrderIds -> Row(Order \cup {NoOrder})]
  BY DEF Coherent, TypeOK
<1>1. ASSUME SameOld(Users, wallet, wallet'), SameOld(Keys, holding, holding'), SameOld(OrderIds, orders, orders')
      PROVE  OldRowsKept
  BY <1>1 DEF OldRowsKept
<1>2. CASE Rollback(s)
  <2>1. SameOld(Users, wallet, wallet')
    BY <1>0, <1>2, EndedRows, FreshRows DEF Rollback
  <2>2. SameOld(Keys, holding, holding')
    BY <1>0, <1>2, EndedRows, FreshRows DEF Rollback
  <2>3. SameOld(OrderIds, orders, orders')
    BY <1>0, <1>2, EndedRows, FreshRows DEF Rollback
  <2> QED BY <1>1, <2>1, <2>2, <2>3
<1>3. CASE Rest(s)
  BY <1>1, <1>3 DEF Rest, SameRows
<1>4. CASE Rewrites(s)
  <2>1. PICK n \in OrderIds : \E v \in Order : orders' = Write(orders, n, s, v)
    BY <1>4 DEF Rewrites
  <2>2. SameOld(OrderIds, orders, orders')
    BY <1>0, <2>1, WrittenRows
  <2> QED BY <1>1, <1>4, <2>2 DEF Rewrites
<1>5. CASE MoveCash(s) /\ ~Rollback(s)
  <2>1. /\ \E u \in Users : \E w \in Wallet : wallet' = Write(wallet, u, s, w)
        /\ UNCHANGED <<holding, orders>>
    BY <1>5, CashMoves
  <2>2. SameOld(Users, wallet, wallet')
    BY <1>0, <2>1, WrittenRows
  <2> QED BY <1>1, <2>1, <2>2
<1>6. CASE UpdatePortfolio(s) /\ ~Rollback(s)
  <2>1. /\ \E k \in Keys : \E h \in Holding : holding' = Write(holding, k, s, h)
        /\ UNCHANGED <<wallet, orders>>
    <3> DEFINE o == orders[tx[s].order].new
               k == <<o.user, o.asset>>
               g == Traded(o, holding[k].new, tx[s].start)
    <3>1. k \in Keys /\ g \in Holding /\ holding' = Write(holding, k, s, g) /\ UNCHANGED <<wallet, orders>>
      BY <1>6, PositionTrades
    <3> HIDE DEF k, g
    <3> QED BY <3>1
  <2>2. SameOld(Keys, holding, holding')
    BY <1>0, <2>1, WrittenRows
  <2> QED BY <1>1, <2>1, <2>2
<1>7. CASE UpdateWallet(s) /\ ~Rollback(s)
  <2>1. /\ \E u \in Users : \E w \in Wallet : wallet' = Write(wallet, u, s, w)
        /\ \E n \in OrderIds : \E v \in Order : orders' = Write(orders, n, s, v)
        /\ UNCHANGED holding
    <3> DEFINE n == tx[s].order
               o == orders[n].new
               b == wallet[o.user].new.balance + Proceeds(o)
               w == [balance |-> b, audit |-> Audited(wallet[o.user].new, b, tx[s].start)]
               trade == [price |-> o.price, profit |-> tx[s].profit, booked |-> ProfitBooked(s)]
               v == [o EXCEPT !.status = "filled", !.trades = Append(@, trade)]
    <3>1. /\ n \in OrderIds /\ o \in Order /\ w \in Wallet /\ wallet' = Write(wallet, o.user, s, w)
          /\ v \in Order /\ orders' = Write(orders, n, s, v) /\ UNCHANGED holding
      BY <1>7, FillEnds
    <3>2. o.user \in Users
      BY <3>1 DEF Order
    <3> HIDE DEF o, v, w
    <3> QED BY <3>1, <3>2
  <2>2. SameOld(Users, wallet, wallet')
    BY <1>0, <2>1, WrittenRows
  <2>3. SameOld(OrderIds, orders, orders')
    BY <1>0, <2>1, WrittenRows
  <2> QED BY <1>1, <2>1, <2>2, <2>3
<1> QED BY <1>2, <1>3, <1>4, <1>5, <1>6, <1>7

\* None of them takes an order another transaction holds.
LEMMA OrdersHeld ==
  ASSUME Coherent, Once, NEW s \in Sessions, Covered,
         Rest(s) \/ Rewrites(s) \/ Rollback(s) \/ MoveCash(s) \/ UpdatePortfolio(s) \/ UpdateWallet(s)
  PROVE  LeavesOthers(OrderIds, orders, orders', s)
<1>1. orders \in [OrderIds -> Row(Order \cup {NoOrder})]
  BY DEF Coherent, TypeOK
<1>2. CASE Rollback(s)
  BY <1>1, <1>2, OthersRows DEF Rollback
<1>3. CASE UNCHANGED orders
  BY <1>1, <1>3, OthersRows
<1>4. ASSUME NEW n \in OrderIds, NEW v \in Order, Free(orders[n], s), orders' = Write(orders, n, s, v)
      PROVE  LeavesOthers(OrderIds, orders, orders', s)
  BY <1>1, <1>4, OthersRows
<1>5. CASE Rest(s)
  BY <1>3, <1>5 DEF Rest
<1>6. CASE Rewrites(s)
  BY <1>4, <1>6 DEF Rewrites
<1>7. CASE MoveCash(s) /\ ~Rollback(s)
  BY <1>3, <1>7, CashMoves
<1>8. CASE UpdatePortfolio(s) /\ ~Rollback(s)
  BY <1>3, <1>8, PositionTrades
<1>9. CASE UpdateWallet(s) /\ ~Rollback(s)
  <2> DEFINE n == tx[s].order
             o == orders[n].new
             trade == [price |-> o.price, profit |-> tx[s].profit, booked |-> ProfitBooked(s)]
             v == [o EXCEPT !.status = "filled", !.trades = Append(@, trade)]
  <2>1. n \in OrderIds /\ orders[n].lock = s /\ v \in Order /\ orders' = Write(orders, n, s, v)
    BY <1>9, FillEnds
  <2> HIDE DEF n, v
  <2> QED BY <1>4, <2>1 DEF Free
<1> QED BY <1>2, <1>5, <1>6, <1>7, <1>8, <1>9

\* A statement is invisible.
LEMMA StatementHidden ==
  ASSUME Covered, Once, NEW s \in Sessions, Steps(s), KeepsHand(s),
         Rest(s) \/ Rewrites(s) \/ MoveCash(s) \/ UpdatePortfolio(s) \/ UpdateWallet(s)
  PROVE  SameBooks
<1>1. OldRowsKept /\ LeavesOthers(OrderIds, orders, orders', s)
  BY OtherSteps, OrdersHeld DEF Covered
<1>2. ASSUME NEW o \in OrderIds PROVE Shown(o)' = Shown(o)
  <2>1. orders[o].old.status = "cancelled" => (InHand(o)' <=> InHand(o))
    BY <1>1, OthersInHand DEF KeepsHand
  <2>2. orders'[o].old = orders[o].old
    BY <1>1 DEF OldRowsKept, SameOld
  <2> QED BY <2>1, <2>2, SameShown
<1> QED BY <1>1, <1>2 DEF SameBooks, OldRowsKept, SameOld, Balances, Positions, Book

\* So is the end of a transaction that fails, unless a matcher has orders in hand that have
\* expired: it is what cancels them.
LEMMA FailureCancels ==
  ASSUME OneMatcher, Covered, Once, Deals, NEW s \in Sessions, Rollback(s)
  PROVE  B!Step \/ SameBooks
<1> PICK F : F = {o \in OrderIds : s \in Matchers /\ orders[o].old.status = "cancelled" /\ InHand(o)}
  OBVIOUS
<1>1. OldRowsKept /\ LeavesOthers(OrderIds, orders, orders', s)
  BY OtherSteps, OrdersHeld DEF Covered
<1>2. Balances' = Balances /\ Positions' = Positions /\ \A o \in OrderIds : orders'[o].old = orders[o].old
  BY <1>1 DEF OldRowsKept, SameOld, Balances, Positions
<1>3. /\ Steps(s) /\ tx'[s].todo = {} /\ \A o \in OrderIds : orders'[o].lock # s
  <2>1. /\ tx \in [Sessions -> Transaction] /\ orders \in [OrderIds -> Row(Order \cup {NoOrder})]
        /\ orders' = Undo(orders, s) /\ tx' = [tx EXCEPT ![s] = Idle]
    BY DEF Covered, Coherent, TypeOK, Rollback
  <2>2. \A o \in OrderIds : orders'[o] = IF orders[o].lock = s THEN Fresh(orders[o].old) ELSE orders[o]
    BY <2>1, EndedRows
  <2>3. \A o \in OrderIds : orders'[o].lock # s
    BY <2>2, FreshRows, SessionAssumption
  <2> QED BY <2>1, <2>3 DEF Steps, Idle
<1>4. ASSUME NEW o \in OrderIds \ F PROVE Shown(o)' = Shown(o)
  <2>1. CASE s \notin Matchers
    BY <1>1, <1>2, <1>3, <2>1, OthersInHand, SameShown
  <2>2. CASE s \in Matchers
    <3>1. orders[o].old.status = "cancelled" => ~InHand(o)
      BY <1>4, <2>2
    <3>2. \A m \in Matchers : m = s
      BY <2>2 DEF OneMatcher
    <3>3. ~InHand(o)'
      BY <1>3, <3>2 DEF InHand
    <3> QED BY <1>2, <3>1, <3>3, SameShown
  <2> QED BY <2>1, <2>2
<1>5. ASSUME NEW o \in F
      PROVE  /\ o \in OrderIds /\ Book[o] = B!Open(Asked(orders[o].old))
             /\ Shown(o)' = B!Cancelled(Asked(orders[o].old))
  <2>1. s \in Matchers /\ o \in OrderIds /\ orders[o].old.status = "cancelled" /\ InHand(o)
    BY <1>5
  <2>2. ~InHand(o)'
    BY <1>3, <2>1 DEF InHand, OneMatcher
  <2>3. Shown(o)' = Entry(orders[o].old)
    BY <1>2, <2>1, <2>2 DEF Shown
  <2> QED BY <2>1, <2>3, Entries DEF Book, Shown, B!Open
<1>6. B!OrderIds = OrderIds
  BY DEF B!OrderIds, OrderIds
<1>7. CASE F = {}
  BY <1>2, <1>4, <1>7 DEF SameBooks, Book
<1>8. CASE F # {}
  <2>1. ASSUME NEW o \in F PROVE Book[o].status = "open" /\ Shown(o)' = B!Cancelled(Book[o].request)
    <3>1. Book[o] = B!Open(Asked(orders[o].old)) /\ Shown(o)' = B!Cancelled(Asked(orders[o].old))
      BY <1>5, <2>1
    <3>2. Book[o].status = "open" /\ Book[o].request = Asked(orders[o].old)
      BY <3>1 DEF B!Open
    <3> QED BY <3>1, <3>2
  <2>2. Book' = [o \in OrderIds |-> IF o \in F THEN B!Cancelled(Book[o].request) ELSE Book[o]]
    BY <1>4, <2>1 DEF Book
  <2>3. B!Cancel(F)
    BY <1>2, <1>6, <1>8, <2>1, <2>2 DEF B!Cancel
  <2>4. F \in SUBSET OrderIds
    OBVIOUS
  <2> QED BY <1>6, <2>3, <2>4 DEF B!Step
<1> QED BY <1>7, <1>8

LEMMA InitIsBrokerage == Init => B!Init
<1> SUFFICES ASSUME Init PROVE B!Init
  OBVIOUS
<1>1. Balances = Opening
  <2>1. \A u \in Users : wallet[u].old.balance = Opening[u]
    BY FreshRows DEF Init
  <2> QED BY <2>1, InitialAssumption DEF Balances
<1>2. Positions = [k \in Users \X Assets |-> Endowed[k].quantity]
  <2>1. \A k \in Keys : holding[k].old.quantity = Endowed[k].quantity
    BY FreshRows DEF Init
  <2> QED BY <2>1 DEF Positions, Keys
<1>3. Book = [o \in OrderIds |-> B!Unused]
  <2>1. \A o \in OrderIds : orders[o].old = NoOrder
    BY FreshRows DEF Init
  <2>2. Entry(NoOrder) = B!Unused
    BY Entries DEF NoOrder
  <2> QED BY <2>1, <2>2 DEF Book, Shown, NoOrder
<1> QED BY <1>1, <1>2, <1>3 DEF B!Init, B!OrderIds, OrderIds

LEMMA NextIsBrokerage ==
  ASSUME OneMatcher, Covered, Covered', Once, Once', Balanced, Balanced', Deals, Funded, [Next]_vars
  PROVE  B!Step \/ SameBooks
<1>1. ASSUME UNCHANGED <<rows, tx>> PROVE SameBooks
  BY <1>1 DEF rows, SameBooks, Balances, Positions, Book, Shown, InHand
<1>2. ASSUME NEW s \in Sessions, Commit(s) PROVE B!Step \/ SameBooks
  BY <1>2, SessionRoles, CommitMoves, CommitPlaces, CommitMatches, CommitExpires
<1>3. ASSUME NEW s \in Sessions, Rollback(s) PROVE B!Step \/ SameBooks
  BY <1>3, FailureCancels
<1>4. ASSUME NEW s \in Sessions, Steps(s), KeepsHand(s),
             Rest(s) \/ Rewrites(s) \/ MoveCash(s) \/ UpdatePortfolio(s) \/ UpdateWallet(s)
      PROVE  SameBooks
  BY <1>4, StatementHidden
<1>5. \/ UNCHANGED <<rows, tx>>
      \/ \E s \in Sessions :
           \/ Commit(s) \/ Rollback(s)
           \/ /\ Steps(s) /\ KeepsHand(s)
              /\ Rest(s) \/ Rewrites(s) \/ MoveCash(s) \/ UpdatePortfolio(s) \/ UpdateWallet(s)
  BY StatementDeals
<1> QED BY <1>1, <1>2, <1>3, <1>4, <1>5

\* What always holds, as far as one matcher at most is scheduled.
Standing == Covered /\ Once /\ Balanced /\ Deals /\ Funded

LEMMA AlwaysStanding == OneMatcher => (Spec => []Standing)
<1> SUFFICES ASSUME OneMatcher PROVE Spec => []Standing
  OBVIOUS
<1>1. Init => Standing
  BY InitCovered, InitOnce, InitBalanced, InitDeals, InitFunded DEF Standing
<1>2. Standing /\ [Next]_vars => Standing'
  BY NextCovered, NextOnce, NextBalanced, NextDeals, NextFunded DEF Standing, Covered, OneMatcher
<1> QED BY <1>1, <1>2, PTL DEF Spec

\* However transactions interleave, abort and crash, the exchange is a brokerage: every
\* commit is one of its steps (cash and shares move by what the orders that settle in it
\* say, each at a price it accepts and only once), and nothing else is visible but the
\* failure of a matching run, which lets the orders go that have expired under it.  One
\* process at most schedules the matcher; any number may schedule the expiry.
THEOREM ExchangeIsBrokerage ==
  ASSUME \A m, n \in Matchers : m = n
  PROVE  Spec => IsBrokerage
<1>0. OneMatcher
  BY DEF OneMatcher
<1>1. Spec => []Standing
  BY <1>0, AlwaysStanding
<1>2. Standing /\ Standing' /\ [Next]_vars => [B!Next]_(B!vars)
  <2> SUFFICES ASSUME Standing, Standing', [Next]_vars PROVE [B!Next]_(B!vars)
    OBVIOUS
  <2>1. B!Step \/ SameBooks
    BY <1>0, NextIsBrokerage DEF Standing
  <2>2. SameBooks <=> UNCHANGED B!vars
    BY DEF SameBooks, B!vars
  <2> QED BY <2>1, <2>2 DEF B!Next
<1>3. Init => B!Init
  BY InitIsBrokerage
<1> QED BY <1>1, <1>2, <1>3, PTL DEF Spec, IsBrokerage, B!Spec
=============================================================================
