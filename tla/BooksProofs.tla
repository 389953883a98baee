----------------------------- MODULE BooksProofs -----------------------------
(***************************************************************************)
(* What holds as long as at most one process schedules the matcher.  An    *)
(* order is filled once (FilledOnce) and stays as it is (FilledIsFinal, by *)
(* way of Once), and the books of the exchange add up (ExchangeBooks):     *)
(* positions agree with trades, the audit log with both, and the average   *)
(* price with what was paid (by way of Balanced and PaidUp).               *)
(***************************************************************************)
EXTENDS ExchangeProofs, ExchangeBooks, NaturalsInduction, WellFoundedInduction, FiniteSetTheorems

-----------------------------------------------------------------------------
(* One matcher fills an order once *)

\* An order row, committed or about to be, has a trade exactly when it is filled, and
\* nothing is written to a filled one.  The web only writes orders it is inserting, and
\* the expiry job adds no trade.
RowOnce(o) ==
  LET r == orders[o] IN
  /\ Len(r.old.trades) = IF r.old.status = "filled" THEN 1 ELSE 0
  /\ Len(r.new.trades) = IF r.new.status = "filled" THEN 1 ELSE 0
  /\ r.old.status = "filled" => r.new = r.old
  /\ r.lock \in Web => r.old = NoOrder
  /\ r.lock \in Expirers => Len(r.new.trades) = Len(r.old.trades)

\* The orders a transaction fills, or has found and will fill, have no trade yet; a
\* matcher that opens its cursor has no order in hand.
Untraded(o) == Len(orders[o].old.trades) = 0 /\ Len(orders[o].new.trades) = 0
TxOnce(s) ==
  /\ s \in Expirers => tx[s].pc \in {"idle", "next"}
  /\ tx[s].pc \in {"check", "portfolio", "wallet"} => Untraded(tx[s].order)
  /\ s \in Matchers => /\ \A o \in tx[s].todo : Untraded(o)
                       /\ tx[s].pc \in {"check", "portfolio", "wallet"} =>
                            tx[s].order \notin tx[s].todo
                       /\ tx[s].pc \in {"idle", "cursor"} =>
                            \A o \in OrderIds : orders[o].lock # s

Once == (\A o \in OrderIds : RowOnce(o)) /\ (\A s \in Sessions : TxOnce(s))

LEMMA InitOnce == Init => Once
<1> SUFFICES ASSUME Init PROVE Once
  OBVIOUS
<1>1. \A o \in OrderIds : RowOnce(o)
  BY SessionAssumption DEF Init, Fresh, NoOrder, RowOnce
<1>2. \A s \in Sessions : TxOnce(s)
  BY SessionAssumption DEF Init, Idle, Fresh, TxOnce
<1> QED BY <1>1, <1>2 DEF Once

\* Only the transaction of s changes.
Steps(s) == \A t \in Sessions \ {s} : tx'[t] = tx[t]

\* A step of s that leaves the orders as they are.
LEMMA SameOnce ==
  ASSUME Once, NEW s \in Sessions, Steps(s), UNCHANGED orders, TxOnce(s)'
  PROVE  Once'
<1>1. \A o \in OrderIds : RowOnce(o)'
  BY DEF Once, RowOnce
<1>2. \A t \in Sessions : TxOnce(t)'
  BY DEF Once, TxOnce, Untraded, Steps
<1> QED BY <1>1, <1>2 DEF Once

\* A step of s that writes v to order o.
LEMMA WriteOnce ==
  ASSUME Coherent, Once, NEW s \in Sessions, Steps(s), TxOnce(s)',
         NEW o \in OrderIds, NEW v \in Order, Free(orders[o], s),
         orders' = Write(orders, o, s, v),
         Len(v.trades) = IF v.status = "filled" THEN 1 ELSE 0,
         orders[o].old.status = "filled" => v = orders[o].old,
         s \in Web => orders[o].old = NoOrder,
         s \in Expirers => Len(v.trades) = Len(orders[o].old.trades),
         \A t \in Matchers \ {s} : o \in tx[t].todo => Len(v.trades) = 0
  PROVE  Once'
<1>1. orders \in [OrderIds -> Row(Order \cup {NoOrder})]
  BY DEF Coherent, TypeOK
<1>2. \A p \in OrderIds : /\ orders'[p].new = IF p = o THEN v ELSE orders[p].new
                          /\ orders'[p].old = orders[p].old
                          /\ orders'[p].lock = IF p = o THEN s ELSE orders[p].lock
  BY <1>1, WrittenRows
<1>3. ASSUME NEW p \in OrderIds PROVE RowOnce(p)'
  BY <1>2 DEF Once, RowOnce
<1>4. ASSUME NEW t \in Sessions \ {s} PROVE TxOnce(t)'
  <2>1. tx'[t] = tx[t] /\ TxOnce(t) /\ Ready(t) /\ tx[t] \in Transaction
    BY StepFacts DEF Steps, Once, Coherent, TxCoherent
  <2>2. calls <= MaxCalls /\ tx[t].todo \subseteq OrderIds
    BY <2>1, BoundAssumption DEF Coherent, TypeOK, Transaction
  <2>3. tx[t].pc \in {"check", "portfolio", "wallet"} => Untraded(tx[t].order)'
    <3>1. ASSUME tx[t].pc \in {"check", "portfolio", "wallet"}
          PROVE  tx[t].order \in OrderIds /\ tx[t].order # o
      <4>1. tx[t].order \in OrderIds /\ orders[tx[t].order].lock = t
        BY <2>1, <3>1, FillTypes DEF Ready
      <4> QED BY <4>1, SessionAssumption DEF Free
    <3> QED BY <1>2, <2>1, <3>1 DEF TxOnce, Untraded
  <2>4. t \in Matchers => \A p \in tx[t].todo : Untraded(p)'
    BY <1>2, <2>1, <2>2 DEF TxOnce, Untraded
  <2>5. \A p \in OrderIds : orders[p].lock # t => orders'[p].lock # t
    BY <1>2
  <2> QED BY <2>1, <2>3, <2>4, <2>5 DEF TxOnce
<1> QED BY <1>3, <1>4 DEF Once

\* The end of the transaction of s.
LEMMA EndOnce ==
  ASSUME Coherent, Once, NEW s \in Sessions, Steps(s), tx'[s] = Idle,
         orders' = Keep(orders, s) \/ orders' = Undo(orders, s)
  PROVE  Once'
<1>1. orders \in [OrderIds -> Row(Order \cup {NoOrder})]
  BY DEF Coherent, TypeOK
<1>2. ASSUME NEW p \in OrderIds
      PROVE  \/ orders'[p] = orders[p] /\ orders[p].lock # s
             \/ /\ orders'[p].new = orders'[p].old /\ orders'[p].lock = None
                /\ orders'[p].new \in {orders[p].new, orders[p].old}
  BY <1>1, EndedRows, FreshRows
<1>3. ASSUME NEW p \in OrderIds PROVE RowOnce(p)'
  BY <1>2, SessionAssumption DEF Once, RowOnce, Sessions
<1>4. ASSUME NEW p \in OrderIds, Untraded(p) PROVE Untraded(p)'
  BY <1>2, <1>4 DEF Untraded
<1>5. ASSUME NEW t \in Sessions \ {s} PROVE TxOnce(t)'
  <2>1. tx'[t] = tx[t] /\ TxOnce(t) /\ tx[t] \in Transaction
    BY StepFacts DEF Steps, Once, Coherent
  <2>2. tx[t].pc \in {"check", "portfolio", "wallet"} => tx[t].order \in OrderIds
    BY FillTypes
  <2>3. tx[t].todo \subseteq OrderIds
    BY <2>1 DEF Transaction
  <2>4. \A p \in OrderIds : orders[p].lock # t => orders'[p].lock # t
    BY <1>2, SessionAssumption
  <2> QED BY <1>4, <2>1, <2>2, <2>3, <2>4 DEF TxOnce
<1>6. TxOnce(s)'
  <2>1. \A p \in OrderIds : orders'[p].lock # s
    BY <1>2, SessionAssumption
  <2> QED BY <2>1 DEF Idle, TxOnce
<1> QED BY <1>3, <1>5, <1>6 DEF Once

LEMMA RollbackOnce == ASSUME Coherent, Once, NEW s \in Sessions, Rollback(s) PROVE Once'
<1>1. tx'[s] = Idle /\ Steps(s)
  BY DEF Rollback, Coherent, TypeOK, Steps
<1> QED BY <1>1, EndOnce DEF Rollback

LEMMA NextOnce ==
  ASSUME \A m, n \in Matchers : m = n, Coherent, Once, [Next]_vars
  PROVE  Once'
<1>1. ASSUME NEW s \in Sessions, Raise(s) PROVE Once'
  BY <1>1, RollbackOnce DEF Raise
<1>2. ASSUME NEW s \in Sessions, NEW t, tx' = [tx EXCEPT ![s] = t]
      PROVE  tx'[s] = t /\ Steps(s)
  BY <1>2 DEF Coherent, TypeOK, Steps
<1>3. \A s \in Sessions : tx[s] \in Transaction /\ TxOnce(s) /\ Ready(s)
  BY StepFacts DEF Coherent, TxCoherent, Once
<1>4. orders \in [OrderIds -> Row(Order \cup {NoOrder})]
  BY DEF Coherent, TypeOK
\* A statement of a transaction that leaves the orders, its todo and its order alone.
<1>5. ASSUME NEW s \in Sessions, UNCHANGED orders, Steps(s), tx[s].pc \notin {"idle", "cursor"},
             tx'[s].pc \in {"portfolio", "wallet", "check"} =>
               tx[s].pc \in {"portfolio", "wallet", "check"},
             tx'[s].pc \notin {"idle", "cursor"}, tx[s].pc \notin {"cash"} \/ tx'[s].pc = "next",
             s \in Expirers => tx'[s].pc = "next",
             tx'[s].order = tx[s].order, tx'[s].todo = tx[s].todo
      PROVE  Once'
  <2>1. TxOnce(s)'
    BY <1>3, <1>5 DEF TxOnce, Untraded
  <2> QED BY <1>5, <2>1, SameOnce
<1>6. ASSUME NEW s \in Web, Request(s) PROVE Once'
  <2>0. s \in Sessions /\ s \notin Matchers /\ s \notin Expirers
    BY SessionAssumption DEF Sessions
  <2>1. ASSUME NEW u \in Users, NEW amount \in Amounts, RequestCash(s, u, amount) PROVE Once'
    <3>1. /\ tx'[s] = [Idle EXCEPT !.pc = "cash", !.start = now, !.user = u, !.amount = amount]
          /\ Steps(s)
      BY <1>2, <2>0, <2>1 DEF RequestCash, Begin
    <3>2. TxOnce(s)'
      BY <2>0, <3>1 DEF TxOnce, Idle
    <3> QED BY <2>0, <2>1, <3>1, <3>2, SameOnce DEF RequestCash, rows
  <2>2. ASSUME NEW u \in Users, NEW a \in Assets, NEW side \in Sides,
               NEW kind \in Kinds, NEW q \in Quantities, NEW target \in Targets \cup {None},
               NEW expiry \in Expiries \cup {None},
               PlaceOrder(s, u, a, side, kind, q, target, expiry)
        PROVE  Once'
    <3> DEFINE o == calls + 1
               order == [status |-> "open", user |-> u, asset |-> a, side |-> side,
                         kind |-> kind, quantity |-> q,
                         price |-> IF target = None THEN cache[a] ELSE target,
                         target_price |-> target, expires_at |-> expiry,
                         created_at |-> now, trades |-> << >>]
               t == IF kind = "market" THEN [Idle EXCEPT !.pc = "check", !.start = now, !.order = o]
                                       ELSE [Idle EXCEPT !.pc = "next", !.start = now]
    <3>1. tx'[s] = t /\ Steps(s)
      BY <1>2, <2>0, <2>2 DEF PlaceOrder, Begin
    <3>2. o \in OrderIds /\ orders[o] = Fresh(NoOrder)
      <4>1. calls \in Nat /\ o \in OrderIds /\ o > calls
        BY <2>2, StepFacts, BoundAssumption DEF PlaceOrder, Coherent, TypeOK, OrderIds
      <4> QED BY <4>1 DEF Coherent, RowsCoherent
    <3>3. order \in Order
      <4>1. cache[a] \in (Nat \ {0}) \cup {None} /\ Targets \subseteq Nat \ {0} /\ now \in Nat
        BY InputAssumption, StepFacts DEF Coherent, TypeOK
      <4>2. (IF target = None THEN cache[a] ELSE target) \in Nat \ {0}
        BY <2>2, <4>1 DEF PlaceOrder
      <4> QED BY <4>1, <4>2 DEF Order
    <3>4. orders' = Write(orders, o, s, order) /\ Len(order.trades) = 0 /\ order.status = "open"
      BY <2>2 DEF PlaceOrder
    <3>6. t.pc \in {"check", "next"} /\ (t.pc = "check" => t.order = o)
      BY DEF Idle
    <3> HIDE DEF o, order, t
    <3>5. orders'[o].new = order /\ orders'[o].old = NoOrder
      BY <1>4, <2>0, <3>2, <3>3, <3>4, WrittenRows, FreshRows
    <3>7. TxOnce(s)'
      BY <2>0, <3>1, <3>4, <3>5, <3>6 DEF TxOnce, Untraded, NoOrder
    <3>8. \A m \in Matchers : o \in tx[m].todo => FALSE
      BY <1>3, <3>2, FreshRows DEF Ready, Sessions
    <3>9. Free(orders[o], s) /\ orders[o].old = NoOrder /\ orders[o].old.status = "none"
      BY <3>2, FreshRows DEF Free, NoOrder
    <3> QED BY <2>0, <3>1, <3>2, <3>3, <3>4, <3>7, <3>8, <3>9, WriteOnce
  <2> QED BY <1>6, <2>1, <2>2 DEF Request
<1>7. ASSUME NEW s \in Sessions, MoveCash(s) PROVE Once'
  <2>1. CASE /\ tx' = [tx EXCEPT ![s].pc = "next"]
             /\ UNCHANGED <<holding, orders, cache, now, left, calls, crashes>>
    <3>1. tx[s].pc = "cash"
      BY <1>7 DEF MoveCash
    <3>2. Steps(s) /\ tx'[s].pc = "next" /\ tx'[s].order = tx[s].order /\ tx'[s].todo = tx[s].todo
      BY <1>3, <2>1 DEF Steps, Coherent, TypeOK, Transaction
    <3> QED BY <1>5, <2>1, <3>1, <3>2
  <2> QED BY <1>1, <1>7, <2>1 DEF MoveCash
<1>8. ASSUME NEW s \in Sessions, CheckFunds(s) \/ WaitForHolding(s) \/ CheckHolding(s) \/ UpdatePortfolio(s)
      PROVE  Once'
  <2>1. tx[s].pc \in {"check", "portfolio"} /\ s \notin Expirers
    BY <1>3, <1>8 DEF CheckFunds, WaitForHolding, CheckHolding, UpdatePortfolio, TxOnce
  <2>2. \/ Raise(s)
        \/ /\ UNCHANGED orders /\ Steps(s) /\ tx'[s].pc \in {"check", "portfolio", "wallet"}
           /\ tx'[s].order = tx[s].order /\ tx'[s].todo = tx[s].todo
    <3>1. CASE CheckFunds(s)
      BY <1>3, <3>1 DEF CheckFunds, Steps, Coherent, TypeOK, Transaction
    <3>2. CASE WaitForHolding(s)
      BY <1>3, <2>1, <3>2 DEF WaitForHolding, rows, Steps, Coherent, TypeOK, Transaction
    <3>3. CASE CheckHolding(s)
      BY <1>3, <3>3 DEF CheckHolding, Steps, Coherent, TypeOK, Transaction
    <3>4. CASE UpdatePortfolio(s)
      <4>1. CASE Raise(s)
        BY <4>1
      <4>2. ASSUME NEW x, tx' = [tx EXCEPT ![s].pc = "wallet", ![s].seen = None, ![s].profit = x],
                   UNCHANGED orders
            PROVE  /\ Steps(s) /\ tx'[s].pc = "wallet"
                   /\ tx'[s].order = tx[s].order /\ tx'[s].todo = tx[s].todo
        BY <1>3, <4>2 DEF Steps, Coherent, TypeOK, Transaction
      <4> QED BY <3>4, <4>1, <4>2 DEF UpdatePortfolio
    <3> QED BY <1>8, <3>1, <3>2, <3>3, <3>4
  <2> QED BY <1>1, <1>5, <2>1, <2>2
<1>9. ASSUME NEW s \in Sessions, UpdateWallet(s) PROVE Once'
  <2> DEFINE n == tx[s].order
             o == TheOrder(s)
             trade == [price |-> o.price, profit |-> tx[s].profit, booked |-> ProfitBooked(s)]
             v == [o EXCEPT !.status = "filled", !.trades = Append(@, trade)]
  <2>1. CASE /\ orders' = Write(orders, n, s, v)
             /\ tx' = [tx EXCEPT ![s].pc = "next", ![s].order = None, ![s].profit = 0]
    <3>1. /\ tx[s].pc = "wallet" /\ n \in OrderIds /\ orders[n].lock = s
          /\ o = orders[n].new /\ o \in Order /\ s \notin Expirers
      BY <1>3, <1>9, FillTypes DEF UpdateWallet, Ready, TheOrder, TxOnce
    <3>2. v \in Order
      BY <3>1, FilledTypes
    <3>3. Len(v.trades) = 1 /\ v.status = "filled" /\ Len(orders[n].old.trades) = 0
      BY <1>3, <3>1 DEF TxOnce, Untraded, Order
    <3>4. tx'[s].pc = "next" /\ tx'[s].todo = tx[s].todo /\ Steps(s)
      BY <1>3, <2>1 DEF Steps, Coherent, TypeOK, Transaction
    <3> HIDE DEF v, o
    <3>5. \A p \in OrderIds \ {n} : orders'[p] = orders[p]
      BY <1>4, <2>1, <3>1, <3>2, WrittenRows
    <3>6. TxOnce(s)'
      <4>1. s \in Matchers => n \notin tx[s].todo /\ tx[s].todo \subseteq OrderIds
        BY <1>3, <3>1 DEF TxOnce, Transaction
      <4> QED BY <1>3, <3>1, <3>4, <3>5, <4>1 DEF TxOnce, Untraded
    <3>7. orders[n].old.status # "filled"
      BY <3>1, <3>3 DEF Once, RowOnce
    <3>8. s \in Web => orders[n].old = NoOrder
      BY <3>1 DEF Once, RowOnce
    <3>9. \A t \in Matchers \ {s} : n \notin tx[t].todo
      <4>1. CASE s \in Web
        BY <1>3, <3>8, <4>1 DEF Ready, Sessions
      <4> QED BY <3>1, <4>1 DEF Sessions
    <3> QED BY <2>1, <3>1, <3>2, <3>3, <3>4, <3>6, <3>7, <3>8, <3>9, WriteOnce DEF Free
  <2> QED BY <1>1, <1>9, <2>1 DEF UpdateWallet
<1>10. ASSUME NEW s \in Sessions, OpenCursor(s) PROVE Once'
  <2> DEFINE S == {o \in OrderIds : Matchable(orders[o].old, tx[s].asset, tx[s].start, tx[s].price)}
  <2>1. /\ tx' = [tx EXCEPT ![s].pc = "next", ![s].todo = S]
        /\ UNCHANGED orders /\ tx[s].pc = "cursor"
    BY <1>10 DEF OpenCursor, rows
  <2> HIDE DEF S
  <2>2. Steps(s) /\ tx'[s].pc = "next" /\ tx'[s].todo = S /\ tx'[s].order = tx[s].order
    BY <1>3, <2>1 DEF Steps, Coherent, TypeOK, Transaction
  <2> USE DEF S
  <2>3. ASSUME s \in Matchers, NEW o \in S PROVE Untraded(o)
    <3>1. o \in OrderIds /\ orders[o].old.status = "open"
      BY DEF Matchable, Live
    <3>2. Len(orders[o].old.trades) = 0 /\ orders[o].lock \notin Web
      BY <3>1 DEF Once, RowOnce, NoOrder
    <3>3. orders[o].lock \notin Matchers
      BY <1>3, <2>1, <2>3, <3>1 DEF TxOnce
    <3>4. CASE orders[o].lock = None
      BY <3>1, <3>2, <3>4 DEF Coherent, RowsCoherent, Untraded
    <3>5. CASE orders[o].lock \in Expirers
      BY <3>1, <3>2, <3>5 DEF Once, RowOnce, Untraded
    <3> QED BY <1>4, <3>1, <3>2, <3>3, <3>4, <3>5 DEF Row, Sessions
  <2> HIDE DEF S
  <2>4. s \in Matchers => \A o \in tx'[s].todo : Untraded(o)'
    BY <2>1, <2>2, <2>3 DEF Untraded
  <2>5. TxOnce(s)'
    BY <2>2, <2>4 DEF TxOnce
  <2> QED BY <2>1, <2>2, <2>5, SameOnce
<1>11. ASSUME NEW s \in Sessions, NextOrder(s) PROVE Once'
  <2>1. PICK o \in tx[s].todo :
          /\ s \in Matchers /\ tx[s].pc = "next" /\ Free(orders[o], s)
          /\ orders' = Write(orders, o, s, [orders[o].new EXCEPT !.price = tx[s].price])
          /\ tx' = [tx EXCEPT ![s].pc = "check", ![s].order = o, ![s].todo = @ \ {o}]
    BY <1>11 DEF NextOrder
  <2> DEFINE v == [orders[o].new EXCEPT !.price = tx[s].price]
  <2>2. s \notin Web /\ s \notin Expirers
    BY <2>1, SessionAssumption
  <2>3. o \in OrderIds /\ Untraded(o) /\ tx[s].price # None /\ tx[s].price \in Nat \ {0}
    BY <1>3, <2>1, InputAssumption DEF Transaction, TxOnce, Ready
  <2>4. orders[o].new \in Order
    BY <1>3, <1>4, <2>3 DEF Ready, Coherent, RowsCoherent, Row
  <2>5. v \in Order /\ v.trades = orders[o].new.trades /\ v.status = orders[o].new.status
    BY <1>3, <2>3, <2>4 DEF Order, Transaction
  <2>6. RowOnce(o) /\ orders[o].old.status # "filled"
    BY <2>3 DEF Once, RowOnce, Untraded
  <2>7. tx'[s].pc = "check" /\ tx'[s].order = o /\ tx'[s].todo = tx[s].todo \ {o} /\ Steps(s)
    BY <1>3, <2>1 DEF Steps, Coherent, TypeOK, Transaction
  <2> HIDE DEF v
  <2>8. \A p \in OrderIds : Untraded(p) => Untraded(p)'
    <3>1. \A p \in OrderIds : /\ orders'[p].new = IF p = o THEN v ELSE orders[p].new
                              /\ orders'[p].old = orders[p].old
      BY <1>4, <2>1, <2>3, <2>5, WrittenRows DEF v
    <3> QED BY <3>1, <2>5 DEF Untraded
  <2>9. TxOnce(s)'
    BY <1>3, <2>2, <2>3, <2>7, <2>8 DEF TxOnce, Transaction
  <2> QED BY <2>1, <2>2, <2>3, <2>5, <2>6, <2>7, <2>9, WriteOnce DEF Untraded, RowOnce, v
<1>12. ASSUME NEW s \in Sessions, ExpireOne(s) PROVE Once'
  <2>1. PICK o \in tx[s].todo :
          /\ s \in Expirers /\ tx[s].pc = "next" /\ Free(orders[o], s)
          /\ orders' = IF Stale(orders[o].new, tx[s].start)
                       THEN Write(orders, o, s, [orders[o].new EXCEPT !.status = "cancelled"])
                       ELSE orders
          /\ tx' = [tx EXCEPT ![s].todo = @ \ {o}]
    BY <1>12 DEF ExpireOne
  <2> DEFINE v == [orders[o].new EXCEPT !.status = "cancelled"]
  <2>2. s \notin Web /\ s \notin Matchers /\ o \in OrderIds
    BY <1>3, <2>1, SessionAssumption DEF Transaction
  <2>3. tx'[s].pc = "next" /\ Steps(s)
    BY <1>3, <2>1 DEF Steps, Coherent, TypeOK, Transaction
  <2>4. TxOnce(s)'
    BY <2>2, <2>3 DEF TxOnce
  <2>5. CASE ~Stale(orders[o].new, tx[s].start)
    BY <2>1, <2>3, <2>4, <2>5, SameOnce
  <2>6. CASE Stale(orders[o].new, tx[s].start)
    <3>1. orders[o].new \in Order /\ orders[o].new.status = "open"
      BY <1>3, <1>4, <2>2, <2>6 DEF Ready, Coherent, RowsCoherent, Row, Stale, NoOrder
    <3>2. v \in Order /\ v.trades = orders[o].new.trades /\ v.status = "cancelled"
      BY <3>1 DEF Order
    <3>3. RowOnce(o) /\ Len(orders[o].new.trades) = 0 /\ orders[o].old.status # "filled"
      BY <2>2, <3>1 DEF Once, RowOnce
    <3>4. Len(orders[o].old.trades) = 0
      BY <2>2, <3>3 DEF RowOnce
    <3> HIDE DEF v
    <3> QED BY <2>1, <2>2, <2>3, <2>4, <2>6, <3>2, <3>3, <3>4, WriteOnce DEF v
  <2> QED BY <2>5, <2>6
<1>13. ASSUME NEW s \in Sessions, Commit(s) PROVE Once'
  <2>1. tx'[s] = Idle /\ Steps(s)
    BY <1>2, <1>13 DEF Commit
  <2> QED BY <1>13, <2>1, EndOnce DEF Commit
<1>14. ASSUME NEW s \in Matchers, NEW a \in Assets, ReadPrice(s, a) PROVE Once'
  <2>0. s \in Sessions /\ s \notin Expirers
    BY SessionAssumption DEF Sessions
  <2>1. /\ tx'[s] = [Idle EXCEPT !.pc = IF cache[a] = None THEN "next" ELSE "cursor",
                                 !.start = now, !.asset = a, !.price = cache[a]]
        /\ Steps(s) /\ UNCHANGED orders /\ tx[s].pc = "idle"
    BY <1>2, <1>14, <2>0 DEF ReadPrice, Begin, rows
  <2>2. tx'[s].pc \in {"next", "cursor"} /\ tx'[s].todo = {}
    BY <2>1 DEF Idle
  <2>3. TxOnce(s)'
    BY <1>3, <2>0, <2>1, <2>2 DEF TxOnce
  <2> QED BY <2>0, <2>1, <2>3, SameOnce
<1>15. ASSUME NEW s \in Expirers, FindStale(s) PROVE Once'
  <2>0. s \in Sessions /\ s \notin Matchers
    BY SessionAssumption DEF Sessions
  <2>1. tx'[s].pc = "next" /\ Steps(s) /\ UNCHANGED orders
    BY <1>15, <2>0 DEF FindStale, Begin, rows, Coherent, TypeOK, Steps, Idle
  <2>2. TxOnce(s)'
    BY <2>0, <2>1 DEF TxOnce
  <2> QED BY <2>0, <2>1, <2>2, SameOnce
<1>16. ASSUME UNCHANGED <<orders, tx>> PROVE Once'
  BY <1>16 DEF Once, RowOnce, TxOnce, Untraded
<1>17. ASSUME NEW s \in Sessions, Crash(s) PROVE Once'
  BY <1>17, RollbackOnce DEF Crash
<1>18. ASSUME NEW s \in Matchers, StartRun(s) PROVE Once'
  BY <1>16, <1>18 DEF StartRun, rows
<1>19. CASE (\E a \in Assets, p \in Prices : PriceTick(a, p)) \/ Tick \/ UNCHANGED vars
  BY <1>16, <1>19 DEF PriceTick, Tick, vars, rows
<1> QED
  BY <1>1, <1>6, <1>7, <1>8, <1>9, <1>10, <1>11, <1>12, <1>13, <1>14, <1>15, <1>17, <1>18, <1>19
  DEF Next, StartJob, Statement, ExecuteTrade, AbortDeadlock

\* As long as one process at most schedules the matcher, an order is filled once at most:
\* it has one trade when its status says so and none otherwise.
THEOREM OneMatcherFillsOnce ==
  ASSUME \A m, n \in Matchers : m = n
  PROVE  Spec => []FilledOnce
<1>1. Coherent /\ Once /\ [Next]_vars => Coherent' /\ Once'
  BY NextCoherent, NextOnce
<1>2. Once => FilledOnce
  BY DEF Once, RowOnce, FilledOnce
<1> QED BY <1>1, <1>2, InitCoherent, InitOnce, PTL DEF Spec

\* What a step commits of an order is what it was, or what a transaction had written.
LEMMA CommittedOrders ==
  ASSUME Coherent, [Next]_vars, NEW o \in OrderIds
  PROVE  orders'[o].old \in {orders[o].old, orders[o].new}
<1> DEFINE P == orders'[o].old \in {orders[o].old, orders[o].new}
<1>0. orders \in [OrderIds -> Row(Order \cup {NoOrder})]
  BY DEF Coherent, TypeOK
<1>1. ASSUME UNCHANGED orders PROVE P
  BY <1>1
<1>2. ASSUME NEW s \in Sessions, orders' = Keep(orders, s) \/ orders' = Undo(orders, s) PROVE P
  BY <1>0, <1>2, EndedRows, FreshRows
<1>3. ASSUME NEW s, NEW n, NEW v, orders' = Write(orders, n, s, v) PROVE P
  BY <1>0, <1>3 DEF Write, Row
<1>4. ASSUME NEW s \in Sessions, Raise(s) \/ Crash(s) PROVE P
  BY <1>2, <1>4 DEF Raise, Crash, Rollback
<1> HIDE DEF P
<1>5. ASSUME NEW s \in Web, Request(s) PROVE P
  <2>1. ASSUME NEW u, NEW amount, RequestCash(s, u, amount) PROVE P
    BY <1>1, <2>1 DEF RequestCash, rows
  <2>2. ASSUME NEW u, NEW a, NEW side, NEW kind, NEW q, NEW target, NEW expiry,
               PlaceOrder(s, u, a, side, kind, q, target, expiry)
        PROVE  P
    BY <1>3, <2>2 DEF PlaceOrder
  <2> QED BY <1>5, <2>1, <2>2 DEF Request
<1>6. ASSUME NEW s \in Sessions, MoveCash(s) \/ ExecuteTrade(s) PROVE P
  <2>1. CASE MoveCash(s)
    BY <1>1, <1>4, <2>1 DEF MoveCash
  <2>2. CASE CheckFunds(s) \/ CheckHolding(s) \/ UpdatePortfolio(s)
    BY <1>1, <1>4, <2>2 DEF CheckFunds, CheckHolding, UpdatePortfolio
  <2>3. CASE WaitForHolding(s)
    BY <1>1, <2>3 DEF WaitForHolding, rows
  <2>4. CASE UpdateWallet(s)
    BY <1>3, <1>4, <2>4 DEF UpdateWallet
  <2> QED BY <1>6, <2>1, <2>2, <2>3, <2>4 DEF ExecuteTrade
<1>7. ASSUME NEW s \in Sessions, OpenCursor(s) \/ StartJob(s) PROVE P
  <2>1. UNCHANGED orders
    BY <1>7 DEF OpenCursor, StartJob, StartRun, ReadPrice, FindStale, rows
  <2> QED BY <1>1, <2>1
<1>8. ASSUME NEW s \in Sessions, NextOrder(s) \/ ExpireOne(s) PROVE P
  <2>1. UNCHANGED orders \/ \E n, v : orders' = Write(orders, n, s, v)
    BY <1>8 DEF NextOrder, ExpireOne
  <2> QED BY <1>1, <1>3, <2>1
<1>9. ASSUME NEW s \in Sessions, Commit(s) PROVE P
  BY <1>2, <1>9 DEF Commit
<1>10. ASSUME (\E a \in Assets, p \in Prices : PriceTick(a, p)) \/ Tick \/ UNCHANGED vars PROVE P
  BY <1>1, <1>10 DEF PriceTick, Tick, vars, rows
<1>11. P
  BY <1>4, <1>5, <1>6, <1>7, <1>8, <1>9, <1>10 DEF Next, Statement, AbortDeadlock
<1> QED BY <1>11 DEF P

\* Under the same condition a filled order stays as it is: no later run of the matcher,
\* and no expiry that had found it open, changes it.
THEOREM OneMatcherLeavesFilled ==
  ASSUME \A m, n \in Matchers : m = n
  PROVE  Spec => FilledIsFinal
<1> DEFINE Final == \A o \in OrderIds :
                      orders[o].old.status = "filled" => orders'[o].old = orders[o].old
<1>1. Coherent /\ Once /\ [Next]_vars => Coherent' /\ Once'
  BY NextCoherent, NextOnce
<1>2. Coherent /\ Once /\ [Next]_vars => [Final]_vars
  <2> SUFFICES ASSUME Coherent, Once, [Next]_vars PROVE Final
    OBVIOUS
  <2> QED BY CommittedOrders DEF Once, RowOnce
<1> QED BY <1>1, <1>2, InitCoherent, InitOnce, PTL DEF Spec, FilledIsFinal

-----------------------------------------------------------------------------
(* Sums *)

\* Induction over the natural numbers, for the set of those a fact holds of.
LEMMA AllNaturals ==
  ASSUME NEW S, 0 \in S, \A i \in Nat : i \in S => i + 1 \in S
  PROVE  \A i \in Nat : i \in S
<1> SUFFICES ASSUME Nat \ S # {} PROVE FALSE
  OBVIOUS
<1> DEFINE R == {ss \in Nat \X Nat : ss[1] < ss[2]}
<1>1. IsWellFoundedOn(R, Nat)
  BY NatLessThanWellFounded DEF OpToRel
<1> HIDE DEF R
<1>2. PICK x \in Nat \ S : \A y \in Nat \ S : ~(<<y, x>> \in R)
  BY <1>1, WFMin
<1>3. x # 0 /\ x - 1 \in Nat /\ x - 1 + 1 = x
  OBVIOUS
<1>4. x - 1 \notin S
  BY <1>3
<1>5. <<x - 1, x>> \in R
  BY <1>3 DEF R
<1> QED BY <1>2, <1>3, <1>4, <1>5

\* The partial sums exist, and are what they are called.
LEMMA PartialSumsStep ==
  ASSUME NEW f, NEW n \in Nat
  PROVE  PartialSums(f, n) = [i \in 0 .. n |-> IF i = 0 THEN 0 ELSE PartialSums(f, n)[i - 1] + f[i]]
<1> DEFINE Sum(t, m) == t = [i \in 0 .. m |-> IF i = 0 THEN 0 ELSE t[i - 1] + f[i]]
           S == {m \in Nat : \E t : Sum(t, m)}
<1>1. 0 \in S
  <2>1. Sum([i \in 0 .. 0 |-> 0], 0)
    OBVIOUS
  <2> QED BY <2>1
<1>2. ASSUME NEW m \in Nat, m \in S PROVE m + 1 \in S
  <2>1. PICK t : Sum(t, m)
    BY <1>2
  <2> DEFINE u == [i \in 0 .. m + 1 |-> IF i <= m THEN t[i] ELSE t[m] + f[m + 1]]
  <2>2. \A i \in 0 .. m : t[i] = IF i = 0 THEN 0 ELSE t[i - 1] + f[i]
    BY <2>1
  <2>3. \A i \in 0 .. m + 1 : u[i] = IF i = 0 THEN 0 ELSE u[i - 1] + f[i]
    <3> SUFFICES ASSUME NEW i \in 0 .. m + 1 PROVE u[i] = IF i = 0 THEN 0 ELSE u[i - 1] + f[i]
      OBVIOUS
    <3>1. CASE i = 0
      BY <2>2, <3>1
    <3>2. CASE i \in 1 .. m
      BY <2>2, <3>2
    <3>3. CASE i = m + 1
      BY <3>3
    <3> QED BY <3>1, <3>2, <3>3
  <2>4. Sum(u, m + 1)
    <3>1. u = [i \in 0 .. m + 1 |-> u[i]]
      OBVIOUS
    <3> HIDE DEF u
    <3> QED BY <2>3, <3>1
  <2> HIDE DEF u, Sum
  <2>5. \E w : Sum(w, m + 1)
    BY <2>4
  <2> QED BY <2>5
<1> HIDE DEF S
<1>3. n \in S
  BY <1>1, <1>2, AllNaturals
<1>4. \E t : Sum(t, n)
  BY <1>3 DEF S
<1> QED BY <1>4 DEF PartialSums

LEMMA PartialSumsAre ==
  ASSUME NEW f, NEW n \in Nat
  PROVE  /\ PartialSums(f, n)[0] = 0
         /\ \A i \in 0 .. n - 1 : PartialSums(f, n)[i + 1] = PartialSums(f, n)[i] + f[i + 1]
<1> DEFINE t == PartialSums(f, n)
<1>1. t = [i \in 0 .. n |-> IF i = 0 THEN 0 ELSE t[i - 1] + f[i]]
  BY PartialSumsStep
<1> HIDE DEF t
<1>2. \A i \in 0 .. n : t[i] = IF i = 0 THEN 0 ELSE t[i - 1] + f[i]
  BY <1>1
<1>3. t[0] = 0
  BY <1>2
<1>4. \A i \in 0 .. n - 1 : t[i + 1] = t[i] + f[i + 1]
  BY <1>2
<1> QED BY <1>3, <1>4 DEF t

\* A property of partial sums that each step keeps is one of the total.  (S holds
\* the i up to which it has been shown.)
LEMMA UpTo ==
  ASSUME NEW n \in Nat, NEW S, 0 \in S, \A i \in 0 .. n - 1 : i \in S => i + 1 \in S
  PROVE  n \in S
<1> DEFINE T == {i \in Nat : i <= n => i \in S}
<1>1. 0 \in T /\ \A i \in Nat : i \in T => i + 1 \in T
  OBVIOUS
<1> HIDE DEF T
<1>2. n \in T
  BY <1>1, AllNaturals
<1> QED BY <1>2 DEF T

\* A sum of integers is an integer, one of natural numbers a natural number.
LEMMA TotalTypes ==
  ASSUME NEW n \in Nat, NEW f \in [1 .. n -> Int]
  PROVE  /\ Total(f, n) \in Int
         /\ (\A i \in 1 .. n : f[i] >= 0) => Total(f, n) >= 0
         /\ (\A i \in 1 .. n : f[i] = 0) => Total(f, n) = 0
<1> DEFINE t == PartialSums(f, n)
           S == {i \in Nat : /\ t[i] \in Int
                             /\ (\A j \in 1 .. n : f[j] >= 0) => t[i] >= 0
                             /\ (\A j \in 1 .. n : f[j] = 0) => t[i] = 0}
<1>1. t[0] = 0 /\ \A i \in 0 .. n - 1 : t[i + 1] = t[i] + f[i + 1]
  BY PartialSumsAre
<1> HIDE DEF t
<1>2. 0 \in S
  BY <1>1
<1>3. ASSUME NEW i \in 0 .. n - 1, i \in S PROVE i + 1 \in S
  <2>1. i + 1 \in 1 .. n /\ f[i + 1] \in Int /\ t[i + 1] = t[i] + f[i + 1]
    BY <1>1
  <2> QED BY <1>3, <2>1
<1> HIDE DEF S
<1>4. n \in S
  BY <1>2, <1>3, UpTo
<1> QED BY <1>4 DEF S, t, Total

\* The sum of h, which is f plus g in each place, is that of f plus that of g.
LEMMA TotalOfSums ==
  ASSUME NEW n \in Nat, NEW f \in [1 .. n -> Int], NEW g \in [1 .. n -> Int],
         NEW h \in [1 .. n -> Int], \A i \in 1 .. n : h[i] = f[i] + g[i]
  PROVE  Total(h, n) = Total(f, n) + Total(g, n)
<1> DEFINE t == PartialSums(f, n)
           u == PartialSums(g, n)
           v == PartialSums(h, n)
           S == {i \in Nat : t[i] \in Int /\ u[i] \in Int /\ v[i] = t[i] + u[i]}
<1>1. t[0] = 0 /\ \A i \in 0 .. n - 1 : t[i + 1] = t[i] + f[i + 1]
  BY PartialSumsAre
<1>2. u[0] = 0 /\ \A i \in 0 .. n - 1 : u[i + 1] = u[i] + g[i + 1]
  BY PartialSumsAre
<1>3. v[0] = 0 /\ \A i \in 0 .. n - 1 : v[i + 1] = v[i] + h[i + 1]
  BY PartialSumsAre
<1> HIDE DEF t, u, v
<1>4. 0 \in S
  BY <1>1, <1>2, <1>3
<1>5. ASSUME NEW i \in 0 .. n - 1, i \in S PROVE i + 1 \in S
  <2>1. i + 1 \in 1 .. n /\ f[i + 1] \in Int /\ g[i + 1] \in Int /\ h[i + 1] = f[i + 1] + g[i + 1]
    OBVIOUS
  <2>2. /\ t[i + 1] = t[i] + f[i + 1] /\ u[i + 1] = u[i] + g[i + 1] /\ v[i + 1] = v[i] + h[i + 1]
        /\ t[i] \in Int /\ u[i] \in Int /\ v[i] = t[i] + u[i] /\ i + 1 \in Nat
    BY <1>1, <1>2, <1>3, <1>5
  <2>3. t[i + 1] \in Int /\ u[i + 1] \in Int /\ v[i + 1] = t[i + 1] + u[i + 1]
    BY <2>1, <2>2
  <2> QED BY <2>2, <2>3
<1> HIDE DEF S
<1>6. n \in S
  BY <1>4, <1>5, UpTo
<1> QED BY <1>6 DEF S, t, u, v, Total

\* A sum with one term.
LEMMA TotalOfOne ==
  ASSUME NEW n \in Nat, NEW o \in 1 .. n, NEW x \in Int
  PROVE  Total([i \in 1 .. n |-> IF i = o THEN x ELSE 0], n) = x
<1> DEFINE f == [i \in 1 .. n |-> IF i = o THEN x ELSE 0]
           t == PartialSums(f, n)
           S == {i \in Nat : t[i] = IF i < o THEN 0 ELSE x}
<1>1. t[0] = 0 /\ \A i \in 0 .. n - 1 : t[i + 1] = t[i] + f[i + 1]
  BY PartialSumsAre
<1>2. \A i \in 1 .. n : f[i] = IF i = o THEN x ELSE 0
  OBVIOUS
<1> HIDE DEF t, f
<1>3. 0 \in S
  BY <1>1
<1>4. ASSUME NEW i \in 0 .. n - 1, i \in S PROVE i + 1 \in S
  <2>1. i + 1 \in 1 .. n /\ i \in Nat /\ o \in Nat
    OBVIOUS
  <2> QED BY <1>1, <1>2, <1>4, <2>1
<1> HIDE DEF S
<1>5. n \in S
  BY <1>3, <1>4, UpTo
<1> QED BY <1>5 DEF S, t, f, Total

\* When f grows by x in place o and stays the same elsewhere, its sum grows by x.
LEMMA TotalGrows ==
  ASSUME NEW n \in Nat, NEW f \in [1 .. n -> Int], NEW h \in [1 .. n -> Int],
         NEW o \in 1 .. n, NEW x \in Int,
         h[o] = f[o] + x, \A i \in 1 .. n \ {o} : h[i] = f[i]
  PROVE  Total(h, n) = Total(f, n) + x
<1> DEFINE g == [i \in 1 .. n |-> IF i = o THEN x ELSE 0]
<1>1. g \in [1 .. n -> Int] /\ \A i \in 1 .. n : h[i] = f[i] + g[i]
  OBVIOUS
<1>2. Total(h, n) = Total(f, n) + Total(g, n)
  BY <1>1, TotalOfSums
<1>3. Total(g, n) = x
  BY TotalOfOne
<1> QED BY <1>2, <1>3

-----------------------------------------------------------------------------
(* Fills, and the sums over them *)

Fills == [filled : {TRUE}, key : Keys, side : {"buy", "sell"},
          quantity : Nat, cost : Nat, profit : Int]
FillBook == [OrderIds -> Fills \cup {NoFill}]

LEMMA NoFillTrades == \A k, side : ~Trades(NoFill, k, side)
BY DEF Trades, NoFill

\* What an order row gives is a fill.
LEMMA FillIsFill ==
  ASSUME NEW r \in Order, NEW profit \in Int PROVE FillOf(r, profit) \in Fills
<1>1. /\ r.user \in Users /\ r.asset \in Assets /\ r.side \in {"buy", "sell"}
      /\ r.quantity \in Nat /\ r.price \in Nat
  BY InputAssumption DEF Order
<1>2. Cost(r) \in Nat
  BY <1>1, Products DEF Cost
<1> QED BY <1>1, <1>2 DEF FillOf, Fills, Keys

LEMMA RowFills ==
  ASSUME NEW r \in Order \cup {NoOrder}, r.status = "filled" => Len(r.trades) = 1
  PROVE  Fill(r) \in Fills \cup {NoFill} /\ (r.status # "filled" => Fill(r) = NoFill)
<1>1. CASE r.status = "filled"
  <2>1. r \in Order
    BY <1>1 DEF NoOrder
  <2>2. r.trades \in Seq(Trade) /\ Len(r.trades) = 1
    BY <1>1, <2>1 DEF Order
  <2>3. r.trades[1] \in Trade
    BY <2>2
  <2>4. r.trades[1].profit \in Int
    BY <2>3 DEF Trade
  <2> QED BY <1>1, <2>1, <2>4, FillIsFill DEF Fill
<1>2. CASE r.status # "filled"
  BY <1>2 DEF Fill
<1> QED BY <1>1, <1>2

\* Sums of shares, money and purchases are natural numbers.
LEMMA SumTypes ==
  ASSUME NEW F \in FillBook, NEW k \in Keys, NEW side \in {"buy", "sell"}
  PROVE  /\ Shares(F, k, side) \in Nat /\ Value(F, k, side) \in Nat
         /\ Purchases(F, k) \in Nat /\ Profit(F, k) \in Int
         /\ (\A o \in OrderIds : F[o] = NoFill) =>
              Shares(F, k, side) = 0 /\ Value(F, k, side) = 0 /\ Purchases(F, k) = 0 /\ Profit(F, k) = 0
<1> DEFINE q == [o \in OrderIds |-> IF Trades(F[o], k, side) THEN F[o].quantity ELSE 0]
           c == [o \in OrderIds |-> IF Trades(F[o], k, side) THEN F[o].cost ELSE 0]
           p == [o \in OrderIds |-> IF Trades(F[o], k, "sell") THEN F[o].profit ELSE 0]
           b == [o \in OrderIds |-> IF Trades(F[o], k, "buy") THEN 1 ELSE 0]
<1>0. MaxCalls \in Nat /\ OrderIds = 1 .. MaxCalls
  BY BoundAssumption DEF OrderIds
<1>1. \A o \in OrderIds : \A d : Trades(F[o], k, d) => F[o] \in Fills
  BY NoFillTrades DEF FillBook
<1>2. \A o \in OrderIds : \A d : Trades(F[o], k, d) =>
        F[o].quantity \in Nat /\ F[o].cost \in Nat /\ F[o].profit \in Int
  BY <1>1 DEF Fills
<1>3. /\ q \in [1 .. MaxCalls -> Int] /\ c \in [1 .. MaxCalls -> Int]
      /\ p \in [1 .. MaxCalls -> Int] /\ b \in [1 .. MaxCalls -> Int]
      /\ \A o \in 1 .. MaxCalls : q[o] >= 0 /\ c[o] >= 0 /\ b[o] >= 0
  <2>1. q \in [1 .. MaxCalls -> Int] /\ \A o \in 1 .. MaxCalls : q[o] >= 0
    <3>1. \A o \in OrderIds : (IF Trades(F[o], k, side) THEN F[o].quantity ELSE 0) \in Nat
      BY <1>2
    <3>2. q \in [1 .. MaxCalls -> Nat]
      BY <1>0, <3>1
    <3> HIDE DEF q
    <3> QED BY <3>2
  <2>2. c \in [1 .. MaxCalls -> Int] /\ \A o \in 1 .. MaxCalls : c[o] >= 0
    <3>1. \A o \in OrderIds : (IF Trades(F[o], k, side) THEN F[o].cost ELSE 0) \in Nat
      BY <1>2
    <3>2. c \in [1 .. MaxCalls -> Nat]
      BY <1>0, <3>1
    <3> HIDE DEF c
    <3> QED BY <3>2
  <2>3. p \in [1 .. MaxCalls -> Int]
    BY <1>0, <1>2
  <2>4. b \in [1 .. MaxCalls -> Int] /\ \A o \in 1 .. MaxCalls : b[o] >= 0
    BY <1>0
  <2> QED BY <2>1, <2>2, <2>3, <2>4
<1>4. (\A o \in OrderIds : F[o] = NoFill) =>
        \A o \in 1 .. MaxCalls : q[o] = 0 /\ c[o] = 0 /\ p[o] = 0 /\ b[o] = 0
  BY <1>0, NoFillTrades
<1>5. /\ Shares(F, k, side) = Total(q, MaxCalls) /\ Value(F, k, side) = Total(c, MaxCalls)
      /\ Purchases(F, k) = Total(b, MaxCalls) /\ Profit(F, k) = Total(p, MaxCalls)
  BY DEF Shares, Value, Purchases, Profit
<1> HIDE DEF q, c, p, b
<1>6. Total(q, MaxCalls) \in Nat /\ ((\A o \in 1 .. MaxCalls : q[o] = 0) => Total(q, MaxCalls) = 0)
  BY <1>0, <1>3, TotalTypes
<1>7. Total(c, MaxCalls) \in Nat /\ ((\A o \in 1 .. MaxCalls : c[o] = 0) => Total(c, MaxCalls) = 0)
  BY <1>0, <1>3, TotalTypes
<1>8. Total(b, MaxCalls) \in Nat /\ ((\A o \in 1 .. MaxCalls : b[o] = 0) => Total(b, MaxCalls) = 0)
  BY <1>0, <1>3, TotalTypes
<1>9. Total(p, MaxCalls) \in Int /\ ((\A o \in 1 .. MaxCalls : p[o] = 0) => Total(p, MaxCalls) = 0)
  BY <1>0, <1>3, TotalTypes
<1> QED BY <1>4, <1>5, <1>6, <1>7, <1>8, <1>9

\* Books that differ in the fills of other keys only have the same sums.
AgreeOn(F, G, k) ==
  \A o \in OrderIds : F[o] # G[o] =>
    \A side : ~Trades(F[o], k, side) /\ ~Trades(G[o], k, side)

LEMMA SameSums ==
  ASSUME NEW F, NEW G, NEW k, AgreeOn(F, G, k), NEW h
  PROVE  /\ AddsUp(h, F, k) => AddsUp(h, G, k)
         /\ Costs(h, F, k) => Costs(h, G, k)
<1>1. \A o \in OrderIds : \A side : Trades(F[o], k, side) = Trades(G[o], k, side)
  BY DEF AgreeOn, Trades
<1>2. \A o \in OrderIds : \A side : Trades(F[o], k, side) => F[o] = G[o]
  BY DEF AgreeOn
<1>3. ASSUME NEW side PROVE Shares(F, k, side) = Shares(G, k, side) /\ Value(F, k, side) = Value(G, k, side)
  BY <1>1, <1>2 DEF Shares, Value
<1>4. Profit(F, k) = Profit(G, k) /\ Purchases(F, k) = Purchases(G, k)
  BY <1>1, <1>2 DEF Profit, Purchases
<1> QED BY <1>3, <1>4 DEF AddsUp, Costs, Basis

\* G has the sums of F and those of one more fill f.
Grown(F, G, f, side) ==
  LET k == f.key IN
  /\ Shares(G, k, side) = Shares(F, k, side) + IF f.side = side THEN f.quantity ELSE 0
  /\ Value(G, k, side) = Value(F, k, side) + IF f.side = side THEN f.cost ELSE 0
  /\ Purchases(G, k) = Purchases(F, k) + IF f.side = "buy" THEN 1 ELSE 0
  /\ Profit(G, k) = Profit(F, k) + IF f.side = "sell" THEN f.profit ELSE 0

LEMMA SumsGrow ==
  ASSUME NEW F \in FillBook, NEW n \in OrderIds, F[n] = NoFill, NEW f \in Fills,
         NEW side \in {"buy", "sell"},
         NEW G \in FillBook, G[n] = f, \A o \in OrderIds \ {n} : G[o] = F[o]
  PROVE  Grown(F, G, f, side)
<1> DEFINE k == f.key
           q(H) == [o \in OrderIds |-> IF Trades(H[o], k, side) THEN H[o].quantity ELSE 0]
           c(H) == [o \in OrderIds |-> IF Trades(H[o], k, side) THEN H[o].cost ELSE 0]
           p(H) == [o \in OrderIds |-> IF Trades(H[o], k, "sell") THEN H[o].profit ELSE 0]
           b(H) == [o \in OrderIds |-> IF Trades(H[o], k, "buy") THEN 1 ELSE 0]
<1>0. MaxCalls \in Nat /\ OrderIds = 1 .. MaxCalls
  BY BoundAssumption DEF OrderIds
<1>1. G \in FillBook /\ G[n] = f /\ \A o \in OrderIds \ {n} : G[o] = F[o]
  OBVIOUS
<1>2. ASSUME NEW H \in FillBook, NEW o \in OrderIds, NEW d, Trades(H[o], k, d)
      PROVE  H[o].quantity \in Nat /\ H[o].cost \in Nat /\ H[o].profit \in Int
  <2>1. H[o] \in Fills
    BY <1>2, NoFillTrades DEF FillBook
  <2> QED BY <2>1 DEF Fills
<1>3. ASSUME NEW H \in FillBook
      PROVE  /\ q(H) \in [1 .. MaxCalls -> Int] /\ c(H) \in [1 .. MaxCalls -> Int]
             /\ p(H) \in [1 .. MaxCalls -> Int] /\ b(H) \in [1 .. MaxCalls -> Int]
  <2>1. q(H) \in [1 .. MaxCalls -> Int]
    BY <1>0, <1>2
  <2>2. c(H) \in [1 .. MaxCalls -> Int]
    BY <1>0, <1>2
  <2>3. p(H) \in [1 .. MaxCalls -> Int]
    BY <1>0, <1>2
  <2>4. b(H) \in [1 .. MaxCalls -> Int]
    BY <1>0
  <2> QED BY <2>1, <2>2, <2>3, <2>4
<1>4. /\ \A d : Trades(f, k, d) <=> f.side = d
      /\ \A d : ~Trades(F[n], k, d)
  BY NoFillTrades DEF Fills, Trades
<1>5. /\ f.quantity \in Int /\ f.cost \in Int /\ f.profit \in Int
  BY DEF Fills
<1>6. Total(q(G), MaxCalls) = Total(q(F), MaxCalls) + IF f.side = side THEN f.quantity ELSE 0
  <2> DEFINE x == IF f.side = side THEN f.quantity ELSE 0
  <2>1. x \in Int /\ q(G)[n] = q(F)[n] + x /\ \A o \in 1 .. MaxCalls \ {n} : q(G)[o] = q(F)[o]
    BY <1>0, <1>1, <1>4, <1>5
  <2>2. q(F) \in [1 .. MaxCalls -> Int] /\ q(G) \in [1 .. MaxCalls -> Int]
    BY <1>1, <1>3
  <2> HIDE DEF q, x
  <2>3. Total(q(G), MaxCalls) = Total(q(F), MaxCalls) + x
    BY <1>0, <2>1, <2>2, TotalGrows
  <2> QED BY <2>3 DEF x
<1>7. Total(c(G), MaxCalls) = Total(c(F), MaxCalls) + IF f.side = side THEN f.cost ELSE 0
  <2> DEFINE x == IF f.side = side THEN f.cost ELSE 0
  <2>1. x \in Int /\ c(G)[n] = c(F)[n] + x /\ \A o \in 1 .. MaxCalls \ {n} : c(G)[o] = c(F)[o]
    BY <1>0, <1>1, <1>4, <1>5
  <2>2. c(F) \in [1 .. MaxCalls -> Int] /\ c(G) \in [1 .. MaxCalls -> Int]
    BY <1>1, <1>3
  <2> HIDE DEF c, x
  <2>3. Total(c(G), MaxCalls) = Total(c(F), MaxCalls) + x
    BY <1>0, <2>1, <2>2, TotalGrows
  <2> QED BY <2>3 DEF x
<1>8. Total(b(G), MaxCalls) = Total(b(F), MaxCalls) + IF f.side = "buy" THEN 1 ELSE 0
  <2> DEFINE x == IF f.side = "buy" THEN 1 ELSE 0
  <2>1. x \in Int /\ b(G)[n] = b(F)[n] + x /\ \A o \in 1 .. MaxCalls \ {n} : b(G)[o] = b(F)[o]
    BY <1>0, <1>1, <1>4, <1>5
  <2>2. b(F) \in [1 .. MaxCalls -> Int] /\ b(G) \in [1 .. MaxCalls -> Int]
    BY <1>1, <1>3
  <2> HIDE DEF b, x
  <2>3. Total(b(G), MaxCalls) = Total(b(F), MaxCalls) + x
    BY <1>0, <2>1, <2>2, TotalGrows
  <2> QED BY <2>3 DEF x
<1>9. Total(p(G), MaxCalls) = Total(p(F), MaxCalls) + IF f.side = "sell" THEN f.profit ELSE 0
  <2> DEFINE x == IF f.side = "sell" THEN f.profit ELSE 0
  <2>1. x \in Int /\ p(G)[n] = p(F)[n] + x /\ \A o \in 1 .. MaxCalls \ {n} : p(G)[o] = p(F)[o]
    BY <1>0, <1>1, <1>4, <1>5
  <2>2. p(F) \in [1 .. MaxCalls -> Int] /\ p(G) \in [1 .. MaxCalls -> Int]
    BY <1>1, <1>3
  <2> HIDE DEF p, x
  <2>3. Total(p(G), MaxCalls) = Total(p(F), MaxCalls) + x
    BY <1>0, <2>1, <2>2, TotalGrows
  <2> QED BY <2>3 DEF x
<1> QED BY <1>6, <1>7, <1>8, <1>9 DEF Grown, Shares, Value, Purchases, Profit

-----------------------------------------------------------------------------
(* What one trade does to the sums *)

\* NUMERIC division is off by half a unit at most.
LEMMA RoundedQuotient ==
  ASSUME NEW n \in Nat, NEW d \in Nat \ {0}
  PROVE  /\ RoundDiv(n, d) \in Nat
         /\ -d <= 2 * (d * RoundDiv(n, d) - n) /\ 2 * (d * RoundDiv(n, d) - n) <= d
<1> DEFINE a == 2 * n + d
           b == 2 * d
           r == a \div b
<1>1. a \in Nat /\ b \in Nat \ {0}
  OBVIOUS
<1>2. \A x \in Nat, y \in Nat \ {0} :
        x \div y \in Nat /\ y * (x \div y) <= x /\ x < y * (x \div y) + y
  OBVIOUS
<1>3. r \in Nat /\ b * r <= a /\ a < b * r + b
  BY <1>1, <1>2
<1> HIDE DEF r
<1>4. b * r = 2 * (d * r) /\ d * r \in Nat
  BY <1>3
<1>5. -d <= 2 * (d * r - n) /\ 2 * (d * r - n) <= d
  BY <1>3, <1>4
<1> QED BY <1>3, <1>5 DEF r, RoundDiv

\* Averaging in a purchase of x shares for c adds one rounding error to the basis b.
LEMMA PurchaseRounds ==
  ASSUME NEW q \in Nat, NEW a \in Nat, NEW x \in Nat \ {0}, NEW c \in Nat,
         NEW n \in Nat, NEW m \in Nat, NEW b \in Int, q <= m,
         -(n * m) <= 2 * (q * a - b), 2 * (q * a - b) <= n * m
  PROVE  LET e == 2 * ((q + x) * RoundDiv(a * q + c, q + x) - (b + c)) IN
         -((n + 1) * (m + x)) <= e /\ e <= (n + 1) * (m + x)
<1> DEFINE s == a * q + c
           d == q + x
           p == d * RoundDiv(s, d)
           t == n * (m + x)
<1>1. s \in Nat /\ d \in Nat \ {0}
  BY Products
<1>2. RoundDiv(s, d) \in Nat /\ -d <= 2 * (p - s) /\ 2 * (p - s) <= d
  BY <1>1, RoundedQuotient
<1>3. p \in Int
  BY <1>1, <1>2, Products
<1>4. n * m <= t /\ t \in Nat /\ n * m \in Nat
  <2>1. n * m \in Nat /\ n * x \in Nat
    BY Products
  <2>2. t = n * m + n * x
    OBVIOUS
  <2> QED BY <2>1, <2>2
<1>5. (n + 1) * (m + x) = t + (m + x)
  OBVIOUS
<1>6. q * a = a * q /\ a * q \in Nat
  BY Products
<1> DEFINE w == a * q
<1>7. s = w + c /\ q * a = w /\ w \in Nat
  BY <1>6
<1> HIDE DEF s, p, t, w
<1>8. -(t + (m + x)) <= 2 * (p - (b + c)) /\ 2 * (p - (b + c)) <= t + (m + x)
  <2>1. 2 * (p - (b + c)) = 2 * (p - s) + 2 * (w - b)
    BY <1>1, <1>3, <1>7
  <2>2. -t <= 2 * (w - b) /\ 2 * (w - b) <= t
    BY <1>4, <1>7
  <2>3. d <= m + x
    OBVIOUS
  <2> QED BY <1>1, <1>2, <1>3, <1>4, <1>7, <2>1, <2>2, <2>3
<1> QED BY <1>5, <1>8 DEF s, p

\* A trade on a position leaves one that adds up with the fill, and costs what it should.
LEMMA TradeAddsUp ==
  ASSUME NEW o \in Order, NEW h \in Holding, NEW start \in Nat,
         o.side = "sell" => h.quantity >= o.quantity,
         NEW F \in FillBook, NEW n \in OrderIds, F[n] = NoFill,
         NEW profit, profit = IF o.side = "buy" THEN 0 ELSE (o.price - h.avg_price) * o.quantity,
         NEW k \in Keys, k = <<o.user, o.asset>>, AddsUp(h, F, k), Costs(h, F, k),
         NEW G, G = [F EXCEPT ![n] = FillOf(o, profit)]
  PROVE  AddsUp(Traded(o, h, start), G, k) /\ Costs(Traded(o, h, start), G, k)
<1> DEFINE f == FillOf(o, profit)
           g == Traded(o, h, start)
           q == h.quantity
           a == h.avg_price
           x == o.quantity
           c == Cost(o)
           E == Endowed[k].quantity
           I == Endowed[k].quantity * Endowed[k].avg_price
           m == E + Shares(F, k, "buy")
           b == Basis(F, k)
           N == Purchases(F, k)
<1>1. /\ x \in Nat \ {0} /\ o.price \in Nat /\ q \in Nat /\ a \in Nat /\ c \in Nat
      /\ o.side \in {"buy", "sell"}
  <2>1. o.quantity \in Nat \ {0} /\ o.price \in Nat /\ o.side \in {"buy", "sell"}
    BY InputAssumption DEF Order
  <2>2. h.quantity \in Nat /\ h.avg_price \in Nat
    BY DEF Holding
  <2> QED BY <2>1, <2>2, Products DEF Cost
<1>2. profit \in Int
  BY <1>1
<1>3. /\ f \in Fills /\ f.key = k /\ f.side = o.side /\ f.quantity = x /\ f.cost = c /\ f.profit = profit
  BY <1>2, FillIsFill DEF FillOf
<1>4. E \in Nat /\ I \in Int
  <2>1. Endowed[k].quantity \in Nat /\ Endowed[k].avg_price \in Nat
    BY InitialAssumption
  <2> QED BY <2>1, Products
<1>40. G \in FillBook /\ G[n] = f /\ \A j \in OrderIds \ {n} : G[j] = F[j]
  BY <1>3 DEF FillBook
<1> HIDE DEF f
<1>5. ASSUME NEW side \in {"buy", "sell"}
      PROVE  /\ Shares(G, k, side) = Shares(F, k, side) + IF o.side = side THEN x ELSE 0
             /\ Value(G, k, side) = Value(F, k, side) + IF o.side = side THEN c ELSE 0
             /\ Purchases(G, k) = N + IF o.side = "buy" THEN 1 ELSE 0
             /\ Profit(G, k) = Profit(F, k) + IF o.side = "sell" THEN profit ELSE 0
  <2>1. Grown(F, G, f, side)
    BY <1>3, <1>40, SumsGrow
  <2> QED BY <1>3, <2>1 DEF Grown
<1>6. /\ Shares(F, k, "buy") \in Nat /\ Shares(F, k, "sell") \in Nat
      /\ Value(F, k, "buy") \in Nat /\ Value(F, k, "sell") \in Nat
      /\ N \in Nat /\ Profit(F, k) \in Int
  BY SumTypes
<1>7. q = E + Shares(F, k, "buy") - Shares(F, k, "sell") /\ q <= m /\ m \in Nat
  BY <1>4, <1>6 DEF AddsUp
<1>8. g.quantity = IF o.side = "buy" THEN q + x ELSE q - x
  BY <1>1 DEF Traded, NewQuantity
<1>9. AddsUp(g, G, k)
  BY <1>1, <1>4, <1>5, <1>6, <1>7, <1>8 DEF AddsUp
<1>10. b \in Int /\ -(N * m) <= 2 * (q * a - b) /\ 2 * (q * a - b) <= N * m
  BY <1>4, <1>6 DEF Costs, Basis
<1>11. CASE o.side = "buy"
  <2>1. g.quantity = q + x /\ g.avg_price = RoundDiv(a * q + c, q + x)
    BY <1>1, <1>11 DEF Traded, NewQuantity, NewAverage
  <2>2. Basis(G, k) = b + c /\ Purchases(G, k) = N + 1 /\ E + Shares(G, k, "buy") = m + x
    BY <1>1, <1>4, <1>5, <1>6, <1>11 DEF Basis
  <2> HIDE DEF q, a, x, c, m, b, N
  <2>3. LET e == 2 * ((q + x) * RoundDiv(a * q + c, q + x) - (b + c)) IN
        -((N + 1) * (m + x)) <= e /\ e <= (N + 1) * (m + x)
    <3>1. /\ q \in Nat /\ a \in Nat /\ x \in Nat \ {0} /\ c \in Nat /\ N \in Nat /\ m \in Nat /\ b \in Int
          /\ q <= m /\ -(N * m) <= 2 * (q * a - b) /\ 2 * (q * a - b) <= N * m
      BY <1>1, <1>6, <1>7, <1>10
    <3> QED BY <3>1, PurchaseRounds
  <2>4. Costs(g, G, k)
    BY <2>1, <2>2, <2>3 DEF Costs
  <2> QED BY <1>9, <2>4
<1>12. CASE o.side = "sell"
  <2>1. g.quantity = q - x /\ g.quantity * g.avg_price = (q - x) * a
    BY <1>1, <1>12 DEF Traded, NewQuantity, NewAverage
  <2>2. profit = (o.price - a) * x /\ c = o.price * x
    BY <1>12 DEF Cost
  <2>3. /\ Value(G, k, "buy") = Value(F, k, "buy") /\ Value(G, k, "sell") = Value(F, k, "sell") + c
        /\ Profit(G, k) = Profit(F, k) + profit
        /\ Purchases(G, k) = N /\ E + Shares(G, k, "buy") = m
    BY <1>4, <1>5, <1>6, <1>12
  <2>4. c - profit = a * x
    BY <1>1, <2>2
  <2>5. Basis(G, k) = b - a * x
    BY <1>1, <1>2, <1>4, <1>6, <2>3, <2>4 DEF Basis
  <2>6. (q - x) * a - (b - a * x) = q * a - b
    BY <1>1, <1>10
  <2> HIDE DEF q, a, x, c, m, b, N
  <2>7. 2 * (g.quantity * g.avg_price - Basis(G, k)) = 2 * (q * a - b)
    BY <2>1, <2>5, <2>6
  <2>8. Costs(g, G, k)
    BY <1>10, <2>3, <2>7 DEF Costs
  <2> QED BY <1>9, <2>8
<1> QED BY <1>1, <1>11, <1>12

-----------------------------------------------------------------------------
(* Committed and pending fills, step by step *)

LEMMA FillTables == ASSUME Coherent, Once PROVE Committed \in FillBook /\ Pending \in FillBook
<1>1. orders \in [OrderIds -> Row(Order \cup {NoOrder})]
  BY DEF Coherent, TypeOK
<1>2. ASSUME NEW o \in OrderIds
      PROVE  Fill(orders[o].old) \in Fills \cup {NoFill} /\ Fill(orders[o].new) \in Fills \cup {NoFill}
  <2>1. RowOnce(o)
    BY DEF Once
  <2>2. /\ orders[o].old \in Order \cup {NoOrder} /\ orders[o].new \in Order \cup {NoOrder}
        /\ orders[o].old.status = "filled" => Len(orders[o].old.trades) = 1
        /\ orders[o].new.status = "filled" => Len(orders[o].new.trades) = 1
    BY <1>1, <2>1 DEF Row, RowOnce
  <2> QED BY <2>2, RowFills
<1>3. ASSUME NEW o \in OrderIds, NEW s, s = orders[o].lock, s # None,
             tx[s].pc = "wallet", tx[s].order = o
      PROVE  FillOf(orders[o].new, tx[s].profit) \in Fills
  <2>1. s \in Sessions
    BY <1>1, <1>3 DEF Row
  <2>2. tx[s].profit \in Int
    BY <2>1, StepFacts DEF Coherent, Transaction
  <2>3. orders[o].new \in Order
    BY <1>3, <2>1, FillTypes DEF TheOrder
  <2> QED BY <2>2, <2>3, FillIsFill
<1>4. \A o \in OrderIds : Committed[o] \in Fills \cup {NoFill}
  BY <1>2 DEF Committed
<1>5. \A o \in OrderIds : Pending[o] \in Fills \cup {NoFill}
  BY <1>2, <1>3 DEF Pending
<1> QED BY <1>4, <1>5 DEF FillBook, Committed, Pending

\* An order that is not filled, and that no transaction is about to fill, has no fill.
LEMMA NotFilling ==
  ASSUME NEW o \in OrderIds, orders[o].new.status # "filled",
         orders[o].lock = None \/ tx[orders[o].lock].pc # "wallet" \/ tx[orders[o].lock].order # o
  PROVE  Pending[o] = NoFill
BY DEF Pending, Fill

\* A step of s that leaves the orders alone.
LEMMA SameFills ==
  ASSUME Coherent, NEW s \in Sessions, Steps(s), UNCHANGED orders,
         tx[s].pc # "wallet", tx'[s].pc # "wallet"
  PROVE  Committed' = Committed /\ Pending' = Pending
<1>1. \A o \in OrderIds : orders[o].lock \in Sessions \cup {None}
  BY DEF Coherent, TypeOK, Row
<1>2. \A t \in Sessions : tx'[t].pc = "wallet" <=> tx[t].pc = "wallet"
  BY DEF Steps
<1>3. \A t \in Sessions : tx[t].pc = "wallet" => tx'[t] = tx[t]
  BY DEF Steps
<1> QED BY <1>1, <1>2, <1>3 DEF Committed, Pending

\* One that writes v to order n, whose fill v shows.
LEMMA WriteFills ==
  ASSUME Coherent, NEW s \in Sessions, Steps(s),
         NEW n \in OrderIds, NEW v \in Order, Free(orders[n], s), orders' = Write(orders, n, s, v),
         tx'[s].pc # "wallet", tx[s].pc = "wallet" => tx[s].order = n,
         Fill(v) = Pending[n]
  PROVE  Committed' = Committed /\ Pending' = Pending
<1>0. orders \in [OrderIds -> Row(Order \cup {NoOrder})]
  BY DEF Coherent, TypeOK
<1>1. \A o \in OrderIds : orders[o].lock \in Sessions \cup {None}
  BY <1>0 DEF Row
<1>2. /\ \A o \in OrderIds : orders'[o].old = orders[o].old
      /\ \A o \in OrderIds \ {n} : orders'[o] = orders[o]
      /\ orders'[n].new = v /\ orders'[n].lock = s
  BY <1>0, WrittenRows
<1>3. ASSUME NEW o \in OrderIds \ {n} PROVE Pending'[o] = Pending[o]
  <2>1. CASE orders[o].lock = s
    BY <1>2, <1>3, <2>1 DEF Pending
  <2>2. CASE orders[o].lock # s
    BY <1>1, <1>2, <1>3, <2>2 DEF Pending, Steps
  <2> QED BY <2>1, <2>2
<1>4. Pending'[n] = Pending[n]
  <2>1. Pending'[n] = Fill(v)
    BY <1>2 DEF Pending
  <2> QED BY <2>1
<1>5. Committed' = Committed
  BY <1>2 DEF Committed
<1>6. DOMAIN Pending' = OrderIds /\ DOMAIN Pending = OrderIds
  BY DEF Pending
<1>7. Pending' = [o \in OrderIds |-> Pending'[o]] /\ Pending = [o \in OrderIds |-> Pending[o]]
  BY DEF Pending
<1>8. \A o \in OrderIds : Pending'[o] = Pending[o]
  BY <1>3, <1>4
<1> QED BY <1>5, <1>7, <1>8

\* The portfolio trigger makes a fill pending.
LEMMA TradeFills ==
  ASSUME Coherent, NEW s \in Sessions, Steps(s), UNCHANGED orders,
         NEW n \in OrderIds, n = tx[s].order, n = tx'[s].order, orders[n].lock = s,
         orders[n].new.status # "filled", tx[s].pc # "wallet", tx'[s].pc = "wallet"
  PROVE  /\ Committed' = Committed /\ Pending[n] = NoFill
         /\ Pending'[n] = FillOf(orders[n].new, tx'[s].profit)
         /\ \A o \in OrderIds \ {n} : Pending'[o] = Pending[o]
<1>1. \A o \in OrderIds : orders[o].lock \in Sessions \cup {None}
  BY DEF Coherent, TypeOK, Row
<1>2. s # None
  BY SessionAssumption
<1>3. Committed' = Committed
  BY DEF Committed
<1>4. Pending[n] = NoFill /\ Pending'[n] = FillOf(orders[n].new, tx'[s].profit)
  BY <1>2 DEF Pending, Fill
<1>5. ASSUME NEW o \in OrderIds \ {n} PROVE Pending'[o] = Pending[o]
  <2>1. CASE orders[o].lock = s
    BY <1>5, <2>1 DEF Pending
  <2>2. CASE orders[o].lock # s
    BY <1>1, <1>5, <2>2 DEF Pending, Steps
  <2> QED BY <2>1, <2>2
<1> QED BY <1>3, <1>4, <1>5

\* COMMIT makes the pending fills of s committed ones, ROLLBACK forgets them.
LEMMA EndFills ==
  ASSUME Coherent, NEW s \in Sessions, Steps(s), tx'[s] = Idle, NEW o \in OrderIds
  PROVE  /\ orders' = Keep(orders, s) /\ tx[s].pc # "wallet" =>
              /\ Pending'[o] = Pending[o]
              /\ Committed'[o] = IF orders[o].lock = s THEN Pending[o] ELSE Committed[o]
         /\ orders' = Undo(orders, s) =>
              /\ Committed'[o] = Committed[o]
              /\ Pending'[o] = IF orders[o].lock = s THEN Committed[o] ELSE Pending[o]
<1>0. orders \in [OrderIds -> Row(Order \cup {NoOrder})]
  BY DEF Coherent, TypeOK
<1>1. orders[o].lock \in Sessions \cup {None} /\ s # None
  BY <1>0, SessionAssumption DEF Row
<1>2. CASE orders[o].lock # s
  <2>1. orders' = Keep(orders, s) \/ orders' = Undo(orders, s) => orders'[o] = orders[o]
    BY <1>0, <1>2, EndedRows
  <2>2. orders[o].lock # None => tx'[orders[o].lock] = tx[orders[o].lock]
    BY <1>1, <1>2 DEF Steps
  <2>3. orders'[o] = orders[o] => Pending'[o] = Pending[o] /\ Committed'[o] = Committed[o]
    BY <2>2 DEF Pending, Committed
  <2> QED BY <1>2, <2>1, <2>3
<1>3. CASE orders[o].lock = s
  <2>1. ASSUME orders' = Keep(orders, s), tx[s].pc # "wallet"
        PROVE  Pending'[o] = Pending[o] /\ Committed'[o] = Pending[o]
    <3>1. orders'[o] = Fresh(orders[o].new)
      BY <1>0, <1>3, <2>1, EndedRows
    <3>2. orders'[o].new = orders[o].new /\ orders'[o].old = orders[o].new /\ orders'[o].lock = None
      BY <3>1, FreshRows
    <3> QED BY <1>3, <2>1, <3>2 DEF Pending, Committed, Fill
  <2>2. ASSUME orders' = Undo(orders, s)
        PROVE  Committed'[o] = Committed[o] /\ Pending'[o] = Committed[o]
    <3>1. orders'[o] = Fresh(orders[o].old)
      BY <1>0, <1>3, <2>2, EndedRows
    <3>2. orders'[o].new = orders[o].old /\ orders'[o].old = orders[o].old /\ orders'[o].lock = None
      BY <3>1, FreshRows
    <3> QED BY <3>2 DEF Pending, Committed, Fill
  <2> QED BY <1>3, <2>1, <2>2
<1> QED BY <1>2, <1>3

-----------------------------------------------------------------------------
(* The shapes of a step *)

\* Whoever holds a row of table R still holds it in Q; the rows have the same values.
Holds(K, R, Q)    == \A k \in K : R[k].lock # None => Q[k].lock = R[k].lock
SameRows(K, R, Q) == \A k \in K : Q[k].new = R[k].new /\ Q[k].old = R[k].old

LEMMA HeldRows ==
  ASSUME NEW K, NEW V, NEW R \in [K -> Row(V)], NEW s \in Sessions
  PROVE  /\ Holds(K, R, R) /\ SameRows(K, R, R)
         /\ \A k \in K : Free(R[k], s) => Holds(K, R, Lock(R, k, s)) /\ SameRows(K, R, Lock(R, k, s))
         /\ \A k \in K : \A v \in V : Free(R[k], s) => Holds(K, R, Write(R, k, s, v))
<1>1. Holds(K, R, R) /\ SameRows(K, R, R)
  BY DEF Holds, SameRows
<1>2. ASSUME NEW k \in K, Free(R[k], s)
      PROVE  Holds(K, R, Lock(R, k, s)) /\ SameRows(K, R, Lock(R, k, s))
  BY <1>2, LockedRows DEF Holds, SameRows, Free
<1>3. ASSUME NEW k \in K, NEW v \in V, Free(R[k], s) PROVE Holds(K, R, Write(R, k, s, v))
  BY <1>3, WrittenRows DEF Holds, Free
<1> QED BY <1>1, <1>2, <1>3

\* A statement that takes locks at most.
Rest(s) ==
  /\ UNCHANGED orders
  /\ Holds(Users, wallet, wallet') /\ SameRows(Users, wallet, wallet')
  /\ LeavesOthers(Users, wallet, wallet', s)
  /\ Holds(Keys, holding, holding') /\ SameRows(Keys, holding, holding')
  /\ tx[s].pc # "wallet" /\ tx'[s].pc # "wallet"

\* One that writes an order, but does not fill it.
Rewrites(s) ==
  /\ \E n \in OrderIds : \E v \in Order :
       /\ Free(orders[n], s) /\ orders' = Write(orders, n, s, v)
       /\ v.status # "filled" /\ orders[n].new.status # "filled"
  /\ UNCHANGED <<wallet, holding>>
  /\ tx[s].pc # "wallet" /\ tx'[s].pc # "wallet"

LEMMA LocksRest ==
  ASSUME Covered, NEW s \in Sessions,
         CheckFunds(s) \/ CheckHolding(s) \/ WaitForHolding(s) \/ OpenCursor(s)
  PROVE  Steps(s) /\ (Rest(s) \/ Rollback(s))
<1> USE DEF Covered
<1>1. /\ wallet \in [Users -> Row(Wallet)] /\ holding \in [Keys -> Row(Holding)]
      /\ tx \in [Sessions -> Transaction] /\ tx[s] \in Transaction
  BY StepFacts DEF Coherent, TypeOK
<1>2. ASSUME Raise(s) PROVE Steps(s) /\ Rollback(s)
  BY <1>1, <1>2 DEF Raise, Rollback, Steps
<1>3. CASE CheckFunds(s)
  <2> DEFINE u == TheOrder(s).user
  <2>1. CASE /\ Free(wallet[u], s) /\ wallet' = Lock(wallet, u, s)
             /\ tx' = [tx EXCEPT ![s].pc = "portfolio"]
             /\ UNCHANGED <<holding, orders, cache, now, left, calls, crashes>>
    <3>1. u \in Users /\ tx[s].pc = "check"
      BY <1>3, FillTypes DEF CheckFunds
    <3>2. tx'[s].pc = "portfolio" /\ Steps(s)
      BY <1>1, <2>1 DEF Steps, Transaction
    <3>3. /\ Holds(Users, wallet, wallet') /\ SameRows(Users, wallet, wallet')
          /\ LeavesOthers(Users, wallet, wallet', s)
      BY <1>1, <2>1, <3>1, HeldRows, OthersRows
    <3>4. Holds(Keys, holding, holding') /\ SameRows(Keys, holding, holding')
      BY <1>1, <2>1, HeldRows
    <3> QED BY <2>1, <3>1, <3>2, <3>3, <3>4 DEF Rest
  <2> QED BY <1>2, <1>3, <2>1 DEF CheckFunds
<1>4. CASE CheckHolding(s)
  <2> DEFINE k == Key(s)
             o == TheOrder(s)
  <2>1. CASE /\ Free(holding[k], s) \/ holding[k].old.quantity = 0
             /\ Current(s).quantity >= o.quantity
             /\ holding' = Lock(holding, k, s)
             /\ tx' = [tx EXCEPT ![s].pc = "portfolio", ![s].seen = None]
             /\ UNCHANGED <<wallet, orders, cache, now, left, calls, crashes>>
    <3>1. k \in Keys /\ o.quantity \in Nat \ {0} /\ tx[s].pc = "check"
      BY <1>4, FillTypes DEF CheckHolding
    <3>2. holding[k].new \in Holding /\ holding[k].old \in Holding
      BY <1>1, <3>1 DEF Row
    <3>3. Current(s).quantity = 0 \/ Current(s) = Seen(holding[k], s)
      BY <3>2 DEF Current, Seen, Holding
    <3>4. Free(holding[k], s)
      BY <2>1, <3>1, <3>3 DEF Seen, Free
    <3>5. tx'[s].pc = "portfolio" /\ Steps(s)
      BY <1>1, <2>1 DEF Steps, Transaction
    <3>6. Holds(Keys, holding, holding') /\ SameRows(Keys, holding, holding')
      BY <1>1, <2>1, <3>1, <3>4, HeldRows
    <3>7. /\ Holds(Users, wallet, wallet') /\ SameRows(Users, wallet, wallet')
          /\ LeavesOthers(Users, wallet, wallet', s)
      BY <1>1, <2>1, HeldRows, OthersRows
    <3> QED BY <2>1, <3>1, <3>5, <3>6, <3>7 DEF Rest
  <2> QED BY <1>2, <1>4, <2>1 DEF CheckHolding
<1>5. CASE WaitForHolding(s) \/ OpenCursor(s)
  <2>1. UNCHANGED rows /\ tx[s].pc # "wallet" /\ tx'[s].pc # "wallet" /\ Steps(s)
    BY <1>1, <1>5 DEF WaitForHolding, OpenCursor, Steps, Transaction
  <2>2. /\ Holds(Users, wallet, wallet') /\ SameRows(Users, wallet, wallet')
        /\ LeavesOthers(Users, wallet, wallet', s)
    BY <1>1, <2>1, HeldRows, OthersRows DEF rows
  <2>3. Holds(Keys, holding, holding') /\ SameRows(Keys, holding, holding')
    BY <1>1, <2>1, HeldRows DEF rows
  <2> QED BY <2>1, <2>2, <2>3 DEF Rest, rows
<1> QED BY <1>3, <1>4, <1>5

\* The start of a transaction that writes nothing yet.
LEMMA BeginsRest ==
  ASSUME Coherent, NEW s \in Sessions, tx[s].pc = "idle", UNCHANGED rows,
         NEW t, Begin(s, t), t.pc # "wallet"
  PROVE  Steps(s) /\ Rest(s)
<1>1. /\ wallet \in [Users -> Row(Wallet)] /\ holding \in [Keys -> Row(Holding)]
      /\ tx \in [Sessions -> Transaction]
  BY DEF Coherent, TypeOK
<1>2. tx'[s] = t /\ Steps(s)
  BY <1>1 DEF Begin, Steps
<1>3. /\ Holds(Users, wallet, wallet') /\ SameRows(Users, wallet, wallet')
      /\ LeavesOthers(Users, wallet, wallet', s)
  BY <1>1, HeldRows, OthersRows DEF rows
<1>4. Holds(Keys, holding, holding') /\ SameRows(Keys, holding, holding')
  BY <1>1, HeldRows DEF rows
<1> QED BY <1>2, <1>3, <1>4 DEF Rest, rows

\* An order is placed, taken up by the matcher or cancelled.
LEMMA PlacesOrder ==
  ASSUME Coherent, NEW s \in Sessions, NEW u \in Users, NEW a \in Assets, NEW side \in Sides,
         NEW kind \in Kinds, NEW q \in Quantities, NEW target \in Targets \cup {None},
         NEW expiry \in Expiries \cup {None}, PlaceOrder(s, u, a, side, kind, q, target, expiry)
  PROVE  Steps(s) /\ Rewrites(s)
<1> DEFINE o == calls + 1
           order == [status |-> "open", user |-> u, asset |-> a, side |-> side, kind |-> kind,
                     quantity |-> q, price |-> IF target = None THEN cache[a] ELSE target,
                     target_price |-> target, expires_at |-> expiry, created_at |-> now,
                     trades |-> << >>]
           t == IF kind = "market" THEN [Idle EXCEPT !.pc = "check", !.start = now, !.order = o]
                                   ELSE [Idle EXCEPT !.pc = "next", !.start = now]
<1>1. tx'[s] = t /\ Steps(s) /\ tx[s].pc = "idle"
  BY DEF PlaceOrder, Begin, Steps, Coherent, TypeOK
<1>2. t.pc # "wallet"
  BY DEF Idle
<1>3. o \in OrderIds /\ orders[o] = Fresh(NoOrder)
  <2>1. calls \in Nat /\ o \in OrderIds /\ o > calls
    BY StepFacts, BoundAssumption DEF PlaceOrder, Coherent, TypeOK, OrderIds
  <2> QED BY <2>1 DEF Coherent, RowsCoherent
<1>4. order \in Order
  <2>1. cache[a] \in (Nat \ {0}) \cup {None} /\ Targets \subseteq Nat \ {0} /\ now \in Nat
    BY InputAssumption, StepFacts DEF Coherent, TypeOK
  <2>2. (IF target = None THEN cache[a] ELSE target) \in Nat \ {0}
    BY <2>1 DEF PlaceOrder
  <2> QED BY <2>1, <2>2 DEF Order
<1>5. orders' = Write(orders, o, s, order) /\ order.status # "filled" /\ UNCHANGED <<wallet, holding>>
  BY DEF PlaceOrder
<1>6. Free(orders[o], s) /\ orders[o].new.status # "filled"
  BY <1>3, FreshRows DEF Free, NoOrder
<1> HIDE DEF o, order, t
<1> QED BY <1>1, <1>2, <1>3, <1>4, <1>5, <1>6 DEF Rewrites

LEMMA TakesUpOrder ==
  ASSUME Coherent, Once, NEW s \in Sessions, NextOrder(s) PROVE Steps(s) /\ Rewrites(s)
<1>1. PICK o \in tx[s].todo :
        /\ s \in Matchers /\ tx[s].pc = "next" /\ Free(orders[o], s)
        /\ orders' = Write(orders, o, s, [orders[o].new EXCEPT !.price = tx[s].price])
        /\ tx' = [tx EXCEPT ![s].pc = "check", ![s].order = o, ![s].todo = @ \ {o}]
        /\ UNCHANGED <<wallet, holding, cache, now, left, calls, crashes>>
  BY DEF NextOrder
<1> DEFINE v == [orders[o].new EXCEPT !.price = tx[s].price]
<1>2. tx[s] \in Transaction /\ TxOnce(s) /\ Ready(s)
  BY StepFacts DEF Coherent, TxCoherent, Once
<1>3. o \in OrderIds /\ Untraded(o) /\ tx[s].price \in Nat \ {0}
  BY <1>1, <1>2, InputAssumption DEF Transaction, TxOnce, Ready
<1>4. orders[o].new \in Order
  BY <1>1, <1>2, <1>3 DEF Ready, Coherent, RowsCoherent, TypeOK, Row
<1>5. v \in Order /\ v.status = orders[o].new.status
  BY <1>3, <1>4 DEF Order
<1>6. orders[o].new.status # "filled"
  BY <1>3 DEF Once, RowOnce, Untraded
<1>7. tx'[s].pc = "check" /\ Steps(s)
  BY <1>1, <1>2 DEF Steps, Coherent, TypeOK, Transaction
<1> HIDE DEF v
<1> QED BY <1>1, <1>3, <1>5, <1>6, <1>7 DEF Rewrites, v

LEMMA CancelsOrder ==
  ASSUME Coherent, NEW s \in Sessions, ExpireOne(s) PROVE Steps(s) /\ (Rewrites(s) \/ Rest(s))
<1> DEFINE v(o) == [orders[o].new EXCEPT !.status = "cancelled"]
<1>1. PICK o \in tx[s].todo :
        /\ tx[s].pc = "next" /\ Free(orders[o], s)
        /\ orders' = IF Stale(orders[o].new, tx[s].start) THEN Write(orders, o, s, v(o)) ELSE orders
        /\ tx' = [tx EXCEPT ![s].todo = @ \ {o}]
        /\ UNCHANGED <<wallet, holding, cache, now, left, calls, crashes>>
  BY DEF ExpireOne
<1>2. tx[s] \in Transaction /\ Ready(s) /\ o \in OrderIds
  BY <1>1, StepFacts DEF Coherent, TxCoherent, Transaction
<1>3. orders[o].new \in Order
  BY <1>1, <1>2 DEF Ready, Coherent, RowsCoherent, TypeOK, Row
<1>4. v(o) \in Order /\ v(o).status = "cancelled"
  BY <1>3 DEF Order
<1>5. tx'[s].pc = "next" /\ Steps(s)
  BY <1>1, <1>2 DEF Steps, Coherent, TypeOK, Transaction
<1>6. CASE Stale(orders[o].new, tx[s].start)
  <2>1. orders[o].new.status = "open"
    BY <1>6 DEF Stale
  <2> HIDE DEF v
  <2> QED BY <1>1, <1>2, <1>4, <1>5, <1>6, <2>1 DEF Rewrites
<1>7. CASE ~Stale(orders[o].new, tx[s].start)
  <2>1. wallet \in [Users -> Row(Wallet)] /\ holding \in [Keys -> Row(Holding)]
    BY DEF Coherent, TypeOK
  <2>2. /\ Holds(Users, wallet, wallet') /\ SameRows(Users, wallet, wallet')
        /\ LeavesOthers(Users, wallet, wallet', s)
    BY <1>1, <2>1, HeldRows, OthersRows
  <2>3. Holds(Keys, holding, holding') /\ SameRows(Keys, holding, holding')
    BY <1>1, <2>1, HeldRows
  <2> QED BY <1>1, <1>5, <1>7, <2>2, <2>3 DEF Rest
<1> QED BY <1>6, <1>7

\* A step changes nothing in the tables and transactions, or it is one of these.
LEMMA StepShapes ==
  ASSUME Covered, Once, [Next]_vars
  PROVE  \/ UNCHANGED <<rows, tx>>
         \/ \E s \in Sessions :
              /\ Steps(s)
              /\ \/ Rest(s) \/ Rewrites(s) \/ Commit(s) \/ Rollback(s)
                 \/ MoveCash(s) \/ UpdatePortfolio(s) \/ UpdateWallet(s)
<1> USE DEF Covered
<1> DEFINE P(s) == /\ Steps(s)
                   /\ \/ Rest(s) \/ Rewrites(s) \/ Commit(s) \/ Rollback(s)
                      \/ MoveCash(s) \/ UpdatePortfolio(s) \/ UpdateWallet(s)
<1>0. tx \in [Sessions -> Transaction]
  BY DEF Coherent, TypeOK
<1>1. ASSUME NEW s \in Sessions, Rollback(s) PROVE P(s)
  BY <1>0, <1>1 DEF Rollback, Steps
<1>2. ASSUME NEW s \in Web, Request(s) PROVE \E t \in Sessions : P(t)
  <2>1. s \in Sessions
    BY DEF Sessions
  <2>2. ASSUME NEW u \in Users, NEW amount \in Amounts, RequestCash(s, u, amount) PROVE P(s)
    <3> DEFINE t == [Idle EXCEPT !.pc = "cash", !.start = now, !.user = u, !.amount = amount]
    <3>1. t.pc = "cash"
      BY DEF Idle
    <3>2. tx[s].pc = "idle" /\ UNCHANGED rows /\ Begin(s, t)
      BY <2>2 DEF RequestCash
    <3> HIDE DEF t
    <3> QED BY <2>1, <3>1, <3>2, BeginsRest
  <2>3. ASSUME NEW u \in Users, NEW a \in Assets, NEW side \in Sides,
               NEW kind \in Kinds, NEW q \in Quantities, NEW target \in Targets \cup {None},
               NEW expiry \in Expiries \cup {None},
               PlaceOrder(s, u, a, side, kind, q, target, expiry)
        PROVE  P(s)
    BY <2>1, <2>3, PlacesOrder
  <2> HIDE DEF P
  <2> QED BY <1>2, <2>1, <2>2, <2>3 DEF Request
<1>3. ASSUME NEW s \in Sessions, MoveCash(s) \/ UpdatePortfolio(s) \/ UpdateWallet(s) \/ Commit(s)
      PROVE  P(s)
  <2>1. ASSUME Raise(s) PROVE P(s)
    BY <1>1, <2>1 DEF Raise
  <2>2. ASSUME NEW x, tx' = [tx EXCEPT ![s] = x] PROVE Steps(s)
    BY <1>0, <2>2 DEF Steps
  <2>3. Raise(s) \/ Steps(s)
    <3>1. CASE MoveCash(s)
      BY <1>0, <3>1 DEF MoveCash, Steps
    <3>2. CASE UpdatePortfolio(s)
      BY <1>0, <3>2 DEF UpdatePortfolio, Steps
    <3>3. CASE UpdateWallet(s)
      BY <1>0, <3>3 DEF UpdateWallet, Steps
    <3>4. CASE Commit(s)
      BY <2>2, <3>4 DEF Commit
    <3> QED BY <1>3, <3>1, <3>2, <3>3, <3>4
  <2> QED BY <1>3, <2>1, <2>3
<1>4. ASSUME NEW s \in Matchers, NEW a \in Assets, ReadPrice(s, a) PROVE \E t \in Sessions : P(t)
  <2> DEFINE t == [Idle EXCEPT !.pc = IF cache[a] = None THEN "next" ELSE "cursor",
                               !.start = now, !.asset = a, !.price = cache[a]]
  <2>1. s \in Sessions /\ t.pc # "wallet"
    BY DEF Sessions, Idle
  <2>2. tx[s].pc = "idle" /\ UNCHANGED rows /\ Begin(s, t)
    BY <1>4 DEF ReadPrice
  <2> HIDE DEF t
  <2> QED BY <2>1, <2>2, BeginsRest
<1>5. ASSUME NEW s \in Expirers, FindStale(s) PROVE \E t \in Sessions : P(t)
  <2> DEFINE t == [Idle EXCEPT !.pc = "next", !.start = now,
                               !.todo = {o \in OrderIds : Stale(orders[o].old, now)}]
  <2>1. s \in Sessions /\ t.pc # "wallet"
    BY DEF Sessions, Idle
  <2>2. tx[s].pc = "idle" /\ UNCHANGED rows /\ Begin(s, t)
    BY <1>5 DEF FindStale
  <2> HIDE DEF t
  <2> QED BY <2>1, <2>2, BeginsRest
<1>6. ASSUME NEW s \in Sessions,
             CheckFunds(s) \/ CheckHolding(s) \/ WaitForHolding(s) \/ OpenCursor(s)
      PROVE  P(s)
  BY <1>6, LocksRest
<1>7. ASSUME NEW s \in Sessions, NextOrder(s) \/ ExpireOne(s) PROVE P(s)
  BY <1>7, TakesUpOrder, CancelsOrder
<1>8. ASSUME NEW s \in Sessions, AbortDeadlock(s) \/ Crash(s) PROVE P(s)
  BY <1>1, <1>8 DEF AbortDeadlock, Raise, Crash
<1>9. ASSUME (\E s \in Matchers : StartRun(s)) \/ (\E a \in Assets, p \in Prices : PriceTick(a, p))
             \/ Tick \/ UNCHANGED vars
      PROVE  UNCHANGED <<rows, tx>>
  BY <1>9 DEF StartRun, PriceTick, Tick, vars
<1> HIDE DEF P
<1>10. UNCHANGED <<rows, tx>> \/ \E s \in Sessions : P(s)
  BY <1>2, <1>3, <1>4, <1>5, <1>6, <1>7, <1>8, <1>9
  DEF Next, StartJob, Statement, ExecuteTrade
<1> QED BY <1>10 DEF P

-----------------------------------------------------------------------------
(* Both versions of the books stay balanced *)

LEMMA InitBalanced == Init => Balanced
<1> SUFFICES ASSUME Init PROVE Balanced
  OBVIOUS
<1>1. \A o \in OrderIds : orders[o] = Fresh(NoOrder)
  BY DEF Init
<1>2. \A o \in OrderIds : Committed[o] = NoFill /\ Pending[o] = NoFill
  BY <1>1, FreshRows DEF Committed, Pending, Fill, NoOrder
<1>3. Committed \in FillBook /\ Pending \in FillBook
  <2>1. Committed = [o \in OrderIds |-> Committed[o]] /\ Pending = [o \in OrderIds |-> Pending[o]]
    BY DEF Committed, Pending
  <2> QED BY <1>2, <2>1 DEF FillBook
<1>4. ASSUME NEW o \in OrderIds PROVE FillHeld(o)
  BY <1>1, <1>2, FreshRows DEF FillHeld, NoOrder
<1>5. ASSUME NEW F \in FillBook, \A o \in OrderIds : F[o] = NoFill, NEW k \in Keys,
             NEW h, h.quantity = Endowed[k].quantity, h.avg_price = Endowed[k].avg_price
      PROVE  AddsUp(h, F, k) /\ Costs(h, F, k)
  <2>1. /\ Shares(F, k, "buy") = 0 /\ Shares(F, k, "sell") = 0
        /\ Value(F, k, "buy") = 0 /\ Value(F, k, "sell") = 0
        /\ Purchases(F, k) = 0 /\ Profit(F, k) = 0
    BY <1>5, SumTypes
  <2>2. Endowed[k].quantity \in Nat /\ Endowed[k].avg_price \in Nat
    BY InitialAssumption
  <2>3. h.quantity * h.avg_price \in Nat /\ h.quantity * h.avg_price = Endowed[k].quantity * Endowed[k].avg_price
    BY <1>5, <2>2, Products
  <2> QED BY <1>5, <2>1, <2>2, <2>3 DEF AddsUp, Costs, Basis
<1>6. ASSUME NEW k \in Keys
      PROVE  /\ holding[k].old.quantity = Endowed[k].quantity /\ holding[k].old.avg_price = Endowed[k].avg_price
             /\ holding[k].new.quantity = Endowed[k].quantity /\ holding[k].new.avg_price = Endowed[k].avg_price
  BY FreshRows DEF Init
<1>7. ASSUME NEW k \in Keys
      PROVE  /\ AddsUp(holding[k].old, Committed, k) /\ AddsUp(holding[k].new, Pending, k)
             /\ Costs(holding[k].old, Committed, k) /\ Costs(holding[k].new, Pending, k)
  BY <1>2, <1>3, <1>5, <1>6
<1> QED BY <1>4, <1>7 DEF Balanced

\* A row with a fill has a key.
LEMMA FillKeys ==
  ASSUME Coherent, Once, NEW o \in OrderIds
  PROVE  /\ Pending[o].filled => Pending[o].key \in Keys
         /\ orders[o].new.status = "filled" => orders[o].new.user \in Users
<1>1. Pending[o] \in Fills \cup {NoFill}
  BY FillTables DEF FillBook
<1>2. \A f \in Fills : f.key \in Keys
  BY DEF Fills
<1>3. ~NoFill.filled
  BY DEF NoFill
<1>4. orders[o].new \in Order \cup {NoOrder}
  BY DEF Coherent, TypeOK, Row
<1> QED BY <1>1, <1>2, <1>3, <1>4 DEF Order, NoOrder

\* A step that neither makes nor ends a fill, nor changes a position.
LEMMA QuietBalanced ==
  ASSUME Coherent, Once, Balanced, Committed' = Committed, Pending' = Pending,
         SameRows(Keys, holding, holding'), Holds(Keys, holding, holding'),
         Holds(Users, wallet, wallet'), Holds(OrderIds, orders, orders'),
         \A o \in OrderIds :
           \/ orders'[o].new = orders[o].new /\ orders'[o].old = orders[o].old
           \/ orders'[o].new.status # "filled"
           \/ orders'[o].lock # None /\ wallet'[orders'[o].new.user].lock = orders'[o].lock
  PROVE  Balanced'
<1>1. ASSUME NEW o \in OrderIds PROVE FillHeld(o)'
  <2>1. FillHeld(o)
    BY DEF Balanced
  <2>2. Pending[o] # Committed[o] =>
          /\ ~Committed[o].filled /\ Pending[o].filled /\ orders'[o].lock # None
          /\ holding'[Pending[o].key].lock = orders'[o].lock
    BY <2>1, FillKeys DEF FillHeld, Holds
  <2>3. orders'[o].new.status = "filled" /\ orders'[o].old.status # "filled" =>
          orders'[o].lock # None /\ wallet'[orders'[o].new.user].lock = orders'[o].lock
    BY <2>1, FillKeys DEF FillHeld, Holds
  <2> QED BY <2>2, <2>3 DEF FillHeld
<1>2. ASSUME NEW k \in Keys
      PROVE  /\ AddsUp(holding'[k].old, Committed', k) /\ AddsUp(holding'[k].new, Pending', k)
             /\ Costs(holding'[k].old, Committed', k) /\ Costs(holding'[k].new, Pending', k)
  BY DEF Balanced, SameRows
<1> QED BY <1>1, <1>2 DEF Balanced

LEMMA RestBalanced == ASSUME Coherent, Once, Balanced, NEW s \in Sessions, Steps(s), Rest(s) PROVE Balanced'
<1>1. Committed' = Committed /\ Pending' = Pending
  BY SameFills DEF Rest
<1>2. Holds(OrderIds, orders, orders')
  BY DEF Rest, Holds
<1> QED BY <1>1, <1>2, QuietBalanced DEF Rest

LEMMA RewritesBalanced ==
  ASSUME Coherent, Once, Balanced, NEW s \in Sessions, Steps(s), Rewrites(s) PROVE Balanced'
<1>1. PICK n \in OrderIds : \E v \in Order :
        /\ Free(orders[n], s) /\ orders' = Write(orders, n, s, v)
        /\ v.status # "filled" /\ orders[n].new.status # "filled"
  BY DEF Rewrites
<1>2. PICK v \in Order :
        /\ Free(orders[n], s) /\ orders' = Write(orders, n, s, v)
        /\ v.status # "filled" /\ orders[n].new.status # "filled"
  BY <1>1
<1>0. orders \in [OrderIds -> Row(Order \cup {NoOrder})]
  BY DEF Coherent, TypeOK
<1>3. Pending[n] = NoFill /\ Fill(v) = NoFill
  BY <1>2, NotFilling DEF Rewrites, Free, Fill
<1>4. Committed' = Committed /\ Pending' = Pending
  BY <1>2, <1>3, WriteFills DEF Rewrites
<1>5. Holds(OrderIds, orders, orders')
  BY <1>0, <1>2, HeldRows
<1>6. \A o \in OrderIds : \/ orders'[o].new = orders[o].new /\ orders'[o].old = orders[o].old
                          \/ orders'[o].new.status # "filled"
  BY <1>0, <1>2, WrittenRows
<1>7. /\ SameRows(Keys, holding, holding') /\ Holds(Keys, holding, holding')
      /\ Holds(Users, wallet, wallet')
  BY DEF Rewrites, SameRows, Holds
<1> QED BY <1>4, <1>5, <1>6, <1>7, QuietBalanced

\* The wallet row MoveCash writes.
LEMMA CashMoves ==
  ASSUME Coherent, NEW s \in Sessions, MoveCash(s)
  PROVE  \/ Rollback(s)
         \/ LET u == tx[s].user
                b == wallet[u].new.balance + tx[s].amount
                w == [balance |-> b, audit |-> Audited(wallet[u].new, b, tx[s].start)]
            IN  /\ tx[s].pc = "cash" /\ u \in Users /\ Free(wallet[u], s) /\ Fits(b)
                /\ w \in Wallet /\ wallet' = Write(wallet, u, s, w)
                /\ tx'[s] = [tx[s] EXCEPT !.pc = "next"] /\ UNCHANGED <<holding, orders>>
<1> DEFINE u == tx[s].user
           b == wallet[u].new.balance + tx[s].amount
<1>1. CASE /\ Free(wallet[u], s) /\ Fits(b) /\ wallet' = SetBalance(s, u, b)
           /\ tx' = [tx EXCEPT ![s].pc = "next"]
           /\ UNCHANGED <<holding, orders, cache, now, left, calls, crashes>>
  <2>1. Ready(s) /\ tx[s].pc = "cash" /\ tx \in [Sessions -> Transaction]
    BY DEF MoveCash, Coherent, TxCoherent, TypeOK
  <2>2. u \in Users
    BY <2>1 DEF Ready
  <2> DEFINE w == [balance |-> b, audit |-> Audited(wallet[u].new, b, tx[s].start)]
  <2>3. w \in Wallet /\ wallet' = Write(wallet, u, s, w)
    BY <1>1, <2>2, BalanceTypes DEF SetBalance, Coherent
  <2>4. tx'[s] = [tx[s] EXCEPT !.pc = "next"]
    BY <1>1, <2>1
  <2> HIDE DEF w, b
  <2>5. /\ tx[s].pc = "cash" /\ u \in Users /\ Free(wallet[u], s) /\ Fits(b)
        /\ w \in Wallet /\ wallet' = Write(wallet, u, s, w)
        /\ tx'[s] = [tx[s] EXCEPT !.pc = "next"] /\ UNCHANGED <<holding, orders>>
    BY <1>1, <2>1, <2>2, <2>3, <2>4
  <2> QED BY <2>5 DEF w, b
<1> QED BY <1>1 DEF MoveCash, Raise

LEMMA CashBalanced ==
  ASSUME Coherent, Once, Balanced, NEW s \in Sessions, Steps(s), MoveCash(s), ~Rollback(s)
  PROVE  Balanced'
<1> DEFINE u == tx[s].user
           b == wallet[u].new.balance + tx[s].amount
           w == [balance |-> b, audit |-> Audited(wallet[u].new, b, tx[s].start)]
<1>1. /\ tx[s].pc = "cash" /\ u \in Users /\ Free(wallet[u], s)
      /\ w \in Wallet /\ wallet' = Write(wallet, u, s, w)
      /\ tx'[s] = [tx[s] EXCEPT !.pc = "next"] /\ UNCHANGED <<holding, orders>>
  BY CashMoves
<1> HIDE DEF u, b, w
<1>2. tx'[s].pc = "next" /\ wallet \in [Users -> Row(Wallet)]
  BY <1>1, StepFacts DEF Coherent, TypeOK, Transaction
<1>3. Committed' = Committed /\ Pending' = Pending
  BY <1>1, <1>2, SameFills
<1>4. Holds(Users, wallet, wallet')
  BY <1>1, <1>2, HeldRows
<1>5. /\ SameRows(Keys, holding, holding') /\ Holds(Keys, holding, holding')
      /\ Holds(OrderIds, orders, orders')
  BY <1>1 DEF SameRows, Holds
<1>6. \A o \in OrderIds : orders'[o].new = orders[o].new /\ orders'[o].old = orders[o].old
  BY <1>1
<1> QED BY <1>3, <1>4, <1>5, <1>6, QuietBalanced

\* The rows the last statement of a fill writes.
LEMMA FillEnds ==
  ASSUME Coherent, Once, NEW s \in Sessions, UpdateWallet(s)
  PROVE  \/ Rollback(s)
         \/ LET n == tx[s].order
                o == orders[n].new
                b == wallet[o.user].new.balance + Proceeds(o)
                w == [balance |-> b, audit |-> Audited(wallet[o.user].new, b, tx[s].start)]
                trade == [price |-> o.price, profit |-> tx[s].profit, booked |-> ProfitBooked(s)]
                v == [o EXCEPT !.status = "filled", !.trades = Append(@, trade)]
            IN  /\ tx[s].pc = "wallet" /\ n \in OrderIds /\ orders[n].lock = s /\ o \in Order
                /\ Len(o.trades) = 0 /\ orders[n].old.status # "filled" /\ o.status # "filled"
                /\ Free(wallet[o.user], s) /\ Fits(b)
                /\ w \in Wallet /\ wallet' = Write(wallet, o.user, s, w)
                /\ v \in Order /\ orders' = Write(orders, n, s, v)
                /\ tx'[s] = [tx[s] EXCEPT !.pc = "next", !.order = None, !.profit = 0]
                /\ UNCHANGED holding
<1> DEFINE n == tx[s].order
           o == TheOrder(s)
           b == wallet[o.user].new.balance + Proceeds(o)
           trade == [price |-> o.price, profit |-> tx[s].profit, booked |-> ProfitBooked(s)]
           v == [o EXCEPT !.status = "filled", !.trades = Append(@, trade)]
<1>1. CASE /\ Free(wallet[o.user], s) /\ Fits(b) /\ wallet' = SetBalance(s, o.user, b)
           /\ orders' = Write(orders, n, s, v)
           /\ tx' = [tx EXCEPT ![s].pc = "next", ![s].order = None, ![s].profit = 0]
           /\ UNCHANGED <<holding, cache, now, left, calls, crashes>>
  <2>1. /\ tx[s].pc = "wallet" /\ n \in OrderIds /\ orders[n].lock = s /\ o \in Order /\ o.user \in Users
        /\ Ready(s) /\ TxOnce(s) /\ tx \in [Sessions -> Transaction]
    BY FillTypes DEF UpdateWallet, Ready, Coherent, TxCoherent, TypeOK, Once
  <2>2. v \in Order
    BY <2>1, FilledTypes
  <2>3. o = orders[n].new
    BY DEF TheOrder
  <2>4. Len(o.trades) = 0 /\ o.status # "filled" /\ orders[n].old.status # "filled"
    BY <2>1, <2>3 DEF TxOnce, Untraded, Once, RowOnce
  <2>5. tx'[s] = [tx[s] EXCEPT !.pc = "next", !.order = None, !.profit = 0]
    BY <1>1, <2>1
  <2> HIDE DEF o
  <2>6. /\ [balance |-> b, audit |-> Audited(wallet[o.user].new, b, tx[s].start)] \in Wallet
        /\ wallet' = Write(wallet, o.user, s,
                           [balance |-> b, audit |-> Audited(wallet[o.user].new, b, tx[s].start)])
    BY <1>1, <2>1, BalanceTypes DEF SetBalance, Coherent
  <2> HIDE DEF v, trade, b
  <2>7. /\ tx[s].pc = "wallet" /\ n \in OrderIds /\ orders[n].lock = s /\ o \in Order
        /\ Len(o.trades) = 0 /\ orders[n].old.status # "filled" /\ o.status # "filled"
        /\ Free(wallet[o.user], s) /\ Fits(b)
        /\ [balance |-> b, audit |-> Audited(wallet[o.user].new, b, tx[s].start)] \in Wallet
        /\ wallet' = Write(wallet, o.user, s,
                           [balance |-> b, audit |-> Audited(wallet[o.user].new, b, tx[s].start)])
        /\ v \in Order /\ orders' = Write(orders, n, s, v)
        /\ tx'[s] = [tx[s] EXCEPT !.pc = "next", !.order = None, !.profit = 0]
        /\ UNCHANGED holding
    BY <1>1, <2>1, <2>2, <2>4, <2>5, <2>6
  <2> QED BY <2>7 DEF o, TheOrder, v, trade, b
<1>2. Rollback(s) \/
      /\ Free(wallet[o.user], s) /\ Fits(b) /\ wallet' = SetBalance(s, o.user, b)
      /\ orders' = Write(orders, n, s, v)
      /\ tx' = [tx EXCEPT ![s].pc = "next", ![s].order = None, ![s].profit = 0]
      /\ UNCHANGED <<holding, cache, now, left, calls, crashes>>
  BY DEF UpdateWallet, Raise
<1> HIDE DEF v, b
<1> QED BY <1>1, <1>2

\* What an order's fill is when it is filled: the one that was pending.
LEMMA FillShown ==
  ASSUME NEW o \in Order, Len(o.trades) = 0, NEW trade
  PROVE  LET v == [o EXCEPT !.status = "filled", !.trades = Append(@, trade)] IN
         Fill(v) = FillOf(o, trade.profit) /\ v.status = "filled" /\ v.user = o.user
<1> DEFINE v == [o EXCEPT !.status = "filled", !.trades = Append(@, trade)]
<1>1. /\ v.status = "filled" /\ v.user = o.user /\ v.asset = o.asset /\ v.side = o.side
      /\ v.quantity = o.quantity /\ v.price = o.price /\ v.trades = Append(o.trades, trade)
  BY DEF Order
<1>2. v.trades[1] = trade
  BY <1>1 DEF Order
<1>3. FillOf(v, v.trades[1].profit) = FillOf(o, trade.profit)
  BY <1>1, <1>2 DEF FillOf, Cost
<1> QED BY <1>1, <1>3 DEF Fill

LEMMA WalletBalanced ==
  ASSUME Coherent, Once, Balanced, NEW s \in Sessions, Steps(s), UpdateWallet(s), ~Rollback(s)
  PROVE  Balanced'
<1> DEFINE n == tx[s].order
           o == orders[n].new
           b == wallet[o.user].new.balance + Proceeds(o)
           w == [balance |-> b, audit |-> Audited(wallet[o.user].new, b, tx[s].start)]
           trade == [price |-> o.price, profit |-> tx[s].profit, booked |-> ProfitBooked(s)]
           v == [o EXCEPT !.status = "filled", !.trades = Append(@, trade)]
<1>1. /\ tx[s].pc = "wallet" /\ n \in OrderIds /\ orders[n].lock = s /\ o \in Order
      /\ Len(o.trades) = 0 /\ orders[n].old.status # "filled" /\ o.status # "filled"
      /\ Free(wallet[o.user], s)
      /\ w \in Wallet /\ wallet' = Write(wallet, o.user, s, w)
      /\ v \in Order /\ orders' = Write(orders, n, s, v)
      /\ tx'[s] = [tx[s] EXCEPT !.pc = "next", !.order = None, !.profit = 0]
      /\ UNCHANGED holding
  BY FillEnds
<1>2. Fill(v) = FillOf(o, tx[s].profit) /\ v.status = "filled" /\ v.user = o.user
  <2>1. trade.profit = tx[s].profit
    OBVIOUS
  <2> HIDE DEF trade, o
  <2>2. Fill(v) = FillOf(o, trade.profit) /\ v.status = "filled" /\ v.user = o.user
    <3>1. o \in Order /\ Len(o.trades) = 0
      BY <1>1
    <3> QED BY <3>1, FillShown
  <2> QED BY <2>1, <2>2
<1>3. s # None /\ o.user \in Users /\ tx[s] \in Transaction
  BY <1>1, StepFacts, SessionAssumption DEF Order, Coherent
<1> HIDE DEF w, v, trade, b
<1>4. Pending[n] = FillOf(o, tx[s].profit)
  BY <1>1, <1>3 DEF Pending
<1> HIDE DEF o
<1>5. /\ wallet \in [Users -> Row(Wallet)] /\ orders \in [OrderIds -> Row(Order \cup {NoOrder})]
      /\ tx'[s].pc = "next" /\ Free(orders[n], s)
  BY <1>1, <1>3 DEF Coherent, TypeOK, Transaction, Free
<1>6. Committed' = Committed /\ Pending' = Pending
  BY <1>1, <1>2, <1>4, <1>5, WriteFills
<1>7. Holds(Users, wallet, wallet') /\ wallet'[o.user].lock = s
  BY <1>1, <1>3, <1>5, HeldRows, WrittenRows
<1>8. Holds(OrderIds, orders, orders')
  BY <1>1, <1>5, HeldRows
<1>9. SameRows(Keys, holding, holding') /\ Holds(Keys, holding, holding')
  BY <1>1 DEF SameRows, Holds
<1>10. /\ \A p \in OrderIds : orders'[p].new = (IF p = n THEN v ELSE orders[p].new) /\ orders'[p].old = orders[p].old
       /\ orders'[n].lock = s
  BY <1>1, <1>5, WrittenRows
<1>11. \A p \in OrderIds :
         \/ orders'[p].new = orders[p].new /\ orders'[p].old = orders[p].old
         \/ orders'[p].lock # None /\ wallet'[orders'[p].new.user].lock = orders'[p].lock
  BY <1>2, <1>3, <1>7, <1>10
<1> QED BY <1>6, <1>7, <1>8, <1>9, <1>11, QuietBalanced

\* The position a fill works on is the one that ends up in the portfolio.
LEMMA CurrentIsNew ==
  ASSUME Covered, NEW s \in Sessions, tx[s].pc = "portfolio", Free(holding[Key(s)], s)
  PROVE  /\ Current(s) = holding[Key(s)].new
         /\ TheOrder(s).side = "sell" => holding[Key(s)].new.quantity >= TheOrder(s).quantity
<1> DEFINE h == holding[Key(s)]
<1>1. Key(s) \in Keys /\ TheOrder(s) \in Order /\ FillCovered(s)
  BY FillTypes DEF Covered, FillsCovered
<1>2. h.lock = None => h.new = h.old
  BY <1>1 DEF Covered, Coherent, RowsCoherent
<1>3. Seen(h, s) = h.new
  BY <1>2 DEF Seen, Free
<1>4. TheOrder(s).side \in {"buy", "sell"}
  BY <1>1, InputAssumption DEF Order
<1>5. CASE tx[s].seen = None
  BY <1>1, <1>3, <1>4, <1>5 DEF Current, FillCovered
<1>6. CASE tx[s].seen # None
  BY <1>1, <1>2, <1>3, <1>4, <1>6 DEF Current, FillCovered, Free
<1> QED BY <1>5, <1>6

\* The rows the portfolio trigger writes.
LEMMA PositionTrades ==
  ASSUME Covered, Once, NEW s \in Sessions, UpdatePortfolio(s)
  PROVE  \/ Rollback(s)
         \/ LET n == tx[s].order
                o == orders[n].new
                k == <<o.user, o.asset>>
                h == holding[k].new
                g == Traded(o, h, tx[s].start)
                profit == IF o.side = "buy" THEN 0 ELSE (o.price - h.avg_price) * o.quantity
            IN  /\ tx[s].pc = "portfolio" /\ n \in OrderIds /\ orders[n].lock = s /\ o \in Order
                /\ k \in Keys /\ h \in Holding /\ tx[s].start \in Nat
                /\ orders[n].old.status # "filled" /\ o.status # "filled"
                /\ o.side = "sell" => h.quantity >= o.quantity
                /\ Free(holding[k], s) /\ g \in Holding /\ holding' = Write(holding, k, s, g)
                /\ tx'[s] = [tx[s] EXCEPT !.pc = "wallet", !.seen = None, !.profit = profit]
                /\ UNCHANGED <<wallet, orders>>
<1> USE DEF Covered
<1> DEFINE n == tx[s].order
           o == TheOrder(s)
           k == Key(s)
           h == holding[k].new
           g == Traded(o, h, tx[s].start)
           profit == IF o.side = "buy" THEN 0 ELSE (o.price - h.avg_price) * o.quantity
<1>1. SUFFICES ASSUME ~Rollback(s)
      PROVE  /\ tx[s].pc = "portfolio" /\ n \in OrderIds /\ orders[n].lock = s /\ o \in Order
             /\ k \in Keys /\ h \in Holding /\ tx[s].start \in Nat
             /\ orders[n].old.status # "filled" /\ o.status # "filled"
             /\ o.side = "sell" => h.quantity >= o.quantity
             /\ Free(holding[k], s) /\ g \in Holding /\ holding' = Write(holding, k, s, g)
             /\ tx'[s] = [tx[s] EXCEPT !.pc = "wallet", !.seen = None, !.profit = profit]
             /\ UNCHANGED <<wallet, orders>>
  BY DEF TheOrder, Key
<1>2. tx[s].pc = "portfolio" /\ Free(holding[k], s) /\ ~TradeFails(s)
  BY <1>1 DEF UpdatePortfolio, Raise
<1>3. /\ n \in OrderIds /\ orders[n].lock = s /\ o \in Order /\ k \in Keys
      /\ TxOnce(s) /\ tx \in [Sessions -> Transaction] /\ tx[s].start \in Nat
  BY <1>2, FillTypes, StepFacts DEF Ready, Coherent, TxCoherent, TypeOK, Once, Transaction
<1>4. Current(s) = h /\ (o.side = "sell" => h.quantity >= o.quantity)
  BY <1>2, CurrentIsNew
<1>5. /\ holding' = Write(holding, k, s, Traded(o, Current(s), tx[s].start))
      /\ tx' = [tx EXCEPT ![s].pc = "wallet", ![s].seen = None,
                          ![s].profit = IF o.side = "buy" THEN 0
                                        ELSE (o.price - Current(s).avg_price) * o.quantity]
      /\ UNCHANGED <<wallet, orders>>
  BY <1>1, <1>2 DEF UpdatePortfolio, Raise
<1>6. h \in Holding
  BY <1>3 DEF Coherent, TypeOK, Row
<1>7. g \in Holding
  BY <1>3, <1>4, <1>6, TradedTypes
<1>8. o.status # "filled" /\ orders[n].old.status # "filled"
  BY <1>2, <1>3 DEF TxOnce, Untraded, Once, RowOnce, TheOrder
<1>9. tx'[s] = [tx[s] EXCEPT !.pc = "wallet", !.seen = None, !.profit = profit]
  BY <1>3, <1>4, <1>5
<1>10. holding' = Write(holding, k, s, g)
  BY <1>4, <1>5
<1> QED BY <1>2, <1>3, <1>4, <1>5, <1>6, <1>7, <1>8, <1>9, <1>10

LEMMA PortfolioBalanced ==
  ASSUME Covered, Once, Balanced, NEW s \in Sessions, Steps(s), UpdatePortfolio(s), ~Rollback(s)
  PROVE  Balanced'
<1> DEFINE n == tx[s].order
           o == orders[n].new
           k == <<o.user, o.asset>>
           h == holding[k].new
           g == Traded(o, h, tx[s].start)
           profit == IF o.side = "buy" THEN 0 ELSE (o.price - h.avg_price) * o.quantity
           f == FillOf(o, profit)
<1> USE DEF Covered
<1>1. /\ tx[s].pc = "portfolio" /\ n \in OrderIds /\ orders[n].lock = s /\ o \in Order
      /\ k \in Keys /\ h \in Holding /\ tx[s].start \in Nat
      /\ orders[n].old.status # "filled" /\ o.status # "filled"
      /\ o.side = "sell" => h.quantity >= o.quantity
      /\ Free(holding[k], s) /\ g \in Holding /\ holding' = Write(holding, k, s, g)
      /\ tx'[s] = [tx[s] EXCEPT !.pc = "wallet", !.seen = None, !.profit = profit]
      /\ UNCHANGED <<wallet, orders>>
  BY PositionTrades
<1>2. tx'[s].pc = "wallet" /\ tx'[s].order = n /\ tx'[s].profit = profit
  <2>1. tx[s] \in Transaction
    BY StepFacts DEF Coherent
  <2> HIDE DEF profit
  <2> QED BY <1>1, <2>1 DEF Transaction
<1>3. f.filled /\ f.key = k
  BY DEF FillOf
<1> HIDE DEF profit, f, g
<1>4. /\ Committed' = Committed /\ Pending[n] = NoFill /\ Pending'[n] = f
      /\ \A p \in OrderIds \ {n} : Pending'[p] = Pending[p]
  <2>1. tx[s].pc # "wallet"
    BY <1>1
  <2> QED BY <1>1, <1>2, <2>1, TradeFills DEF f
<1> HIDE DEF o, n
<1>5. holding \in [Keys -> Row(Holding)] /\ s # None
  BY SessionAssumption DEF Coherent, TypeOK
<1>6. \A j \in Keys : /\ holding'[j].new = (IF j = k THEN g ELSE holding[j].new)
                      /\ holding'[j].old = holding[j].old
                      /\ holding'[j].lock = (IF j = k THEN s ELSE holding[j].lock)
  BY <1>1, <1>5, WrittenRows
<1>7. ~Committed[n].filled
  BY <1>1 DEF Committed, Fill, NoFill
<1>8. ASSUME NEW p \in OrderIds PROVE FillHeld(p)'
  <2>1. CASE p = n
    <3>1. orders'[n].lock = s /\ holding'[f.key].lock = s
      BY <1>1, <1>3, <1>6
    <3>2. Pending'[n].filled /\ ~Committed'[n].filled
      BY <1>3, <1>4, <1>7
    <3>3. orders'[n].new.status # "filled"
      BY <1>1 DEF o
    <3> QED BY <1>4, <1>5, <2>1, <3>1, <3>2, <3>3 DEF FillHeld
  <2>2. CASE p # n
    <3>1. FillHeld(p) /\ Pending'[p] = Pending[p] /\ Committed'[p] = Committed[p]
      BY <1>4, <2>2 DEF Balanced
    <3>2. Pending[p].filled /\ holding[Pending[p].key].lock # None =>
            holding'[Pending[p].key].lock = holding[Pending[p].key].lock
      BY <1>1, <1>5, <1>6, FillKeys DEF Free
    <3> QED BY <1>1, <3>1, <3>2 DEF FillHeld
  <2> QED BY <2>1, <2>2
<1>9. Pending \in FillBook /\ Committed \in FillBook
  BY FillTables
<1>10. ASSUME NEW j \in Keys
       PROVE  /\ AddsUp(holding'[j].old, Committed', j) /\ AddsUp(holding'[j].new, Pending', j)
              /\ Costs(holding'[j].old, Committed', j) /\ Costs(holding'[j].new, Pending', j)
  <2>1. AddsUp(holding'[j].old, Committed', j) /\ Costs(holding'[j].old, Committed', j)
    BY <1>4, <1>6 DEF Balanced
  <2>2. CASE j # k
    <3>1. AgreeOn(Pending, Pending', j)
      BY <1>3, <1>4, <2>2, NoFillTrades DEF AgreeOn, Trades
    <3>2. AddsUp(holding[j].new, Pending, j) /\ Costs(holding[j].new, Pending, j)
      BY DEF Balanced
    <3>3. holding'[j].new = holding[j].new
      BY <1>6, <2>2
    <3> QED BY <2>1, <3>1, <3>2, <3>3, SameSums
  <2>3. CASE j = k
    <3>1. AddsUp(h, Pending, k) /\ Costs(h, Pending, k)
      BY <1>1 DEF Balanced
    <3> DEFINE G == [Pending EXCEPT ![n] = FillOf(o, profit)]
    <3>2. AddsUp(g, G, k) /\ Costs(g, G, k)
      <4>1. profit = IF o.side = "buy" THEN 0 ELSE (o.price - h.avg_price) * o.quantity
        BY DEF profit
      <4>2. k = <<o.user, o.asset>>
        OBVIOUS
      <4> HIDE DEF k, h
      <4> QED BY <1>1, <1>4, <1>9, <3>1, <4>1, <4>2, TradeAddsUp DEF g
    <3>3. Pending' = G
      <4>1. Pending' = [p \in OrderIds |-> Pending'[p]]
        BY DEF Pending
      <4>2. \A p \in OrderIds : Pending'[p] = IF p = n THEN FillOf(o, profit) ELSE Pending[p]
        BY <1>4 DEF f
      <4>3. G = [p \in OrderIds |-> IF p = n THEN FillOf(o, profit) ELSE Pending[p]]
        BY <1>9 DEF FillBook
      <4> QED BY <4>1, <4>2, <4>3
    <3>4. holding'[j].new = g
      BY <1>6, <2>3
    <3> QED BY <2>1, <2>3, <3>2, <3>3, <3>4
  <2> QED BY <2>2, <2>3
<1> QED BY <1>8, <1>10 DEF Balanced

\* COMMIT, and ROLLBACK: what s holds becomes what it has written, or what it was.
LEMMA EndBalanced ==
  ASSUME Coherent, Once, Balanced, NEW s \in Sessions, Steps(s), Commit(s) \/ Rollback(s)
  PROVE  Balanced'
<1>0. /\ wallet \in [Users -> Row(Wallet)] /\ holding \in [Keys -> Row(Holding)]
      /\ orders \in [OrderIds -> Row(Order \cup {NoOrder})] /\ tx \in [Sessions -> Transaction]
      /\ s # None
  BY SessionAssumption DEF Coherent, TypeOK
<1>1. tx'[s] = Idle
  BY <1>0 DEF Commit, Rollback
<1>2. \A o \in OrderIds :
        \/ orders[o].lock # s /\ orders'[o] = orders[o]
        \/ orders[o].lock = s /\ orders'[o].new = orders'[o].old
  BY <1>0, EndedRows, FreshRows DEF Commit, Rollback
<1>3. \A u \in Users : wallet[u].lock # s => wallet'[u] = wallet[u]
  BY <1>0, EndedRows DEF Commit, Rollback
<1>4. \A k \in Keys : holding[k].lock # s => holding'[k] = holding[k]
  BY <1>0, EndedRows DEF Commit, Rollback
<1>5. ASSUME NEW o \in OrderIds
      PROVE  /\ orders[o].lock # s => Pending'[o] = Pending[o] /\ Committed'[o] = Committed[o]
             /\ orders[o].lock = s => /\ Pending'[o] = Committed'[o]
                                      /\ Commit(s) => Pending'[o] = Pending[o]
                                      /\ Rollback(s) => Committed'[o] = Committed[o]
  <2>1. CASE Commit(s)
    <3>1. orders' = Keep(orders, s) /\ tx[s].pc # "wallet"
      BY <2>1 DEF Commit
    <3>2. Pending'[o] = Pending[o] /\ Committed'[o] = IF orders[o].lock = s THEN Pending[o] ELSE Committed[o]
      BY <1>1, <3>1, EndFills
    <3>3. ~Rollback(s) \/ (Commit(s) /\ Rollback(s))
      BY <2>1
    <3>4. Rollback(s) => Committed'[o] = Committed[o]
      <4>1. Rollback(s) => orders' = Undo(orders, s)
        BY DEF Rollback
      <4> QED BY <1>1, <4>1, EndFills
    <3> QED BY <3>2, <3>4
  <2>2. CASE Rollback(s) /\ ~Commit(s)
    <3>1. orders' = Undo(orders, s)
      BY <2>2 DEF Rollback
    <3>2. Committed'[o] = Committed[o] /\ Pending'[o] = IF orders[o].lock = s THEN Committed[o] ELSE Pending[o]
      BY <1>1, <3>1, EndFills
    <3> QED BY <2>2, <3>2
  <2> QED BY <2>1, <2>2
<1>6. ASSUME NEW o \in OrderIds PROVE FillHeld(o)'
  <2>1. CASE orders[o].lock = s
    BY <1>2, <1>5, <2>1 DEF FillHeld
  <2>2. CASE orders[o].lock # s
    <3>1. FillHeld(o) /\ Pending'[o] = Pending[o] /\ Committed'[o] = Committed[o] /\ orders'[o] = orders[o]
      BY <1>2, <1>5, <2>2 DEF Balanced
    <3>2. Pending[o].filled => Pending[o].key \in Keys
      BY FillKeys
    <3>3. orders[o].new.status = "filled" => orders[o].new.user \in Users
      BY FillKeys
    <3> QED BY <1>3, <1>4, <2>2, <3>1, <3>2, <3>3 DEF FillHeld
  <2> QED BY <2>1, <2>2
\* Nobody's pending fill is of a key that s holds, but those of s; and the other way round.
<1>7. ASSUME NEW o \in OrderIds, NEW k \in Keys, Pending[o] # Committed[o],
             (orders[o].lock = s) # (holding[k].lock = s)
      PROVE  \A side : ~Trades(Pending[o], k, side) /\ ~Trades(Committed[o], k, side)
  <2>1. FillHeld(o)
    BY DEF Balanced
  <2> QED BY <1>7, <2>1 DEF FillHeld, Trades
<1>8. ASSUME NEW k \in Keys
      PROVE  /\ AddsUp(holding'[k].old, Committed', k) /\ AddsUp(holding'[k].new, Pending', k)
             /\ Costs(holding'[k].old, Committed', k) /\ Costs(holding'[k].new, Pending', k)
  <2>0. /\ AddsUp(holding[k].old, Committed, k) /\ AddsUp(holding[k].new, Pending, k)
        /\ Costs(holding[k].old, Committed, k) /\ Costs(holding[k].new, Pending, k)
    BY DEF Balanced
  <2>1. CASE holding[k].lock # s
    <3>1. AgreeOn(Committed, Committed', k)
      BY <1>5, <1>7, <2>1 DEF AgreeOn
    <3>2. AgreeOn(Pending, Pending', k)
      BY <1>5, <1>7, <2>1 DEF AgreeOn
    <3> QED BY <1>4, <2>0, <2>1, <3>1, <3>2, SameSums
  <2>2. CASE holding[k].lock = s /\ Commit(s)
    <3>1. holding'[k].new = holding[k].new /\ holding'[k].old = holding[k].new
      BY <1>0, <2>2, EndedRows, FreshRows DEF Commit
    <3>2. AgreeOn(Pending, Committed', k)
      BY <1>5, <1>7, <2>2 DEF AgreeOn
    <3>3. AgreeOn(Pending, Pending', k)
      BY <1>5, <2>2 DEF AgreeOn
    <3> QED BY <2>0, <3>1, <3>2, <3>3, SameSums
  <2>3. CASE holding[k].lock = s /\ Rollback(s)
    <3>1. holding'[k].new = holding[k].old /\ holding'[k].old = holding[k].old
      BY <1>0, <2>3, EndedRows, FreshRows DEF Rollback
    <3>2. AgreeOn(Committed, Pending', k)
      BY <1>5, <1>7, <2>3 DEF AgreeOn
    <3>3. AgreeOn(Committed, Committed', k)
      BY <1>5, <2>3 DEF AgreeOn
    <3> QED BY <2>0, <3>1, <3>2, <3>3, SameSums
  <2> QED BY <2>1, <2>2, <2>3
<1> QED BY <1>6, <1>8 DEF Balanced

LEMMA NextBalanced == ASSUME Covered, Once, Balanced, [Next]_vars PROVE Balanced'
<1> USE DEF Covered
<1>1. CASE UNCHANGED <<rows, tx>>
  <2>1. Committed' = Committed /\ Pending' = Pending
    BY <1>1 DEF rows, Committed, Pending
  <2>2. /\ SameRows(Keys, holding, holding') /\ Holds(Keys, holding, holding')
        /\ Holds(Users, wallet, wallet') /\ Holds(OrderIds, orders, orders')
        /\ \A o \in OrderIds : orders'[o].new = orders[o].new /\ orders'[o].old = orders[o].old
    BY <1>1 DEF rows, SameRows, Holds
  <2> QED BY <2>1, <2>2, QuietBalanced
<1>2. ASSUME NEW s \in Sessions, Steps(s),
             \/ Rest(s) \/ Rewrites(s) \/ Commit(s) \/ Rollback(s)
             \/ MoveCash(s) \/ UpdatePortfolio(s) \/ UpdateWallet(s)
      PROVE  Balanced'
  <2>1. CASE Commit(s) \/ Rollback(s)
    BY <1>2, <2>1, EndBalanced
  <2>2. CASE ~Rollback(s) /\ (MoveCash(s) \/ UpdatePortfolio(s) \/ UpdateWallet(s))
    BY <1>2, <2>2, CashBalanced, PortfolioBalanced, WalletBalanced
  <2>3. CASE Rest(s) \/ Rewrites(s)
    BY <1>2, <2>3, RestBalanced, RewritesBalanced
  <2> QED BY <1>2, <2>1, <2>2, <2>3
<1> QED BY <1>1, <1>2, StepShapes

\* As long as one process at most schedules the matcher, portfolio agrees with trades:
\* a position is what its owner started with, plus what was bought, minus what was sold,
\* through every interleaving of fills, aborts and crashes.
THEOREM OneMatcherAddsUp ==
  ASSUME \A m, n \in Matchers : m = n
  PROVE  Spec => []PositionsAddUp
<1>1. Covered /\ Once /\ Balanced /\ [Next]_vars => Covered' /\ Once' /\ Balanced'
  BY NextCovered, NextOnce, NextBalanced DEF Covered
<1>2. Balanced => PositionsAddUp
  BY DEF Balanced, PositionsAddUp
<1> QED BY <1>1, <1>2, InitCovered, InitOnce, InitBalanced, PTL DEF Spec

\* And what a position cost is what was paid for it, minus the cost of what was sold,
\* but for the rounding of avg_price: half a unit per share and purchase.
THEOREM OneMatcherCosts ==
  ASSUME \A m, n \in Matchers : m = n
  PROVE  Spec => []CostBasisHolds
<1>1. Covered /\ Once /\ Balanced /\ [Next]_vars => Covered' /\ Once' /\ Balanced'
  BY NextCovered, NextOnce, NextBalanced DEF Covered
<1>2. Balanced => CostBasisHolds
  BY DEF Balanced, CostBasisHolds
<1> QED BY <1>1, <1>2, InitCovered, InitOnce, InitBalanced, PTL DEF Spec

-----------------------------------------------------------------------------
(* Payments *)

Table(R) == R \in [OrderIds -> Order \cup {NoOrder}]

\* Tables that differ in orders that are not filled, or not of u, pay u the same.
SameFilled(R, Q, u) ==
  \A o \in OrderIds : \/ R[o] = Q[o]
                      \/ /\ R[o].status = "filled" => R[o].user # u
                         /\ Q[o].status = "filled" => Q[o].user # u

LEMMA SamePaid ==
  ASSUME NEW R, NEW Q, NEW u, SameFilled(R, Q, u), NEW log, Paid(log, R, u)
  PROVE  Paid(log, Q, u)
<1>1. ASSUME NEW v PROVE FilledFor(R, u, v) = FilledFor(Q, u, v)
  BY DEF SameFilled, FilledFor
<1> QED BY <1>1 DEF Paid

LEMMA RowTables == ASSUME Coherent PROVE Table(OldRows) /\ Table(NewRows)
<1>1. orders \in [OrderIds -> Row(Order \cup {NoOrder})]
  BY DEF Coherent, TypeOK
<1>2. \A o \in OrderIds : /\ orders[o].old \in Order \cup {NoOrder}
                          /\ orders[o].new \in Order \cup {NoOrder}
  BY <1>1 DEF Row
<1> QED BY <1>2 DEF Table, OldRows, NewRows

\* A change of the balance by x is one more change by x, and none by anything else.
LEMMA AppendedChange ==
  ASSUME NEW log \in Seq(AuditRow), NEW e \in AuditRow
  PROVE  \A v : Cardinality(ChangesBy(Append(log, e), v)) =
                  Cardinality(ChangesBy(log, v)) + IF v = Change(e) THEN 1 ELSE 0
<1> SUFFICES ASSUME NEW v
             PROVE  Cardinality(ChangesBy(Append(log, e), v)) =
                      Cardinality(ChangesBy(log, v)) + IF v = Change(e) THEN 1 ELSE 0
  OBVIOUS
<1> DEFINE n == Len(log) + 1
           C == ChangesBy(log, v)
<1>1. /\ Len(log) \in Nat /\ DOMAIN log = 1 .. Len(log) /\ DOMAIN Append(log, e) = 1 .. n
      /\ Append(log, e)[n] = e /\ \A i \in 1 .. Len(log) : Append(log, e)[i] = log[i]
  OBVIOUS
<1>2. n \notin C /\ C \subseteq 1 .. Len(log)
  BY <1>1 DEF ChangesBy
<1>3. IsFiniteSet(C)
  <2>1. IsFiniteSet(1 .. Len(log))
    BY <1>1, FS_Interval
  <2> QED BY <1>2, <2>1, FS_Subset
<1>4. Cardinality(C) \in Nat
  BY <1>3, FS_CardinalityType
<1>5. ChangesBy(Append(log, e), v) = IF v = Change(e) THEN C \cup {n} ELSE C
  BY <1>1 DEF ChangesBy
<1>6. Cardinality(C \cup {n}) = Cardinality(C) + 1
  BY <1>2, <1>3, FS_AddElement
<1> HIDE DEF C, n
<1> QED BY <1>4, <1>5, <1>6 DEF C

\* An order that is filled is one more filled order worth what it is.
LEMMA OneMoreFilled ==
  ASSUME NEW R, NEW Q, NEW n \in OrderIds, R[n].status # "filled", Q[n].status = "filled",
         \A o \in OrderIds \ {n} : Q[o] = R[o], NEW u
  PROVE  \A v : Cardinality(FilledFor(Q, u, v)) =
                  Cardinality(FilledFor(R, u, v))
                    + IF u = Q[n].user /\ v = Worth(Q[n]) THEN 1 ELSE 0
<1> SUFFICES ASSUME NEW v
             PROVE  Cardinality(FilledFor(Q, u, v)) =
                      Cardinality(FilledFor(R, u, v))
                        + IF u = Q[n].user /\ v = Worth(Q[n]) THEN 1 ELSE 0
  OBVIOUS
<1> DEFINE C == FilledFor(R, u, v)
<1>1. n \notin C /\ C \subseteq OrderIds
  BY DEF FilledFor
<1>2. IsFiniteSet(C)
  <2>1. IsFiniteSet(OrderIds)
    BY FS_Interval, BoundAssumption DEF OrderIds
  <2> QED BY <1>1, <2>1, FS_Subset
<1>3. Cardinality(C) \in Nat
  BY <1>2, FS_CardinalityType
<1>4. FilledFor(Q, u, v) = IF u = Q[n].user /\ v = Worth(Q[n]) THEN C \cup {n} ELSE C
  BY DEF FilledFor
<1>5. Cardinality(C \cup {n}) = Cardinality(C) + 1
  BY <1>1, <1>2, FS_AddElement
<1> HIDE DEF C
<1> QED BY <1>3, <1>4, <1>5 DEF C

LEMMA InitPaidUp == Init => PaidUp
<1> SUFFICES ASSUME Init, NEW u \in Users
             PROVE  Paid(wallet[u].old.audit, OldRows, u) /\ Paid(wallet[u].new.audit, NewRows, u)
  BY DEF PaidUp
<1>1. wallet[u].old.audit = << >> /\ wallet[u].new.audit = << >>
  BY FreshRows DEF Init
<1>2. \A v : ChangesBy(<< >>, v) = {}
  BY DEF ChangesBy
<1>3. \A v : FilledFor(OldRows, u, v) = {} /\ FilledFor(NewRows, u, v) = {}
  BY FreshRows DEF Init, FilledFor, OldRows, NewRows, NoOrder
<1> QED BY <1>1, <1>2, <1>3 DEF Paid

\* A step that leaves the wallets, and what is filled.
LEMMA QuietPaidUp ==
  ASSUME PaidUp, SameRows(Users, wallet, wallet'),
         \A u \in Users : SameFilled(OldRows, OldRows', u) /\ SameFilled(NewRows, NewRows', u)
  PROVE  PaidUp'
<1> SUFFICES ASSUME NEW u \in Users
             PROVE  Paid(wallet'[u].old.audit, OldRows', u) /\ Paid(wallet'[u].new.audit, NewRows', u)
  BY DEF PaidUp
<1>1. Paid(wallet[u].old.audit, OldRows, u) /\ Paid(wallet[u].new.audit, NewRows, u)
  BY DEF PaidUp
<1>2. Paid(wallet[u].old.audit, OldRows', u) /\ Paid(wallet[u].new.audit, NewRows', u)
  BY <1>1, SamePaid
<1> QED BY <1>2 DEF SameRows

LEMMA RewritesPaidUp == ASSUME Coherent, PaidUp, NEW s \in Sessions, Rewrites(s) PROVE PaidUp'
<1>1. PICK n \in OrderIds : \E v \in Order :
        /\ Free(orders[n], s) /\ orders' = Write(orders, n, s, v)
        /\ v.status # "filled" /\ orders[n].new.status # "filled"
  BY DEF Rewrites
<1>2. PICK v \in Order :
        /\ Free(orders[n], s) /\ orders' = Write(orders, n, s, v)
        /\ v.status # "filled" /\ orders[n].new.status # "filled"
  BY <1>1
<1>3. orders \in [OrderIds -> Row(Order \cup {NoOrder})]
  BY DEF Coherent, TypeOK
<1>4. \A o \in OrderIds : /\ orders'[o].new = (IF o = n THEN v ELSE orders[o].new)
                          /\ orders'[o].old = orders[o].old
  BY <1>2, <1>3, WrittenRows
<1>5. \A u \in Users : SameFilled(OldRows, OldRows', u)
  BY <1>4 DEF SameFilled, OldRows
<1>6. \A u \in Users : SameFilled(NewRows, NewRows', u)
  BY <1>2, <1>4 DEF SameFilled, NewRows
<1>7. SameRows(Users, wallet, wallet')
  BY DEF Rewrites, SameRows
<1> QED BY <1>5, <1>6, <1>7, QuietPaidUp

\* The audit row of a change of the balance.
LEMMA AuditedChange ==
  ASSUME Coherent, NEW s \in Sessions, NEW u \in Users, NEW b \in Nat, NEW x \in Int \ {0},
         b = wallet[u].new.balance + x
  PROVE  LET log == Audited(wallet[u].new, b, tx[s].start) IN
         \A v : Cardinality(ChangesBy(log, v)) =
                  Cardinality(ChangesBy(wallet[u].new.audit, v)) + IF v = x THEN 1 ELSE 0
<1> DEFINE w == wallet[u].new
           e == [old_value |-> w.balance, new_value |-> b, timestamp |-> tx[s].start]
<1>1. w \in Wallet /\ tx[s].start \in Nat
  BY StepFacts DEF Coherent, TypeOK, Row, Transaction
<1>2. w.balance \in Int /\ w.audit \in Seq(AuditRow) /\ b # w.balance
  BY <1>1, InitialAssumption DEF Wallet
<1>3. e \in AuditRow /\ Change(e) = x
  BY <1>1, <1>2 DEF AuditRow, Change
<1>4. Audited(w, b, tx[s].start) = Append(w.audit, e)
  BY <1>2 DEF Audited
<1> HIDE DEF e, w
<1>5. \A v : Cardinality(ChangesBy(Append(w.audit, e), v)) =
               Cardinality(ChangesBy(w.audit, v)) + IF v = Change(e) THEN 1 ELSE 0
  BY <1>2, <1>3, AppendedChange
<1>6. \A v : Cardinality(ChangesBy(Audited(w, b, tx[s].start), v)) =
               Cardinality(ChangesBy(w.audit, v)) + IF v = x THEN 1 ELSE 0
  BY <1>3, <1>4, <1>5
<1> QED BY <1>6 DEF w

LEMMA CardinalFacts ==
  /\ \A R, u, v : Cardinality(FilledFor(R, u, v)) \in Nat
  /\ \A log, v : log \in Seq(AuditRow) => Cardinality(ChangesBy(log, v)) \in Nat
<1>1. ASSUME NEW R, NEW u, NEW v PROVE Cardinality(FilledFor(R, u, v)) \in Nat
  <2>1. IsFiniteSet(OrderIds)
    BY FS_Interval, BoundAssumption DEF OrderIds
  <2>2. FilledFor(R, u, v) \in SUBSET OrderIds
    BY DEF FilledFor
  <2> QED BY <2>1, <2>2, FS_Subset, FS_CardinalityType
<1>2. ASSUME NEW log \in Seq(AuditRow), NEW v PROVE Cardinality(ChangesBy(log, v)) \in Nat
  <2>1. IsFiniteSet(1 .. Len(log)) /\ DOMAIN log = 1 .. Len(log)
    BY FS_Interval
  <2>2. ChangesBy(log, v) \in SUBSET (1 .. Len(log))
    BY <2>1 DEF ChangesBy
  <2> QED BY <2>1, <2>2, FS_Subset, FS_CardinalityType
<1> QED BY <1>1, <1>2

LEMMA CashPaidUp ==
  ASSUME Coherent, PaidUp, NEW s \in Sessions, MoveCash(s), ~Rollback(s) PROVE PaidUp'
<1> DEFINE u == tx[s].user
           x == tx[s].amount
           b == wallet[u].new.balance + x
           w == [balance |-> b, audit |-> Audited(wallet[u].new, b, tx[s].start)]
<1>1. /\ tx[s].pc = "cash" /\ u \in Users /\ Fits(b)
      /\ w \in Wallet /\ wallet' = Write(wallet, u, s, w) /\ UNCHANGED <<holding, orders>>
  BY CashMoves
<1>2. x \in Amounts
  BY <1>1 DEF Coherent, TxCoherent, Ready
<1>3. b \in Nat /\ x \in Int \ {0}
  <2> HIDE DEF b, x
  <2> QED BY <1>1, <1>2, InputAssumption, InitialAssumption DEF Fits
<1>4. \A v : Cardinality(ChangesBy(w.audit, v)) =
               Cardinality(ChangesBy(wallet[u].new.audit, v)) + IF v = x THEN 1 ELSE 0
  <2>1. b = wallet[u].new.balance + x /\ w.audit = Audited(wallet[u].new, b, tx[s].start)
    OBVIOUS
  <2> HIDE DEF b, u, x, w
  <2>2. LET log == Audited(wallet[u].new, b, tx[s].start) IN
        \A v : Cardinality(ChangesBy(log, v)) =
                 Cardinality(ChangesBy(wallet[u].new.audit, v)) + IF v = x THEN 1 ELSE 0
    <3>1. u \in Users /\ b \in Nat /\ x \in Int \ {0} /\ b = wallet[u].new.balance + x
      BY <1>1, <1>3, <2>1
    <3> QED BY <3>1, AuditedChange
  <2> QED BY <2>1, <2>2
<1> HIDE DEF b, x, w, u
<1>5. wallet \in [Users -> Row(Wallet)] /\ wallet[u].new \in Wallet
  BY <1>1 DEF Coherent, TypeOK, Row
<1>6. \A t \in Users : /\ wallet'[t].new = (IF t = u THEN w ELSE wallet[t].new)
                       /\ wallet'[t].old = wallet[t].old
  BY <1>1, <1>5, WrittenRows
<1>7. OldRows' = OldRows /\ NewRows' = NewRows
  BY <1>1 DEF OldRows, NewRows
<1>8. \A v \in Int \ Amounts : Cardinality(ChangesBy(w.audit, v)) = Cardinality(ChangesBy(wallet[u].new.audit, v))
  <2>1. wallet[u].new.audit \in Seq(AuditRow)
    BY <1>5 DEF Wallet
  <2> QED BY <1>2, <1>4, <2>1, CardinalFacts
<1>9. Paid(w.audit, NewRows, u)
  BY <1>1, <1>8 DEF PaidUp, Paid
<1> QED BY <1>6, <1>7, <1>9 DEF PaidUp

LEMMA WalletPaidUp ==
  ASSUME Coherent, Once, PaidUp, NEW s \in Sessions, UpdateWallet(s), ~Rollback(s) PROVE PaidUp'
<1> DEFINE n == tx[s].order
           o == orders[n].new
           u == o.user
           b == wallet[o.user].new.balance + Proceeds(o)
           w == [balance |-> b, audit |-> Audited(wallet[o.user].new, b, tx[s].start)]
           trade == [price |-> o.price, profit |-> tx[s].profit, booked |-> ProfitBooked(s)]
           v == [o EXCEPT !.status = "filled", !.trades = Append(@, trade)]
<1>1. /\ n \in OrderIds /\ orders[n].lock = s /\ o \in Order
      /\ Len(o.trades) = 0 /\ o.status # "filled" /\ Fits(b)
      /\ w \in Wallet /\ wallet' = Write(wallet, u, s, w)
      /\ v \in Order /\ orders' = Write(orders, n, s, v)
  BY FillEnds
<1>2. v.status = "filled" /\ v.user = u /\ Worth(v) = Proceeds(o)
  <2>1. v.status = "filled" /\ v.user = o.user /\ v.side = o.side /\ v.price = o.price /\ v.quantity = o.quantity
    BY <1>1 DEF Order
  <2> QED BY <2>1 DEF Worth, Proceeds, Cost
<1>3. b \in Nat /\ Proceeds(o) \in Int \ {0} /\ u \in Users
  <2>1. /\ o.quantity \in Nat \ {0} /\ o.price \in Nat \ {0} /\ o.user \in Users
    BY <1>1, InputAssumption DEF Order
  <2>2. \A i, j \in Nat \ {0} : i * j \in Nat \ {0}
    OBVIOUS
  <2>3. Cost(o) \in Nat \ {0}
    BY <2>1, <2>2 DEF Cost
  <2>4. b \in Nat
    <3>1. Fits(b)
      BY <1>1
    <3> HIDE DEF b
    <3> QED BY <3>1, InitialAssumption DEF Fits
  <2> QED BY <2>1, <2>3, <2>4 DEF Proceeds
<1>4. \A x : Cardinality(ChangesBy(w.audit, x)) =
               Cardinality(ChangesBy(wallet[u].new.audit, x)) + IF x = Proceeds(o) THEN 1 ELSE 0
  <2> DEFINE y == Proceeds(o)
  <2>1. b = wallet[u].new.balance + y /\ w.audit = Audited(wallet[u].new, b, tx[s].start)
    OBVIOUS
  <2>2. u \in Users /\ b \in Nat /\ y \in Int \ {0}
    BY <1>3
  <2> HIDE DEF b, u, w, y
  <2>3. LET log == Audited(wallet[u].new, b, tx[s].start) IN
        \A x : Cardinality(ChangesBy(log, x)) =
                 Cardinality(ChangesBy(wallet[u].new.audit, x)) + IF x = y THEN 1 ELSE 0
    <3>1. b = wallet[u].new.balance + y
      BY <2>1
    <3> QED BY <2>2, <3>1, AuditedChange
  <2> QED BY <2>1, <2>3 DEF y
<1> HIDE DEF b, w, v, o, trade
<1>5. wallet \in [Users -> Row(Wallet)] /\ orders \in [OrderIds -> Row(Order \cup {NoOrder})]
  BY DEF Coherent, TypeOK
<1>6. \A t \in Users : /\ wallet'[t].new = (IF t = u THEN w ELSE wallet[t].new)
                       /\ wallet'[t].old = wallet[t].old
  BY <1>1, <1>3, <1>5, WrittenRows
<1>7. \A p \in OrderIds : /\ orders'[p].new = (IF p = n THEN v ELSE orders[p].new)
                          /\ orders'[p].old = orders[p].old
  BY <1>1, <1>5, WrittenRows
<1>8. OldRows' = OldRows
  BY <1>7 DEF OldRows
<1>9. /\ NewRows[n].status # "filled" /\ NewRows'[n] = v
      /\ \A p \in OrderIds \ {n} : NewRows'[p] = NewRows[p]
  BY <1>1, <1>7 DEF NewRows, o
<1>10. ASSUME NEW t \in Users
       PROVE  \A x : Cardinality(FilledFor(NewRows', t, x)) =
                       Cardinality(FilledFor(NewRows, t, x)) + IF t = u /\ x = Proceeds(o) THEN 1 ELSE 0
  <2> DEFINE Q == NewRows'
  <2>1. Q[n].status = "filled" /\ Q[n].user = u /\ Worth(Q[n]) = Proceeds(o)
    BY <1>2, <1>9
  <2> DEFINE R == NewRows
  <2>2. /\ n \in OrderIds /\ R[n].status # "filled" /\ Q[n].status = "filled"
        /\ \A p \in OrderIds \ {n} : Q[p] = R[p]
    BY <1>1, <1>9, <2>1
  <2> HIDE DEF Q, R, n
  <2>3. \A x : Cardinality(FilledFor(Q, t, x)) =
                 Cardinality(FilledFor(R, t, x)) + IF t = Q[n].user /\ x = Worth(Q[n]) THEN 1 ELSE 0
    BY <2>2, OneMoreFilled
  <2> QED BY <2>1, <2>3 DEF Q, R
<1>11. ASSUME NEW t \in Users PROVE Paid(wallet'[t].new.audit, NewRows', t)
  <2>1. Paid(wallet[t].new.audit, NewRows, t)
    BY DEF PaidUp
  <2>2. CASE t = u
    BY <1>4, <1>6, <1>10, <2>1, <2>2 DEF Paid
  <2>3. CASE t # u
    BY <1>6, <1>10, <2>1, <2>3, CardinalFacts DEF Paid
  <2> QED BY <2>2, <2>3
<1> QED BY <1>6, <1>8, <1>11 DEF PaidUp

\* COMMIT and ROLLBACK: who has filled an order holds the wallet that has paid for it.
LEMMA EndPaidUp ==
  ASSUME Coherent, Once, Balanced, PaidUp, NEW s \in Sessions, Commit(s) \/ Rollback(s)
  PROVE  PaidUp'
<1>0. /\ wallet \in [Users -> Row(Wallet)] /\ orders \in [OrderIds -> Row(Order \cup {NoOrder})]
      /\ s # None
  BY SessionAssumption DEF Coherent, TypeOK
<1>1. ASSUME NEW o \in OrderIds
      PROVE  /\ orders[o].old.status = "filled" => orders[o].new = orders[o].old
             /\ orders[o].new.status = "filled" /\ orders[o].old.status # "filled" =>
                  orders[o].lock # None /\ wallet[orders[o].new.user].lock = orders[o].lock
  BY DEF Once, RowOnce, Balanced, FillHeld
<1>2. ASSUME NEW u \in Users
      PROVE  Paid(wallet'[u].old.audit, OldRows', u) /\ Paid(wallet'[u].new.audit, NewRows', u)
  <2>0. Paid(wallet[u].old.audit, OldRows, u) /\ Paid(wallet[u].new.audit, NewRows, u)
    BY DEF PaidUp
  <2>1. CASE Commit(s)
    <3>1. /\ \A o \in OrderIds : orders'[o] = IF orders[o].lock = s THEN Fresh(orders[o].new) ELSE orders[o]
          /\ wallet'[u] = IF wallet[u].lock = s THEN Fresh(wallet[u].new) ELSE wallet[u]
      BY <1>0, <2>1, EndedRows DEF Commit
    <3>2. \A o \in OrderIds : /\ orders'[o].new = orders[o].new
                              /\ orders'[o].old = IF orders[o].lock = s THEN orders[o].new ELSE orders[o].old
      BY <3>1, FreshRows
    <3>3. NewRows' = NewRows /\ wallet'[u].new = wallet[u].new
      BY <3>1, <3>2, FreshRows DEF NewRows
    <3>4. CASE wallet[u].lock = s
      <4>1. SameFilled(NewRows, OldRows', u)
        BY <1>1, <3>2, <3>4 DEF SameFilled, NewRows, OldRows
      <4>2. wallet'[u].old = wallet[u].new
        BY <3>1, <3>4, FreshRows
      <4> QED BY <2>0, <3>3, <4>1, <4>2, SamePaid
    <3>5. CASE wallet[u].lock # s
      <4>1. SameFilled(OldRows, OldRows', u)
        BY <1>1, <3>2, <3>5 DEF SameFilled, NewRows, OldRows
      <4>2. wallet'[u].old = wallet[u].old
        BY <3>1, <3>5
      <4> QED BY <2>0, <3>3, <4>1, <4>2, SamePaid
    <3> QED BY <3>4, <3>5
  <2>2. CASE Rollback(s)
    <3>1. /\ \A o \in OrderIds : orders'[o] = IF orders[o].lock = s THEN Fresh(orders[o].old) ELSE orders[o]
          /\ wallet'[u] = IF wallet[u].lock = s THEN Fresh(wallet[u].old) ELSE wallet[u]
      BY <1>0, <2>2, EndedRows DEF Rollback
    <3>2. \A o \in OrderIds : /\ orders'[o].old = orders[o].old
                              /\ orders'[o].new = IF orders[o].lock = s THEN orders[o].old ELSE orders[o].new
      BY <3>1, FreshRows
    <3>3. OldRows' = OldRows /\ wallet'[u].old = wallet[u].old
      BY <3>1, <3>2, FreshRows DEF OldRows
    <3>4. CASE wallet[u].lock = s
      <4>1. SameFilled(OldRows, NewRows', u)
        BY <1>1, <3>2, <3>4 DEF SameFilled, NewRows, OldRows
      <4>2. wallet'[u].new = wallet[u].old
        BY <3>1, <3>4, FreshRows
      <4> QED BY <2>0, <3>3, <4>1, <4>2, SamePaid
    <3>5. CASE wallet[u].lock # s
      <4>1. SameFilled(NewRows, NewRows', u)
        BY <1>1, <3>2, <3>5 DEF SameFilled, NewRows, OldRows
      <4>2. wallet'[u].new = wallet[u].new
        BY <3>1, <3>5
      <4> QED BY <2>0, <3>3, <4>1, <4>2, SamePaid
    <3> QED BY <3>4, <3>5
  <2> QED BY <2>1, <2>2
<1> QED BY <1>2 DEF PaidUp

LEMMA NextPaidUp == ASSUME Covered, Once, Balanced, PaidUp, [Next]_vars PROVE PaidUp'
<1> USE DEF Covered
<1>1. ASSUME UNCHANGED orders, SameRows(Users, wallet, wallet') PROVE PaidUp'
  <2>1. \A u \in Users : SameFilled(OldRows, OldRows', u) /\ SameFilled(NewRows, NewRows', u)
    BY <1>1 DEF SameFilled, OldRows, NewRows
  <2> QED BY <1>1, <2>1, QuietPaidUp
<1>2. CASE UNCHANGED <<rows, tx>>
  BY <1>1, <1>2 DEF rows, SameRows
<1>3. ASSUME NEW s \in Sessions, Steps(s),
             \/ Rest(s) \/ Rewrites(s) \/ Commit(s) \/ Rollback(s)
             \/ MoveCash(s) \/ UpdatePortfolio(s) \/ UpdateWallet(s)
      PROVE  PaidUp'
  <2>1. CASE Commit(s) \/ Rollback(s)
    BY <2>1, EndPaidUp
  <2>2. CASE ~Rollback(s) /\ (MoveCash(s) \/ UpdateWallet(s))
    BY <2>2, CashPaidUp, WalletPaidUp
  <2>3. CASE ~Rollback(s) /\ UpdatePortfolio(s)
    <3>1. UNCHANGED <<wallet, orders>>
      BY <2>3, PositionTrades
    <3> QED BY <1>1, <3>1 DEF SameRows
  <2>4. CASE Rest(s)
    BY <1>1, <2>4 DEF Rest
  <2>5. CASE Rewrites(s)
    BY <2>5, RewritesPaidUp
  <2> QED BY <1>3, <2>1, <2>2, <2>3, <2>4, <2>5
<1> QED BY <1>2, <1>3, StepShapes

\* As long as one process at most schedules the matcher, audit_logs agrees with trades:
\* each change of a balance that is no deposit or withdrawal is the price of one filled
\* order, and each filled order has been paid for once.
THEOREM OneMatcherPays ==
  ASSUME \A m, n \in Matchers : m = n
  PROVE  Spec => []TradesArePaidFor
<1> DEFINE I == Covered /\ Once /\ Balanced /\ PaidUp
<1>1. I /\ [Next]_vars => I'
  BY NextCovered, NextOnce, NextBalanced, NextPaidUp DEF Covered
<1>2. I => TradesArePaidFor
  <2> SUFFICES ASSUME I, NEW u \in Users,
                      NEW v \in ({Change(wallet[u].old.audit[i]) : i \in DOMAIN wallet[u].old.audit}
                                   \cup {Worth(OldRows[o]) : o \in {p \in OrderIds : OldRows[p].status = "filled"}})
                                \ Amounts
               PROVE  Cardinality(ChangesBy(wallet[u].old.audit, v)) = Cardinality(FilledFor(OldRows, u, v))
    BY DEF TradesArePaidFor
  <2>1. v \in Int
    <3>1. CASE v \in {Change(wallet[u].old.audit[i]) : i \in DOMAIN wallet[u].old.audit}
      <4>1. PICK i \in DOMAIN wallet[u].old.audit : v = Change(wallet[u].old.audit[i])
        BY <3>1
      <4>2. wallet[u].old.audit \in Seq(AuditRow)
        BY DEF Covered, Coherent, TypeOK, Row, Wallet
      <4>3. wallet[u].old.audit[i] \in AuditRow
        BY <4>1, <4>2
      <4> QED BY <4>1, <4>3 DEF AuditRow, Change
    <3>2. CASE v \in {Worth(OldRows[o]) : o \in {p \in OrderIds : OldRows[p].status = "filled"}}
      <4>1. PICK o \in OrderIds : OldRows[o].status = "filled" /\ v = Worth(OldRows[o])
        BY <3>2
      <4>2. OldRows[o] \in Order \cup {NoOrder}
        BY RowTables DEF Covered, Table
      <4>3. OldRows[o] \in Order
        BY <4>1, <4>2 DEF NoOrder
      <4>4. Cost(OldRows[o]) \in Nat
        <5>1. OldRows[o].price \in Nat /\ OldRows[o].quantity \in Nat
          BY <4>3, InputAssumption DEF Order
        <5> QED BY <5>1, Products DEF Cost
      <4> QED BY <4>1, <4>4 DEF Worth
    <3> QED BY <3>1, <3>2
  <2> QED BY <2>1 DEF PaidUp, Paid
<1> HIDE DEF I
<1>3. Init => I
  BY InitCovered, InitOnce, InitBalanced, InitPaidUp DEF I
<1> QED BY <1>1, <1>2, <1>3, PTL DEF Spec
=============================================================================
