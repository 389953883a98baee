--------------------------- MODULE ExchangeBooks ----------------------------
(***************************************************************************)
(* The books of the exchange: what the committed rows of Exchange say, and *)
(* that they add up, across tables and against the abstract Brokerage.     *)
(***************************************************************************)
EXTENDS Exchange, Sums

-----------------------------------------------------------------------------
(* Fills: what orders have done to positions *)

NoFill == [filled |-> FALSE]
FillOf(r, profit) ==
  [filled |-> TRUE, key |-> <<r.user, r.asset>>, side |-> r.side,
   quantity |-> r.quantity, cost |-> Cost(r), profit |-> profit]
Fill(r) == IF r.status = "filled" THEN FillOf(r, r.trades[1].profit) ELSE NoFill

\* The fill of each order, as far as it is committed.
Committed == [o \in OrderIds |-> Fill(orders[o].old)]

Trades(f, k, side) == f.filled /\ f.key = k /\ f.side = side

\* Sums over the fills F of key k, in one direction.
Shares(F, k, side) ==
  Total([o \in OrderIds |-> IF Trades(F[o], k, side) THEN F[o].quantity ELSE 0], MaxCalls)
Value(F, k, side) ==
  Total([o \in OrderIds |-> IF Trades(F[o], k, side) THEN F[o].cost ELSE 0], MaxCalls)
Profit(F, k) ==
  Total([o \in OrderIds |-> IF Trades(F[o], k, "sell") THEN F[o].profit ELSE 0], MaxCalls)
Purchases(F, k) ==
  Total([o \in OrderIds |-> IF Trades(F[o], k, "buy") THEN 1 ELSE 0], MaxCalls)

\* A position is what its owner started with, plus what was bought, minus what was sold.
AddsUp(h, F, k) ==
  h.quantity = Endowed[k].quantity + Shares(F, k, "buy") - Shares(F, k, "sell")

\* What position k has cost: what was paid for it, minus the cost of what was sold,
\* which is the proceeds less the realized profit.
Basis(F, k) ==
  Endowed[k].quantity * Endowed[k].avg_price
    + Value(F, k, "buy") - (Value(F, k, "sell") - Profit(F, k))

\* avg_price times quantity is that, up to half a unit per share ever held, for each
\* purchase that has rounded the average.
Costs(h, F, k) ==
  LET most  == Endowed[k].quantity + Shares(F, k, "buy")
      error == 2 * (h.quantity * h.avg_price - Basis(F, k))
  IN  -(Purchases(F, k) * most) <= error /\ error <= Purchases(F, k) * most

-----------------------------------------------------------------------------
(* Payments: what orders and the audit log say of the wallets *)

Worth(r)   == IF r.side = "buy" THEN -Cost(r) ELSE Cost(r)
Change(e)  == e.new_value - e.old_value

\* Changes of the balance by v, and the filled orders of u that are worth v, among the
\* order rows R.
ChangesBy(log, v)    == {i \in DOMAIN log : Change(log[i]) = v}
FilledFor(R, u, v) ==
  {o \in OrderIds : R[o].status = "filled" /\ R[o].user = u /\ Worth(R[o]) = v}

OldRows == [o \in OrderIds |-> orders[o].old]
NewRows == [o \in OrderIds |-> orders[o].new]

-----------------------------------------------------------------------------
(* Properties *)

\* portfolio agrees with trades: whatever commits, aborts and crashes, a position is
\* what its owner started with, plus what was bought, minus what was sold.
PositionsAddUp == \A k \in Keys : AddsUp(holding[k].old, Committed, k)

\* audit_logs agrees with trades: as many balance changes of an amount that is no
\* deposit or withdrawal as there are filled orders worth that amount.
TradesArePaidFor ==
  \A u \in Users :
    LET log   == wallet[u].old.audit
        worth == {Change(log[i]) : i \in DOMAIN log}
                   \cup {Worth(OldRows[o]) : o \in {p \in OrderIds : OldRows[p].status = "filled"}}
    IN  \A v \in worth \ Amounts :
          Cardinality(ChangesBy(log, v)) = Cardinality(FilledFor(OldRows, u, v))

\* realized_pnl agrees with portfolio and trades: what a position cost (avg_price
\* times quantity) is what was paid for it, minus the cost of what was sold, up to
\* the rounding of avg_price.
CostBasisHolds == \A k \in Keys : Costs(holding[k].old, Committed, k)

-----------------------------------------------------------------------------
(* What holds in between: the inductive invariants of BooksProofs *)

\* The fills with those of the open transactions, from the statement on that has
\* written the position (trg_update_portfolio_after_trade).
Pending ==
  [o \in OrderIds |->
     LET r == orders[o].new  s == orders[o].lock IN
     IF r.status # "filled" /\ s # None /\ tx[s].pc = "wallet" /\ tx[s].order = o
     THEN FillOf(r, tx[s].profit) ELSE Fill(r)]

\* Whose fill is not yet committed also holds the position it has changed, and, once
\* the order is filled, the wallet that has paid for it.
FillHeld(o) ==
  LET s == orders[o].lock  f == Pending[o]  r == orders[o].new IN
  /\ f # Committed[o] =>
       /\ ~Committed[o].filled /\ f.filled /\ s # None /\ holding[f.key].lock = s
  /\ r.status = "filled" /\ orders[o].old.status # "filled" =>
       s # None /\ wallet[r.user].lock = s

\* Both versions of a row agree with the fills they belong to.
Balanced ==
  /\ \A o \in OrderIds : FillHeld(o)
  /\ \A k \in Keys : /\ AddsUp(holding[k].old, Committed, k) /\ AddsUp(holding[k].new, Pending, k)
                     /\ Costs(holding[k].old, Committed, k) /\ Costs(holding[k].new, Pending, k)

Paid(log, R, u) ==
  \A v \in Int \ Amounts : Cardinality(ChangesBy(log, v)) = Cardinality(FilledFor(R, u, v))
PaidUp ==
  \A u \in Users : Paid(wallet[u].old.audit, OldRows, u) /\ Paid(wallet[u].new.audit, NewRows, u)

-----------------------------------------------------------------------------
(* Brokerage, read off the committed rows *)

Asked(r) == [user |-> r.user, asset |-> r.asset, side |-> r.side, kind |-> r.kind,
             quantity |-> r.quantity, target |-> r.target_price]

Entry(r) ==
  CASE r.status = "none"   -> [status |-> "none"]
    [] r.status = "filled" -> [status |-> "filled", request |-> Asked(r),
                               price |-> r.trades[1].price]
    [] OTHER               -> [status |-> r.status, request |-> Asked(r)]

\* Requests, cash, positions and the book of Brokerage.
AllRequests == [user : Users, asset : Assets, side : Sides, kind : Kinds,
                quantity : Quantities, target : Targets \cup {None}]
Balances    == [u \in Users |-> wallet[u].old.balance]
Positions   == [k \in Keys |-> holding[k].old.quantity]

\* An expiry shows once no matching run has the order in hand: one that had found it
\* open may still fill it.
InHand(o) == \E m \in Matchers : o \in tx[m].todo \/ orders[o].lock = m
Shown(o) ==
  LET r == orders[o].old IN
  IF r.status = "cancelled" /\ InHand(o) THEN [status |-> "open", request |-> Asked(r)]
                                         ELSE Entry(r)
Book == [o \in OrderIds |-> Shown(o)]

B == INSTANCE Brokerage WITH
  MaxOrders <- MaxCalls, Requests <- AllRequests,
  cash <- Balances, position <- Positions, book <- Book

\* However its transactions interleave, the exchange is a brokerage: every commit is
\* one of its steps, or changes nothing its users can tell.
IsBrokerage == B!Spec
=============================================================================
