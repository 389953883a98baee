----------------------------- MODULE Brokerage ------------------------------
(***************************************************************************)
(* What the trading core promises its users, without transactions, locks   *)
(* or jobs: cash, positions and an order book that change together in one  *)
(* step.  Cash and positions are never negative, an order is settled at    *)
(* most once, at a price it accepts, and cash and shares move by exactly   *)
(* what the settled orders say.                                            *)
(***************************************************************************)
EXTENDS Integers, Sums

CONSTANTS Users, Assets, MaxBalance,
          MaxOrders,  \* orders are numbered from 1 up to here
          Requests,   \* what an order may ask for
          Prices,     \* prices of the market
          Amounts,    \* deposits and withdrawals
          Opening, Endowed

OrderIds == 1 .. MaxOrders

VARIABLES cash, position, book
vars == <<cash, position, book>>

\* A book entry: the request, its status and the price it was settled at.
Unused        == [status |-> "none"]
Open(r)       == [status |-> "open", request |-> r]
Cancelled(r)  == [status |-> "cancelled", request |-> r]
Filled(r, p)  == [status |-> "filled", request |-> r, price |-> p]

Accepts(r, p) ==
  CASE r.kind = "market" -> TRUE
    [] r.kind = "limit" -> IF r.side = "buy" THEN p <= r.target ELSE p >= r.target
    [] r.kind = "stop_loss" -> IF r.side = "buy" THEN p >= r.target ELSE p <= r.target

Shares(r)  == IF r.side = "buy" THEN r.quantity ELSE -r.quantity

\* Cash and positions after the requests r[o], o \in F, trade at price p.
Exchanged(F, r, p) ==
  /\ cash' = [u \in Users |->
       cash[u] - Total([o \in OrderIds |->
                          IF o \in F /\ r[o].user = u THEN p * Shares(r[o]) ELSE 0], MaxOrders)]
  /\ position' = [k \in Users \X Assets |->
       position[k] + Total([o \in OrderIds |->
                              IF o \in F /\ <<r[o].user, r[o].asset>> = k
                              THEN Shares(r[o]) ELSE 0], MaxOrders)]
  /\ \A u \in Users : cash'[u] \in 0 .. MaxBalance
  /\ \A k \in Users \X Assets : position'[k] \in Nat

Init ==
  /\ cash = Opening
  /\ position = [k \in Users \X Assets |-> Endowed[k].quantity]
  /\ book = [o \in OrderIds |-> Unused]

\* A deposit or a withdrawal.
Move(u, amount) ==
  /\ cash[u] + amount \in 0 .. MaxBalance
  /\ cash' = [cash EXCEPT ![u] = @ + amount]
  /\ UNCHANGED <<position, book>>

\* A market order trades at once.
Trade(o, r, p) ==
  /\ book[o] = Unused /\ r.kind = "market"
  /\ book' = [book EXCEPT ![o] = Filled(r, p)]
  /\ Exchanged({o}, [x \in {o} |-> r], p)

\* Any other order waits in the book.
Submit(o, r) ==
  /\ book[o] = Unused /\ r.kind # "market"
  /\ book' = [book EXCEPT ![o] = Open(r)]
  /\ UNCHANGED <<cash, position>>

\* Open orders that accept the price of their asset settle together.
Settle(F, p) ==
  /\ F # {} /\ \A o \in F : book[o].status = "open" /\ Accepts(book[o].request, p)
  /\ \A o1, o2 \in F : book[o1].request.asset = book[o2].request.asset
  /\ book' = [o \in OrderIds |-> IF o \in F THEN Filled(book[o].request, p) ELSE book[o]]
  /\ Exchanged(F, [o \in F |-> book[o].request], p)

\* Open orders that have expired leave the book together.
Cancel(F) ==
  /\ F # {} /\ \A o \in F : book[o].status = "open"
  /\ book' = [o \in OrderIds |-> IF o \in F THEN Cancelled(book[o].request) ELSE book[o]]
  /\ UNCHANGED <<cash, position>>

Step ==
  \/ \E u \in Users, amount \in Amounts : Move(u, amount)
  \/ \E o \in OrderIds, r \in Requests : Submit(o, r) \/ \E p \in Prices : Trade(o, r, p)
  \/ \E F \in SUBSET OrderIds : Cancel(F) \/ \E p \in Prices : Settle(F, p)

Next == vars' # vars /\ Step

Spec == Init /\ [][Next]_vars
=============================================================================
