----------------------------- MODULE MCExchange -----------------------------
(* Values for the constants of Exchange, for TLC: the runs differ in who is   *)
(* there (connections, matching jobs, expiry jobs) and what they may ask for. *)
EXTENDS ExchangeBooks, TLC

OpeningOf(b)      == [u \in Users |-> b]
EndowedWith(q, p) == [k \in Keys |-> [quantity |-> q, avg_price |-> p]]
QuotesOf(p)       == [a \in Assets |-> p]

Balance3  == OpeningOf(3)
Balance4  == OpeningOf(4)
Balance9  == OpeningOf(9)
TwoShares == EndowedWith(2, 1)
AtTwo     == QuotesOf(2)

Withdraw3 == {-3}
Move3     == {-3, 3}

\* Connections of one kind are interchangeable.
Interchangeable == Permutations(Web) \cup Permutations(Matchers)
=============================================================================
