------------------------------ MODULE TradeList -----------------------------
(***************************************************************************)
(* A client reads its trades page by page (get_transactions) while trades  *)
(* are made.  A trade is stamped with the start of its transaction         *)
(* (executed_at DEFAULT CURRENT_TIMESTAMP) and seen when that commits, so  *)
(* it may appear anywhere in the list; trades with the same stamp, as all  *)
(* of one run of the matcher, may be sorted differently for each page.     *)
(***************************************************************************)
EXTENDS Integers, FiniteSetsExt

CONSTANTS
  Trades,              \* trades that may be made
  Limits,              \* what a client asks for; the handler grants MaxLimit at most
  MaxLimit,
  MaxNow               \* bound: the last time

ListAssumption == Limits \subseteq Nat \ {0} /\ MaxLimit \in Nat \ {0} /\ MaxNow \in Nat

VARIABLES
  now,
  stamp,       \* executed_at of the trades whose transaction has begun
  committed,   \* the rows of trades others see
  reader       \* the client: limit it asks for, offset of its next page, what it has seen

vars == <<now, stamp, committed, reader>>

\* wanted: history, the trades committed when it began.
Reader == [asks : Limits, offset : Nat, seen : SUBSET Trades, wanted : SUBSET Trades, done : BOOLEAN]

TypeOK ==
  /\ now \in 0 .. MaxNow
  /\ DOMAIN stamp \subseteq Trades /\ \A t \in DOMAIN stamp : stamp[t] \in 0 .. now
  /\ committed \subseteq DOMAIN stamp
  /\ reader \in Reader
  /\ reader.seen \cup reader.wanted \subseteq committed

NewReader(limit) ==
  [asks |-> limit, offset |-> 0, seen |-> {}, wanted |-> committed, done |-> FALSE]

Init ==
  /\ now = 0 /\ stamp = <<>> /\ committed = {}
  /\ reader \in {[asks |-> l, offset |-> 0, seen |-> {}, wanted |-> {}, done |-> FALSE] : l \in Limits}

\* execute_trade: the transaction begins, at any time later it commits.
Begin(t) ==
  /\ t \notin DOMAIN stamp
  /\ stamp' = [u \in DOMAIN stamp \cup {t} |-> IF u = t THEN now ELSE stamp[u]]
  /\ UNCHANGED <<now, committed, reader>>

Commit(t) ==
  /\ t \in DOMAIN stamp \ committed
  /\ committed' = committed \cup {t}
  /\ UNCHANGED <<now, stamp, reader>>

Clock == now < MaxNow /\ now' = now + 1 /\ UNCHANGED <<stamp, committed, reader>>

Newer(t)  == {u \in committed : stamp[u] > stamp[t]}
AsNew(t)  == {u \in committed : stamp[u] = stamp[t]}

\* Mutant: the offset counts pages.
PagesByNumber(limit, offset) ==
  LET before(t) == Cardinality(Newer(t)) IN
  {page \in SUBSET committed :
     /\ Cardinality(page) = Min({limit, Max({Cardinality(committed) - offset * limit, 0})})
     /\ \A t \in page : before(t) < (offset + 1) * limit /\ before(t) >= offset * limit}

\* What ORDER BY executed_at DESC LIMIT limit OFFSET offset may return.
Pages(limit, offset) ==
  LET before(t) == Cardinality(Newer(t))
      upTo(t)   == before(t) + Cardinality(AsNew(t))
  IN {page \in SUBSET committed :
        /\ Cardinality(page) = Min({limit, Max({Cardinality(committed) - offset, 0})})
        /\ \A t \in page : before(t) < offset + limit /\ upTo(t) > offset
        /\ \A t \in committed : before(t) >= offset /\ upTo(t) <= offset + limit => t \in page}

\* The limit the handler uses.
Granted(limit) == Min({limit, MaxLimit})

\* Mutant: rows that are not committed are read as well.
GetDirty ==
  /\ ~reader.done
  /\ reader' = [reader EXCEPT !.seen = DOMAIN stamp, !.done = TRUE]
  /\ UNCHANGED <<now, stamp, committed>>

\* get_transactions, called with the number of trades received so far as the offset, until a
\* page is empty.
GetTransactions ==
  /\ ~reader.done
  /\ \E page \in Pages(Granted(reader.asks), reader.offset) :
       reader' = [reader EXCEPT !.offset = @ + Cardinality(page), !.seen = @ \cup page,
                                !.done = page = {}]
  /\ UNCHANGED <<now, stamp, committed>>

\* It begins again.
Reload(limit) ==
  /\ reader.done /\ reader' = NewReader(limit)
  /\ UNCHANGED <<now, stamp, committed>>

Next ==
  \/ \E t \in Trades : Begin(t) \/ Commit(t)
  \/ Clock
  \/ GetTransactions
  \/ \E l \in Limits : Reload(l)

Spec == Init /\ [][Next]_vars

-----------------------------------------------------------------------------

\* The pages leave out none of the trades there were when the client began, though others
\* are committed between two pages, with older stamps or newer ones.  (Of trades that share
\* a stamp one may be shown twice and another not at all.)
NoTradeSkipped ==
  reader.done =>
    \A t \in reader.wanted : (\A u \in committed \ {t} : stamp[u] # stamp[t]) => t \in reader.seen
=============================================================================
