------------------------------ MODULE RateLimit -----------------------------
(***************************************************************************)
(* The limits of create_app and of the decorators on login and register.   *)
(* Flask-Limiter (external) counts the requests of an address to an        *)
(* endpoint in fixed windows, each of which begins with a request; several *)
(* limits of an endpoint are counted shortest first, up to the first that  *)
(* is exceeded, and a request that is refused has been counted.            *)
(* With "memory://" every web process is a store of its own, with Redis    *)
(* they share one; a request may come to any of them.                      *)
(***************************************************************************)
EXTENDS Integers, Sequences, FiniteSetsExt

CONSTANTS
  Stores,          \* the counters: one per gunicorn worker, or one
  Clients,
  Address(_),      \* get_remote_address, with ProxyFix if TRUST_PROXY_HEADERS
  Endpoints,
  Limits,          \* the limits of each endpoint, shortest first
  Pace,            \* what a client asks of an endpoint in one unit of time, at most
  MaxRestarts      \* bound

Limit == [amount : Nat \ {0}, span : Nat \ {0}]

LimitAssumption ==
  /\ Limits \in [Endpoints -> Seq(Limit)] /\ \A e \in Endpoints : Limits[e] # <<>>
  /\ \A e \in Endpoints : \A i, j \in DOMAIN Limits[e] : i < j => Limits[e][i].span < Limits[e][j].span
  /\ Pace \in [Endpoints -> Nat] /\ MaxRestarts \in Nat /\ IsFiniteSet(Stores)

VARIABLES
  counter,    \* for each store, address, endpoint and limit: [hits, left], left of its window
  asked,      \* history: requests of each client to each endpoint in the last t units of
              \* time, this one included
  served,     \* history: how many of them were served
  restarts

vars == <<counter, asked, served, restarts>>

Longest(e) == Limits[e][Len(Limits[e])].span
Addresses == {Address(c) : c \in Clients}

Zero == [hits |-> 0, left |-> 0]
Fresh == [a \in Addresses |-> [e \in Endpoints |-> [i \in DOMAIN Limits[e] |-> Zero]]]

TypeOK ==
  /\ \A s \in Stores, a \in Addresses, e \in Endpoints : \A i \in DOMAIN Limits[e] :
       LET n == counter[s][a][e][i] IN
       n.hits \in Nat /\ n.left \in 0 .. Limits[e][i].span /\ (n.hits = 0 <=> n.left = 0)
  /\ \A c \in Clients, e \in Endpoints :
       /\ asked[c][e] \in [1 .. Longest(e) -> Nat] /\ served[c][e] \in [1 .. Longest(e) -> Nat]
       /\ asked[c][e][1] \in served[c][e][1] .. Pace[e]
  /\ restarts \in 0 .. MaxRestarts

Init ==
  /\ counter = [s \in Stores |-> Fresh]
  /\ asked = [c \in Clients |-> [e \in Endpoints |-> [t \in 1 .. Longest(e) |-> 0]]]
  /\ served = [c \in Clients |-> [e \in Endpoints |-> [t \in 1 .. Longest(e) |-> 0]]]
  /\ restarts = 0

-----------------------------------------------------------------------------
(* Counting *)

\* Mutant: "fixed-window-elastic-expiry", where each hit begins the window anew.
Extended(n, limit) == [hits |-> Min({n.hits, limit.amount}) + 1, left |-> limit.span]

\* A counter after one more hit.
Counted(n, limit) ==
  IF n.left = 0 THEN [hits |-> 1, left |-> limit.span] ELSE [n EXCEPT !.hits = @ + 1]

Within(n, limit) == Counted(n, limit).hits <= limit.amount

\* The limits of e a request of an address to a store comes to: all before are kept.
Reached(s, a, e) ==
  {i \in DOMAIN Limits[e] : \A j \in 1 .. i - 1 : Within(counter[s][a][e][j], Limits[e][j])}

Allowed(s, a, e) == \A i \in DOMAIN Limits[e] : Within(counter[s][a][e][i], Limits[e][i])

\* Mutant: only the first limit is counted.
HitFirst(s, a, e) ==
  counter' = [counter EXCEPT ![s][a][e][1] = Counted(@, Limits[e][1])]

Hit(s, a, e) ==
  counter' = [counter EXCEPT ![s][a][e] =
    [i \in DOMAIN Limits[e] |-> IF i \in Reached(s, a, e) THEN Counted(@[i], Limits[e][i]) ELSE @[i]]]

-----------------------------------------------------------------------------
(* Steps *)

\* A request to endpoint e comes to store s, and is served or answered with 429.
Ask(c, e, s) ==
  /\ asked[c][e][1] < Pace[e]
  /\ asked' = [asked EXCEPT ![c][e] = [t \in 1 .. Longest(e) |-> @[t] + 1]]
  /\ Hit(s, Address(c), e)
  /\ IF Allowed(s, Address(c), e)
     THEN served' = [served EXCEPT ![c][e] = [t \in 1 .. Longest(e) |-> @[t] + 1]]
     ELSE served' = served
  /\ UNCHANGED restarts

\* A history n one unit of time later.
Older(n, e) == [t \in 1 .. Longest(e) |-> IF t = 1 THEN 0 ELSE n[t - 1]]

\* Mutant: a window that has ended still shows what was counted.
ClockKeeps ==
  /\ counter' = [s \in Stores |-> [a \in Addresses |-> [e \in Endpoints |->
       [i \in DOMAIN Limits[e] |-> [counter[s][a][e][i] EXCEPT !.left = Max({@ - 1, 0})]]]]]
  /\ asked' = [c \in Clients |-> [e \in Endpoints |-> Older(asked[c][e], e)]]
  /\ served' = [c \in Clients |-> [e \in Endpoints |-> Older(served[c][e], e)]]
  /\ UNCHANGED restarts

\* A unit of time goes by.
Clock ==
  /\ counter' = [s \in Stores |-> [a \in Addresses |-> [e \in Endpoints |->
       [i \in DOMAIN Limits[e] |->
          LET n == counter[s][a][e][i] IN
          IF n.left <= 1 THEN Zero ELSE [n EXCEPT !.left = @ - 1]]]]]
  /\ asked' = [c \in Clients |-> [e \in Endpoints |-> Older(asked[c][e], e)]]
  /\ served' = [c \in Clients |-> [e \in Endpoints |-> Older(served[c][e], e)]]
  /\ UNCHANGED restarts

\* A process is replaced: what it has counted in its memory is gone.
Restart(s) ==
  /\ restarts < MaxRestarts /\ restarts' = restarts + 1
  /\ counter' = [counter EXCEPT ![s] = Fresh]
  /\ UNCHANGED <<asked, served>>

Next ==
  \/ \E c \in Clients, e \in Endpoints, s \in Stores : Ask(c, e, s)
  \/ Clock
  \/ \E s \in Stores : Restart(s)

Spec == Init /\ [][Next]_vars

\* Time goes on, and a client asks again, in vain or not.
Retries(c, e) == asked[c][e][1] = 0 /\ \E s \in Stores : Ask(c, e, s)
FairSpec == Spec /\ WF_vars(Clock) /\ \A c \in Clients, e \in Endpoints : WF_vars(Retries(c, e))

-----------------------------------------------------------------------------
(* Properties *)

\* What a client is served in a span of time: at most two windows of each process meet
\* it, and one more for each process that has lost its counters.
AllowanceHolds ==
  \A c \in Clients, e \in Endpoints : \A i \in DOMAIN Limits[e] :
    LET limit == Limits[e][i] IN
    served[c][e][limit.span] <= limit.amount * (2 * Cardinality(Stores) + restarts)

\* config.py: "with N workers a client gets N times the configured allowance before being
\* refused", in any span of time as long as no process is replaced.
AllowanceIsNTimes ==
  restarts = 0 =>
    \A c \in Clients, e \in Endpoints : \A i \in DOMAIN Limits[e] :
      LET limit == Limits[e][i] IN
      served[c][e][limit.span] <= limit.amount * Cardinality(Stores)

\* Nobody else comes from the address of c.
Alone(c) == \A d \in Clients : Address(d) = Address(c) => d = c

\* A client that polls no faster than the limits allow, and shares its address with nobody,
\* is never refused, wherever the windows begin and whichever process it comes to.
PacedIsServed ==
  \A c \in Clients, e \in Endpoints :
    Alone(c) /\ (\A i \in DOMAIN Limits[e] : asked[c][e][Limits[e][i].span] <= Limits[e][i].amount)
      => served[c][e][1] = asked[c][e][1]

\* Who keeps asking is served again: refusals do not put off the end of a window.
RetriesAreServed ==
  \A c \in Clients, e \in Endpoints : []<>(served[c][e][1] > 0)
=============================================================================
