---------------------------- MODULE Application -----------------------------
(***************************************************************************)
(* backend/app.py and the processes it runs in: accounts and sessions, the *)
(* wallet's balance, the list of trades, the rate limits, and who runs the *)
(* jobs.  These share no state: a request of one cannot change what        *)
(* another answers, and their steps interleave in any way.                 *)
(***************************************************************************)
EXTENDS Accounts

CONSTANTS
  Users, Calls, Amounts, Changes, Funds, MaxWrites,                      \* WalletBalance
  Trades, PageSizes, MaxLimit, MaxNow,                                   \* TradeList
  Stores, Clients, Address(_), Endpoints, Allowances, Pace, MaxRestarts, \* RateLimit
  Workers, Apps, Children, Web, DEBUG, ENABLE_SCHEDULER, Jobs, Interval  \* Scheduler

VARIABLES
  balance, lock, call, due, writes,
  now, stamp, committed, reader,
  counter, asked, served, restarts,
  state, wait, running

cash    == <<balance, lock, call, due, writes>>
list    == <<now, stamp, committed, reader>>
limits  == <<counter, asked, served, restarts>>
jobs    == <<state, wait, running>>
all     == <<vars, cash, list, limits, jobs>>

B == INSTANCE WalletBalance WITH Opening <- Funds
T == INSTANCE TradeList WITH Limits <- PageSizes
L == INSTANCE RateLimit WITH Limits <- Allowances
S == INSTANCE Scheduler

ASSUME ApplicationAssumption ==
  B!WalletAssumption /\ T!ListAssumption /\ L!LimitAssumption /\ S!SchedulerAssumption

-----------------------------------------------------------------------------
AppInit == Init /\ B!Init /\ T!Init /\ L!Init /\ S!Init

AccountStep == Next /\ UNCHANGED <<cash, list, limits, jobs>>
WalletStep  == B!Next /\ UNCHANGED <<vars, list, limits, jobs>>
ListStep    == T!Next /\ UNCHANGED <<vars, cash, limits, jobs>>
LimitStep   == L!Next /\ UNCHANGED <<vars, cash, list, jobs>>
JobStep     == S!Next /\ UNCHANGED <<vars, cash, list, limits>>

AppNext == AccountStep \/ WalletStep \/ ListStep \/ LimitStep \/ JobStep

AppSpec == AppInit /\ [][AppNext]_all

-----------------------------------------------------------------------------
(* Properties, with those of Accounts *)

\* The types of all parts.
TypesOK == TypeOK /\ B!TypeOK /\ T!TypeOK /\ L!TypeOK /\ S!TypeOK

\* A deposit or a withdrawal returns a balance the account has had (WalletBalance).
BalanceExisted == B!BalanceExisted

\* The pages of the trades leave none out (TradeList).
NoTradeSkipped == T!NoTradeSkipped

\* What a client is served in a span of time is bounded (RateLimit).
AllowanceHolds == L!AllowanceHolds

\* A client that leaves time between its requests is never refused (RateLimit).
PacedIsServed == L!PacedIsServed

\* A job never runs twice at a time (Scheduler).
OneRunAtATime == S!OneRunAtATime

\* A worker that has stopped has let its jobs end (Scheduler).
StopsClean == S!StopsClean
=============================================================================
