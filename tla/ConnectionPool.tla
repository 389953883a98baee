--------------------------- MODULE ConnectionPool ---------------------------
(***************************************************************************)
(* The process-wide connection pool of backend/database.py and the three   *)
(* ways its connections are used: database.transaction, the get / release  *)
(* pairs of scripts/ingest_data.py, and the autocommit session of          *)
(* scripts/seed_demo.py.  The pool itself is psycopg2's, modelled from     *)
(* what these callers rely on.                                             *)
(*                                                                         *)
(* A call runs in one thread; other threads, close_pool and lost           *)
(* connections get in between any two of its steps.  Only the pool that    *)
(* _pool refers to is kept: what a closed pool had lent is closed, and a   *)
(* later pool does not know it.                                            *)
(***************************************************************************)
EXTENDS Integers, FiniteSets

CONSTANTS
  Threads, Conns, None,
  Uses,               \* which callers there are
  PoolMin, PoolMax,   \* DB_POOL_MIN, DB_POOL_MAX
  MaxBreaks,          \* bound: connections lost, connection attempts refused
  MaxCloses           \* bound: calls of close_pool

ASSUME PoolAssumption ==
  /\ None \notin Conns /\ IsFiniteSet(Conns)
  /\ Uses \subseteq {"transaction", "raw", "refresh"}
  /\ PoolMin \in Nat /\ PoolMax \in Nat /\ PoolMin <= PoolMax /\ MaxBreaks \in Nat /\ MaxCloses \in Nat

VARIABLES
  ready,   \* _pool is not None
  idle,    \* connections waiting in the pool
  used,    \* connections the pool has lent
  conn,    \* the client side of each connection
  call,    \* the call each thread is in
  breaks, closes

vars == <<ready, idle, used, conn, call, breaks, closes>>

\* link: "down" is lost at the server, which the client notices when it next uses it.
\* txn: the transaction status the client has recorded.
Connection == [link : {"up", "down", "closed"}, txn : {"idle", "open", "error"}, auto : BOOLEAN]

\* pc: get_pool is "get", "build" and "use", before a connection is held as well as
\* after.  durable: the server has committed.  result: what the caller is told.
Call == [pc : {"idle", "get", "build", "use", "begin", "work", "commit", "rollback", "reset"},
         use : Uses \cup {None}, conn : Conns \cup {None},
         durable : BOOLEAN, result : {"none", "ok", "error"}]

NoConnection == [link |-> "closed", txn |-> "idle", auto |-> FALSE]
Connected    == [link |-> "up", txn |-> "idle", auto |-> FALSE]
NoCall       == [pc |-> "idle", use |-> None, conn |-> None, durable |-> FALSE, result |-> "none"]

\* With the limit of the pool: connections beyond PoolMax are never opened.
TypeOK ==
  /\ Cardinality(idle \cup used) <= PoolMax
  /\ ready \in BOOLEAN
  /\ idle \in SUBSET Conns /\ used \in SUBSET Conns
  /\ conn \in [Conns -> Connection]
  /\ call \in [Threads -> Call]
  /\ breaks \in 0 .. MaxBreaks /\ closes \in 0 .. MaxCloses

Init ==
  /\ ready = FALSE /\ idle = {} /\ used = {}
  /\ conn = [c \in Conns |-> NoConnection]
  /\ call = [t \in Threads |-> NoCall]
  /\ breaks = 0 /\ closes = 0

-----------------------------------------------------------------------------
Goto(t, pc)  == call' = [call EXCEPT ![t].pc = pc]
Raised(t, pc) == call' = [call EXCEPT ![t].pc = pc, ![t].result = "error"]

\* The call ends; ok is what it tells its caller unless it failed before.
Return(t, ok) ==
  call' = [call EXCEPT ![t].pc = "idle", ![t].conn = None,
                       ![t].result = IF @ = "error" \/ ~ok THEN "error" ELSE "ok"]

\* A connection object nobody refers to any more: its place is taken by a new one.
Unborn == {c \in Conns : /\ conn[c].link = "closed" /\ c \notin idle \cup used
                         /\ \A t \in Threads : call[t].conn # c}

Ask(t, use) ==
  /\ call[t].pc = "idle"
  /\ call' = [call EXCEPT ![t] = [NoCall EXCEPT !.pc = "get", !.use = use]]
  /\ UNCHANGED <<ready, idle, used, conn, breaks, closes>>

\* get_pool: the first test of _pool, without the lock.
CheckPool(t) ==
  /\ call[t].pc = "get"
  /\ Goto(t, IF ready THEN "use" ELSE "build")
  /\ UNCHANGED <<ready, idle, used, conn, breaks, closes>>

\* Mutant: the second test of _pool is missing.
BuildAgain(t) ==
  /\ call[t].pc = "build"
  /\ \E S \in SUBSET Unborn :
       /\ Cardinality(S) = PoolMin
       /\ idle' = S /\ used' = {}
       /\ conn' = [c \in Conns |-> IF c \in S THEN Connected ELSE conn[c]]
  /\ ready' = TRUE
  /\ Goto(t, "use")
  /\ UNCHANGED <<breaks, closes>>

\* get_pool: the section under _pool_lock.
Build(t) ==
  /\ call[t].pc = "build"
  /\ IF ready THEN UNCHANGED <<ready, idle, used, conn>>
     ELSE \E S \in SUBSET Unborn :
            /\ Cardinality(S) = PoolMin
            /\ ready' = TRUE /\ idle' = S /\ used' = {}
            /\ conn' = [c \in Conns |-> IF c \in S THEN Connected ELSE conn[c]]
  /\ Goto(t, "use")
  /\ UNCHANGED <<breaks, closes>>

\* pool.getconn lends an idle connection or a new one; PoolMax are out at most.
Lend(t, c) ==
  /\ used' = used \cup {c}
  /\ call' = [call EXCEPT ![t].pc = "begin", ![t].conn = c]

\* Mutant: the limit is off by one.
GetOneMore(t) ==
  /\ call[t].pc = "use" /\ call[t].conn = None /\ ready
  /\ \/ /\ \E c \in idle : Lend(t, c) /\ idle' = idle \ {c}
        /\ UNCHANGED conn
     \/ /\ idle = {} /\ Cardinality(used) <= PoolMax
        /\ \E c \in Unborn : Lend(t, c) /\ conn' = [conn EXCEPT ![c] = Connected]
        /\ UNCHANGED idle
  /\ UNCHANGED <<ready, breaks, closes>>

\* Mutant: an exhausted pool makes its caller wait for a connection.
GetOrWait(t) ==
  /\ call[t].pc = "use" /\ call[t].conn = None
  /\ \E c \in idle : Lend(t, c) /\ idle' = idle \ {c}
  /\ UNCHANGED <<ready, conn, breaks, closes>>

\* get_db_connection.  close_pool may have come since get_pool looked: _pool is
\* None, or was closed before getconn got to it, which fails in the same way.
GetConn(t) ==
  /\ call[t].pc = "use" /\ call[t].conn = None
  /\ UNCHANGED <<ready, breaks, closes>>
  /\ \/ /\ ready => idle = {} /\ Cardinality(used) = PoolMax
        /\ Return(t, FALSE)
        /\ UNCHANGED <<idle, used, conn>>
     \/ /\ ready
        /\ \E c \in idle : Lend(t, c) /\ idle' = idle \ {c}
        /\ UNCHANGED conn
     \/ /\ ready /\ idle = {} /\ Cardinality(used) # PoolMax
        /\ \E c \in Unborn : Lend(t, c) /\ conn' = [conn EXCEPT ![c] = Connected]
        /\ UNCHANGED idle

\* The server refuses a new connection.
Refused(t) ==
  /\ breaks < MaxBreaks /\ breaks' = breaks + 1
  /\ \/ call[t].pc = "build" /\ ~ready
     \/ /\ call[t].pc = "use" /\ call[t].conn = None
        /\ ready /\ idle = {} /\ Cardinality(used) # PoolMax
  /\ Return(t, FALSE)
  /\ UNCHANGED <<ready, idle, used, conn, closes>>

\* Where the exception of a statement takes its caller.
Handler(use) == CASE use = "transaction" -> "rollback"
                  [] use = "raw"         -> "get"
                  [] use = "refresh"     -> "reset"

\* conn.autocommit = FALSE or TRUE; the scripts that insert prices leave it alone.
Begin(t) ==
  LET c == call[t].conn  use == call[t].use IN
  /\ call[t].pc = "begin"
  /\ IF use = "raw"
     THEN Goto(t, "work") /\ UNCHANGED conn
     ELSE \/ /\ (conn[c].link = "closed" \/ conn[c].txn # "idle")
             /\ Raised(t, Handler(use)) /\ UNCHANGED conn
          \/ /\ conn[c].link # "closed" /\ conn[c].txn = "idle"
             /\ Goto(t, "work") /\ conn' = [conn EXCEPT ![c].auto = (use = "refresh")]
  /\ UNCHANGED <<ready, idle, used, breaks, closes>>

\* The statements of the call.  A reading script does not commit.
Work(t) ==
  LET c == call[t].conn  use == call[t].use IN
  /\ call[t].pc = "work"
  /\ \/ /\ conn[c].link = "up"
        /\ conn' = [conn EXCEPT ![c].txn = IF conn[c].auto THEN "idle" ELSE "open"]
        /\ \E pc \in CASE use = "transaction" -> {"commit"}
                       [] use = "raw" -> {"commit", "get"}
                       [] use = "refresh" -> {"reset"} :
             call' = [call EXCEPT ![t].pc = pc, ![t].durable = conn[c].auto]
     \/ /\ conn[c].link = "up"
        /\ conn' = [conn EXCEPT ![c].txn = IF conn[c].auto THEN "idle" ELSE "error"]
        /\ Raised(t, Handler(use))
     \/ /\ conn[c].link # "up"
        /\ conn' = [conn EXCEPT ![c].link = "closed"]
        /\ Raised(t, Handler(use))
  /\ UNCHANGED <<ready, idle, used, breaks, closes>>

\* conn.commit; the answer of the server may be lost after it has committed.
Commit(t) ==
  LET c == call[t].conn IN
  /\ call[t].pc = "commit"
  /\ \/ /\ conn[c].link = "up"
        /\ conn' = [conn EXCEPT ![c].txn = "idle"]
        /\ call' = [call EXCEPT ![t].pc = "get", ![t].durable = TRUE]
        /\ UNCHANGED breaks
     \/ /\ conn[c].link = "up" /\ breaks < MaxBreaks
        /\ breaks' = breaks + 1
        /\ conn' = [conn EXCEPT ![c].link = "closed"]
        /\ call' = [call EXCEPT ![t].pc = Handler(call[t].use), ![t].durable = TRUE,
                                ![t].result = "error"]
     \/ /\ conn[c].link # "up"
        /\ conn' = [conn EXCEPT ![c].link = "closed"]
        /\ Raised(t, Handler(call[t].use))
        /\ UNCHANGED breaks
  /\ UNCHANGED <<ready, idle, used, closes>>

\* Mutant: the except clause commits what was done before the exception.
RollbackCommits(t) ==
  /\ call[t].pc = "rollback"
  /\ conn' = [conn EXCEPT ![call[t].conn].txn = "idle"]
  /\ call' = [call EXCEPT ![t].pc = "get", ![t].durable = TRUE]
  /\ UNCHANGED <<ready, idle, used, breaks, closes>>

\* Mutant: the exception of a failed rollback leaves the finally clause out.
RollbackEscapes(t) ==
  LET c == call[t].conn IN
  /\ call[t].pc = "rollback"
  /\ IF conn[c].link = "up"
     THEN Raised(t, "get") /\ conn' = [conn EXCEPT ![c].txn = "idle"]
     ELSE Return(t, FALSE) /\ conn' = [conn EXCEPT ![c].link = "closed"]
  /\ UNCHANGED <<ready, idle, used, breaks, closes>>

\* conn.rollback in the except clause of transaction; on a lost connection it
\* raises itself, in place of the exception it was to clean up after.
Rollback(t) ==
  LET c == call[t].conn IN
  /\ call[t].pc = "rollback"
  /\ conn' = IF conn[c].link = "up" THEN [conn EXCEPT ![c].txn = "idle"]
                                    ELSE [conn EXCEPT ![c].link = "closed"]
  /\ Raised(t, "get")
  /\ UNCHANGED <<ready, idle, used, breaks, closes>>

\* Mutant: the session goes back as it is.
ResetNothing(t) ==
  /\ call[t].pc = "reset"
  /\ Goto(t, "get")
  /\ UNCHANGED <<ready, idle, used, conn, breaks, closes>>

\* The finally clause of refresh_aggregate: conn.autocommit = False raises on a
\* closed connection, and the release behind it is not reached.
Reset(t) ==
  LET c == call[t].conn IN
  /\ call[t].pc = "reset"
  /\ IF conn[c].link = "closed" THEN Return(t, FALSE) /\ UNCHANGED conn
     ELSE Goto(t, "get") /\ conn' = [conn EXCEPT ![c].auto = FALSE]
  /\ UNCHANGED <<ready, idle, used, breaks, closes>>

\* pool.putconn keeps PoolMin idle connections and closes the others.  It rolls a
\* transaction back first, if there is one; when that fails the connection stays lent.
TakeBack(t, c) ==
  LET keep == Cardinality(idle) < PoolMin /\ conn[c].link # "closed"
      stuck == keep /\ conn[c].link = "down" /\ conn[c].txn # "idle"
  IN
  /\ Return(t, ~stuck)
  /\ used' = IF stuck THEN used ELSE used \ {c}
  /\ idle' = IF keep /\ ~stuck THEN idle \cup {c} ELSE idle
  /\ conn' = [conn EXCEPT ![c] = IF keep /\ ~stuck THEN [@ EXCEPT !.txn = "idle"]
                                                   ELSE [@ EXCEPT !.link = "closed"]]

\* release_db_connection: a pool other than the one that lent c refuses it.
PutConn(t) ==
  LET c == call[t].conn IN
  /\ call[t].pc = "use" /\ c # None
  /\ IF ready /\ c \in used THEN TakeBack(t, c)
     ELSE Return(t, FALSE) /\ UNCHANGED <<idle, used, conn>>
  /\ UNCHANGED <<ready, breaks, closes>>

-----------------------------------------------------------------------------
\* close_pool, also with connections out.
ClosePool ==
  /\ ready /\ closes < MaxCloses
  /\ closes' = closes + 1
  /\ ready' = FALSE /\ idle' = {} /\ used' = {}
  /\ conn' = [c \in Conns |-> IF c \in idle \cup used THEN [conn[c] EXCEPT !.link = "closed"]
                                                      ELSE conn[c]]
  /\ UNCHANGED <<call, breaks>>

\* The server or the network drops a connection.
Break(c) ==
  /\ conn[c].link = "up" /\ breaks < MaxBreaks
  /\ breaks' = breaks + 1
  /\ conn' = [conn EXCEPT ![c].link = "down"]
  /\ UNCHANGED <<ready, idle, used, call, closes>>

Step(t) ==
  \/ CheckPool(t) \/ Build(t) \/ GetConn(t) \/ Refused(t)
  \/ Begin(t) \/ Work(t) \/ Commit(t) \/ Rollback(t) \/ Reset(t) \/ PutConn(t)

Next ==
  \/ \E t \in Threads : Step(t) \/ \E use \in Uses : Ask(t, use)
  \/ ClosePool
  \/ \E c \in Conns : Break(c)

Spec     == Init /\ [][Next]_vars
FairSpec == Spec /\ \A t \in Threads : WF_vars(Step(t))

-----------------------------------------------------------------------------
(* Properties *)

\* A connection is lent to one thread at a time and is not waiting in the pool
\* meanwhile, and no open connection is forgotten by the pool.
ExclusiveLoan ==
  /\ \A t, u \in Threads : call[t].conn = call[u].conn /\ call[t].conn # None => t = u
  /\ \A t \in Threads : call[t].conn \notin idle
  /\ idle \cap used = {}
  /\ \A c \in Conns : conn[c].link # "closed" => c \in idle \cup used

\* "The next borrower inherits a predictable session": whoever runs statements is in
\* the commit mode its code expects, outside any transaction of the last borrower.
PredictableSession ==
  \A t \in Threads : call[t].pc = "work" =>
    LET c == conn[call[t].conn] IN c.txn = "idle" /\ c.auto = (call[t].use = "refresh")

\* However a transaction ends, its connection does not count as lent any more: no slot
\* of the PoolMax is lost for the life of the process, whatever breaks meanwhile.
NoSlotLost ==
  [][\A t \in Threads :
       call[t].use = "transaction" /\ call[t].conn # None /\ call'[t].conn = None
         => call[t].conn \notin used']_vars

\* A call that has failed has changed nothing: "rolls back on any exception", an exhausted
\* pool and a failed statement included.  (When a connection is lost or the pool is closed
\* in the middle, what was committed may be reported as an error.)
ErrorMeansUndone ==
  breaks = 0 /\ closes = 0 =>
    \A t \in Threads : call[t].pc = "idle" /\ call[t].result = "error" => ~call[t].durable

\* A transaction reported as done has been committed.
DoneMeansDurable ==
  \A t \in Threads :
    call[t].use = "transaction" /\ call[t].result = "ok" => call[t].durable

\* No call waits for ever: the pool refuses when it is exhausted, it does not block.
CallsReturn == \A t \in Threads : call[t].pc # "idle" ~> call[t].pc = "idle"
=============================================================================
