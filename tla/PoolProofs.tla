----------------------------- MODULE PoolProofs -----------------------------
(***************************************************************************)
(* Loans, sessions, slots and failed calls of the connection pool, proved  *)
(* for any number of threads and connections, lost connections and closed  *)
(* pools.                                                                  *)
(***************************************************************************)
EXTENDS ConnectionPool, FiniteSetTheorems, TLAPS

\* TypeOK but for the limit on the number of connections.
Types ==
  /\ ready \in BOOLEAN /\ idle \in SUBSET Conns /\ used \in SUBSET Conns
  /\ conn \in [Conns -> Connection] /\ call \in [Threads -> Call]

ClosedIsEmpty == ~ready => idle = {} /\ used = {}

\* A waiting connection is outside any transaction and not in autocommit mode.
IdleIsClean == \A c \in idle : conn[c].txn = "idle" /\ conn[c].auto = FALSE

\* What a call k may rely on, with the connections as in cn.
CallOK(k, cn) ==
  /\ k.pc = "idle" => k.conn = None
  /\ k.pc \in {"begin", "work", "commit", "rollback", "reset"} => k.conn # None
  /\ k.pc # "idle" => k.use \in Uses /\ k.result # "ok"
  /\ k.pc = "reset" => k.use = "refresh"
  /\ k.pc \in {"begin", "work"} => cn[k.conn].txn = "idle"
  /\ k.pc = "work" => cn[k.conn].auto = (k.use = "refresh")
  /\ k.pc \in {"get", "build", "use", "begin", "commit", "rollback"} /\ k.conn # None =>
       cn[k.conn].auto = FALSE
  /\ k.use = "transaction" /\ k.conn # None /\ k.pc \in {"get", "build", "use"}
       /\ k.result # "error" => k.durable
  /\ k.use = "transaction" /\ k.result = "ok" => k.durable
  /\ k.use = "transaction" /\ k.conn # None /\ k.pc \in {"get", "build", "use"} =>
       cn[k.conn].txn = "idle" \/ cn[k.conn].link = "closed"

CallsOK == \A t \in Threads : CallOK(call[t], conn)

Inv == Types /\ ClosedIsEmpty /\ IdleIsClean /\ CallsOK /\ ExclusiveLoan

LEMMA InitInv == Init => Inv
<1> SUFFICES ASSUME Init PROVE Inv
  OBVIOUS
<1>1. NoConnection \in Connection /\ NoCall \in Call
  BY DEF NoConnection, Connection, NoCall, Call
<1>2. Types
  BY <1>1 DEF Init, Types
<1>3. ClosedIsEmpty /\ IdleIsClean
  BY DEF Init, ClosedIsEmpty, IdleIsClean
<1>4. CallsOK
  BY DEF Init, CallsOK, CallOK, NoCall
<1>5. ExclusiveLoan
  BY DEF Init, ExclusiveLoan, NoCall, NoConnection
<1> QED BY <1>2, <1>3, <1>4, <1>5 DEF Inv

-----------------------------------------------------------------------------
(* Kinds of steps *)

\* A call is as well off with connections that agree on its own.
LEMMA SameConnection ==
  ASSUME NEW k, NEW cn, NEW cm, CallOK(k, cn),
         k.conn # None => /\ cn[k.conn].txn = cm[k.conn].txn /\ cn[k.conn].auto = cm[k.conn].auto
                          /\ cn[k.conn].link = "closed" => cm[k.conn].link = "closed"
  PROVE  CallOK(k, cm)
BY DEF CallOK

\* A thread goes on with the connection it has, or without one.
LEMMA GoesOn ==
  ASSUME Inv, NEW t \in Threads, NEW k \in Call, call' = [call EXCEPT ![t] = k],
         k.conn = call[t].conn, CallOK(k, conn), UNCHANGED <<ready, idle, used, conn>>
  PROVE  Inv'
<1>1. \A u \in Threads : call'[u] = IF u = t THEN k ELSE call[u]
  BY DEF Inv, Types
<1>2. \A u \in Threads : call'[u].conn = call[u].conn
  BY <1>1
<1>3. Types' /\ ClosedIsEmpty' /\ IdleIsClean'
  BY DEF Inv, Types, ClosedIsEmpty, IdleIsClean
<1>4. CallsOK'
  BY <1>1 DEF Inv, CallsOK
<1>5. ExclusiveLoan'
  BY <1>2 DEF Inv, ExclusiveLoan
<1> QED BY <1>3, <1>4, <1>5 DEF Inv

\* A thread uses its connection, which is not opened by that.
LEMMA Operates ==
  ASSUME Inv, NEW t \in Threads, NEW k \in Call, call' = [call EXCEPT ![t] = k],
         NEW c \in Conns, c = call[t].conn, k.conn = c, NEW d \in Connection,
         conn' = [conn EXCEPT ![c] = d],
         d.link # "closed" => conn[c].link # "closed", CallOK(k, conn'),
         UNCHANGED <<ready, idle, used>>
  PROVE  Inv'
<1>1. \A u \in Threads : call'[u] = IF u = t THEN k ELSE call[u]
  BY DEF Inv, Types
<1>2. \A u \in Threads : call'[u].conn = call[u].conn
  BY <1>1
<1>3. \A e \in Conns : conn'[e] = IF e = c THEN d ELSE conn[e]
  BY DEF Inv, Types
<1>4. None \notin Conns
  BY PoolAssumption DEF PoolAssumption
<1>5. c \notin idle /\ \A u \in Threads \ {t} : call[u].conn # c
  BY <1>4 DEF Inv, ExclusiveLoan
<1>6. Types' /\ ClosedIsEmpty'
  BY DEF Inv, Types, ClosedIsEmpty
<1>7. IdleIsClean'
  BY <1>3, <1>5 DEF Inv, IdleIsClean, Types
<1>8. CallsOK'
  <2>1. ASSUME NEW u \in Threads \ {t} PROVE CallOK(call[u], conn')
    <3>1. CallOK(call[u], conn) /\ call[u].conn \in Conns \cup {None}
      BY DEF Inv, CallsOK, Types, Call
    <3>2. call[u].conn # None => conn'[call[u].conn] = conn[call[u].conn]
      BY <3>1, <1>3, <1>5
    <3> QED BY <3>1, <3>2, SameConnection
  <2> QED BY <1>1, <2>1 DEF CallsOK
<1>9. ExclusiveLoan'
  BY <1>2, <1>3 DEF Inv, ExclusiveLoan
<1> QED BY <1>6, <1>7, <1>8, <1>9 DEF Inv

\* A thread lets go of a connection that is closed, or has none.
LEMMA LetsGo ==
  ASSUME Inv, NEW t \in Threads, NEW k \in Call, call' = [call EXCEPT ![t] = k],
         k.conn = None, CallOK(k, conn), UNCHANGED <<ready, idle, used, conn>>
  PROVE  Inv'
<1>1. \A u \in Threads : call'[u] = IF u = t THEN k ELSE call[u]
  BY DEF Inv, Types
<1>2. Types' /\ ClosedIsEmpty' /\ IdleIsClean'
  BY DEF Inv, Types, ClosedIsEmpty, IdleIsClean
<1>3. CallsOK'
  BY <1>1 DEF Inv, CallsOK
<1>4. None \notin idle
  BY PoolAssumption DEF PoolAssumption, Inv, Types
<1>5. ExclusiveLoan'
  BY <1>1, <1>4 DEF Inv, ExclusiveLoan
<1> QED BY <1>2, <1>3, <1>5 DEF Inv

\* A thread is lent a connection that was idle or is new.
LEMMA IsLent ==
  ASSUME Inv, NEW t \in Threads, NEW k \in Call, call' = [call EXCEPT ![t] = k],
         call[t].conn = None, NEW c \in Conns, k.conn = c,
         \A u \in Threads : call[u].conn # c,
         used' = used \cup {c}, idle' = idle \ {c}, NEW d \in Connection,
         conn' = [conn EXCEPT ![c] = d], CallOK(k, conn'), ready, UNCHANGED ready
  PROVE  Inv'
<1>1. \A u \in Threads : call'[u] = IF u = t THEN k ELSE call[u]
  BY DEF Inv, Types
<1>2. \A e \in Conns : conn'[e] = IF e = c THEN d ELSE conn[e]
  BY DEF Inv, Types
<1>3. None \notin Conns
  BY PoolAssumption DEF PoolAssumption
<1>4. Types' /\ ClosedIsEmpty'
  BY DEF Inv, Types, ClosedIsEmpty
<1>5. IdleIsClean'
  BY <1>2 DEF Inv, IdleIsClean, Types
<1>6. CallsOK'
  <2>1. ASSUME NEW u \in Threads \ {t} PROVE CallOK(call[u], conn')
    <3>1. CallOK(call[u], conn) /\ call[u].conn \in Conns \cup {None}
      BY DEF Inv, CallsOK, Types, Call
    <3>2. call[u].conn # None => conn'[call[u].conn] = conn[call[u].conn]
      BY <3>1, <1>2
    <3> QED BY <3>1, <3>2, SameConnection
  <2> QED BY <1>1, <2>1 DEF CallsOK
<1>7. ExclusiveLoan'
  <2>1. \A u, v \in Threads : call'[u].conn = call'[v].conn /\ call'[u].conn # None => u = v
    BY <1>1 DEF Inv, ExclusiveLoan
  <2>2. \A u \in Threads : call'[u].conn \notin idle'
    BY <1>1 DEF Inv, ExclusiveLoan
  <2>3. idle' \cap used' = {}
    BY DEF Inv, ExclusiveLoan
  <2>4. \A e \in Conns : conn'[e].link # "closed" => e \in idle' \cup used'
    BY <1>2 DEF Inv, ExclusiveLoan
  <2> QED BY <2>1, <2>2, <2>3, <2>4 DEF ExclusiveLoan
<1> QED BY <1>4, <1>5, <1>6, <1>7 DEF Inv

-----------------------------------------------------------------------------
(* The steps *)

LEMMA CallOf ==
  ASSUME Inv, NEW t \in Threads
  PROVE  /\ call \in [Threads -> Call] /\ call[t] \in Call /\ CallOK(call[t], conn)
         /\ conn \in [Conns -> Connection]
BY DEF Inv, Types, CallsOK

LEMMA AskInv == ASSUME Inv, NEW t \in Threads, NEW use \in Uses, Ask(t, use) PROVE Inv'
<1> DEFINE k == [NoCall EXCEPT !.pc = "get", !.use = use]
<1>1. k \in Call /\ k.pc = "get" /\ k.conn = None /\ k.use = use /\ k.result = "none"
  BY DEF NoCall, Call
<1>2. call' = [call EXCEPT ![t] = k] /\ UNCHANGED <<ready, idle, used, conn>>
  BY DEF Ask
<1> HIDE DEF k
<1>3. CallOK(k, conn)
  BY <1>1 DEF CallOK
<1> QED BY <1>1, <1>2, <1>3, LetsGo

\* The program counter moves, among the steps of get_pool or past one.
LEMMA GotoInv ==
  ASSUME Inv, NEW t \in Threads, call[t].pc \in {"get", "build"}, NEW pc \in {"build", "use"},
         Goto(t, pc), UNCHANGED <<ready, idle, used, conn>>
  PROVE  Inv'
<1> DEFINE k == [call[t] EXCEPT !.pc = pc]
<1>1. /\ k \in Call /\ k.pc = pc /\ k.conn = call[t].conn /\ k.use = call[t].use
      /\ k.result = call[t].result /\ k.durable = call[t].durable
  BY CallOf DEF Call
<1>2. call' = [call EXCEPT ![t] = k]
  BY CallOf DEF Goto
<1> HIDE DEF k
<1>3. CallOK(k, conn)
  BY <1>1, CallOf DEF CallOK
<1> QED BY <1>1, <1>2, <1>3, GoesOn

LEMMA CheckPoolInv == ASSUME Inv, NEW t \in Threads, CheckPool(t) PROVE Inv'
<1>1. (IF ready THEN "use" ELSE "build") \in {"build", "use"}
  OBVIOUS
<1> QED BY <1>1, GotoInv DEF CheckPool

LEMMA BuildInv == ASSUME Inv, NEW t \in Threads, Build(t) PROVE Inv'
<1>1. CASE ready
  BY <1>1, GotoInv DEF Build
<1>2. CASE ~ready
  <2>1. PICK S \in SUBSET Unborn :
          /\ ready' = TRUE /\ idle' = S /\ used' = {}
          /\ conn' = [c \in Conns |-> IF c \in S THEN Connected ELSE conn[c]]
    BY <1>2 DEF Build
  <2>2. call[t].pc = "build" /\ Goto(t, "use")
    BY DEF Build
  <2> DEFINE k == [call[t] EXCEPT !.pc = "use"]
  <2>3. /\ k \in Call /\ k.pc = "use" /\ k.conn = call[t].conn /\ k.use = call[t].use
        /\ k.result = call[t].result /\ k.durable = call[t].durable
    BY CallOf DEF Call
  <2>4. call' = [call EXCEPT ![t] = k]
    BY <2>2, CallOf DEF Goto
  <2> HIDE DEF k
  <2>5. CallOK(k, conn)
    BY <2>2, <2>3, CallOf DEF CallOK
  <2>6. \A u \in Threads : call'[u] = IF u = t THEN k ELSE call[u]
    BY <2>4, CallOf
  <2>7. Connected \in Connection /\ Connected.txn = "idle" /\ Connected.auto = FALSE
    BY DEF Connected, Connection
  <2>8. S \subseteq Conns /\ \A u \in Threads : call[u].conn \notin S
    BY DEF Unborn
  <2>9. Types' /\ ClosedIsEmpty'
    BY <2>1, <2>3, <2>4, <2>7, <2>8 DEF Inv, Types, ClosedIsEmpty
  <2>10. IdleIsClean'
    BY <2>1, <2>7, <2>8 DEF IdleIsClean
  <2>11. CallsOK'
    <3>1. ASSUME NEW u \in Threads PROVE CallOK(call'[u], conn')
      <4>1. CallOK(call'[u], conn) /\ call'[u].conn \in Conns \cup {None} /\ call'[u].conn = call[u].conn
        BY <2>3, <2>5, <2>6, CallOf DEF Call
      <4>2. call'[u].conn # None => conn'[call'[u].conn] = conn[call'[u].conn]
        BY <2>1, <2>8, <4>1
      <4> QED BY <4>1, <4>2, SameConnection
    <3> QED BY <3>1 DEF CallsOK
  <2>12. ExclusiveLoan'
    <3>1. \A u \in Threads : call'[u].conn = call[u].conn
      BY <2>3, <2>6
    <3>2. \A e \in Conns : conn'[e].link # "closed" => e \in S
      BY <1>2, <2>1 DEF Inv, ExclusiveLoan, ClosedIsEmpty
    <3> QED BY <2>1, <2>8, <3>1, <3>2 DEF Inv, ExclusiveLoan
  <2> QED BY <2>9, <2>10, <2>11, <2>12 DEF Inv
<1> QED BY <1>1, <1>2

\* A call ends with an error, or after it has released its connection.
LEMMA ReturnType ==
  ASSUME Inv, NEW t \in Threads, NEW ok, Return(t, ok), call[t].pc # "idle"
  PROVE  \E k \in Call :
           /\ call' = [call EXCEPT ![t] = k] /\ k.pc = "idle" /\ k.conn = None
           /\ k.use = call[t].use /\ k.durable = call[t].durable
           /\ k.result = IF call[t].result = "error" \/ ~ok THEN "error" ELSE "ok"
<1> DEFINE r == IF call[t].result = "error" \/ ~ok THEN "error" ELSE "ok"
           k == [call[t] EXCEPT !.pc = "idle", !.conn = None, !.result = r]
<1>1. r \in {"error", "ok"}
  OBVIOUS
<1>2. call' = [call EXCEPT ![t] = k]
  BY CallOf DEF Return
<1> HIDE DEF r
<1>3. /\ k \in Call /\ k.pc = "idle" /\ k.conn = None /\ k.use = call[t].use
      /\ k.durable = call[t].durable /\ k.result = r
  BY <1>1, CallOf DEF Call
<1> QED BY <1>2, <1>3 DEF r

LEMMA FailsInv ==
  ASSUME Inv, NEW t \in Threads, Return(t, FALSE), call[t].pc # "idle",
         UNCHANGED <<ready, idle, used, conn>>
  PROVE  Inv'
<1>1. PICK k \in Call : /\ call' = [call EXCEPT ![t] = k] /\ k.pc = "idle" /\ k.conn = None
                        /\ k.result = "error"
  BY ReturnType
<1>2. CallOK(k, conn)
  BY <1>1 DEF CallOK
<1> QED BY <1>1, <1>2, LetsGo

LEMMA LendInv ==
  ASSUME Inv, NEW t \in Threads, call[t].pc = "use", call[t].conn = None, ready,
         NEW c \in Conns, NEW d \in Connection, d.txn = "idle", d.auto = FALSE,
         \A u \in Threads : call[u].conn # c, Lend(t, c),
         idle' = idle \ {c}, conn' = [conn EXCEPT ![c] = d], UNCHANGED ready
  PROVE  Inv'
<1> DEFINE k == [call[t] EXCEPT !.pc = "begin", !.conn = c]
<1>1. /\ k \in Call /\ k.pc = "begin" /\ k.conn = c /\ k.use = call[t].use
      /\ k.result = call[t].result
  BY CallOf DEF Call
<1>2. call' = [call EXCEPT ![t] = k] /\ used' = used \cup {c}
  BY CallOf DEF Lend
<1> HIDE DEF k
<1>3. conn'[c] = d /\ c # None
  BY CallOf, PoolAssumption DEF PoolAssumption
<1>4. CallOK(k, conn')
  BY <1>1, <1>3, CallOf DEF CallOK
<1> QED BY <1>1, <1>2, <1>4, IsLent

LEMMA GetConnInv == ASSUME Inv, NEW t \in Threads, GetConn(t) PROVE Inv'
<1>1. call[t].pc = "use" /\ call[t].conn = None /\ UNCHANGED ready
  BY DEF GetConn
<1>2. CASE Return(t, FALSE) /\ UNCHANGED <<idle, used, conn>>
  BY <1>1, <1>2, FailsInv
<1>3. ASSUME ready, NEW c \in idle, Lend(t, c), idle' = idle \ {c}, UNCHANGED conn PROVE Inv'
  <2>1. c \in Conns /\ conn[c] \in Connection /\ conn[c].txn = "idle" /\ conn[c].auto = FALSE
    BY DEF Inv, Types, IdleIsClean
  <2>2. \A u \in Threads : call[u].conn # c
    BY DEF Inv, ExclusiveLoan
  <2>3. conn' = [conn EXCEPT ![c] = conn[c]]
    BY <1>3, CallOf
  <2> QED BY <1>1, <1>3, <2>1, <2>2, <2>3, LendInv
<1>4. ASSUME ready, idle = {}, NEW c \in Unborn, Lend(t, c),
             conn' = [conn EXCEPT ![c] = Connected], UNCHANGED idle
      PROVE  Inv'
  <2>1. c \in Conns /\ \A u \in Threads : call[u].conn # c
    BY DEF Unborn
  <2>2. Connected \in Connection /\ Connected.txn = "idle" /\ Connected.auto = FALSE
    BY DEF Connected, Connection
  <2>3. idle' = idle \ {c}
    BY <1>4
  <2> QED BY <1>1, <1>4, <2>1, <2>2, <2>3, LendInv
<1> QED BY <1>2, <1>3, <1>4 DEF GetConn

LEMMA RefusedInv == ASSUME Inv, NEW t \in Threads, Refused(t) PROVE Inv'
BY FailsInv DEF Refused

-----------------------------------------------------------------------------
(* The steps of a call that holds a connection *)

LEMMA Holding ==
  ASSUME Inv, NEW t \in Threads, call[t].pc \in {"begin", "work", "commit", "rollback", "reset"}
  PROVE  /\ call[t].conn \in Conns /\ conn[call[t].conn] \in Connection
         /\ call[t].use \in Uses /\ call[t].result \in {"none", "error"} /\ call[t].durable \in BOOLEAN
         /\ call[t].pc = "work" => conn[call[t].conn].auto = (call[t].use = "refresh")
         /\ call[t].pc \in {"begin", "commit", "rollback"} => conn[call[t].conn].auto = FALSE
         /\ call[t].pc = "begin" => conn[call[t].conn].txn = "idle"
         /\ call[t].pc = "reset" => call[t].use = "refresh"
         /\ Handler(call[t].use) \in {"rollback", "get", "reset"}
         /\ Handler(call[t].use) = "reset" <=> call[t].use = "refresh"
         /\ call[t].use = "transaction" => Handler(call[t].use) = "rollback"
<1>1. call[t].use \in Uses /\ call[t].conn \in Conns /\ call[t].conn # None
  BY CallOf DEF CallOK, Call
<1>2. call[t].use \in {"transaction", "raw", "refresh"}
  BY <1>1, PoolAssumption DEF PoolAssumption
<1>3. /\ Handler(call[t].use) \in {"rollback", "get", "reset"}
      /\ Handler(call[t].use) = "reset" <=> call[t].use = "refresh"
      /\ call[t].use = "transaction" => Handler(call[t].use) = "rollback"
  BY <1>2 DEF Handler
<1>4. call[t].result \in {"none", "error"} /\ call[t].durable \in BOOLEAN
  BY CallOf DEF CallOK, Call
<1> QED BY <1>1, <1>3, <1>4, CallOf DEF CallOK

LEMMA Advance ==
  ASSUME Inv, NEW t \in Threads, call[t].pc \in {"begin", "work", "commit", "rollback", "reset"},
         NEW pc \in {"get", "work", "commit", "rollback", "reset"}, NEW durable \in BOOLEAN,
         NEW result \in {"none", "error"},
         call' = [call EXCEPT ![t] = [call[t] EXCEPT !.pc = pc, !.durable = durable, !.result = result]],
         NEW d \in Connection, conn' = [conn EXCEPT ![call[t].conn] = d],
         d.link # "closed" => conn[call[t].conn].link # "closed",
         pc = "work" => d.txn = "idle" /\ d.auto = (call[t].use = "refresh"),
         pc \in {"get", "commit", "rollback"} => d.auto = FALSE,
         pc = "reset" => call[t].use = "refresh",
         pc = "get" /\ call[t].use = "transaction" /\ result # "error" => durable,
         pc = "get" /\ call[t].use = "transaction" => d.txn = "idle" \/ d.link = "closed",
         UNCHANGED <<ready, idle, used>>
  PROVE  Inv'
<1> DEFINE k == [call[t] EXCEPT !.pc = pc, !.durable = durable, !.result = result]
           c == call[t].conn
<1>1. /\ k \in Call /\ k.pc = pc /\ k.durable = durable /\ k.result = result
      /\ k.conn = c /\ k.use = call[t].use
  BY CallOf DEF Call
<1>2. c \in Conns /\ k.use \in Uses /\ c # None
  BY <1>1, Holding, PoolAssumption DEF PoolAssumption
<1>3. conn'[c] = d
  BY <1>2, CallOf
<1>4. call' = [call EXCEPT ![t] = k]
  OBVIOUS
<1>5. conn' = [conn EXCEPT ![c] = d] /\ (d.link # "closed" => conn[c].link # "closed") /\ c = call[t].conn
  OBVIOUS
<1>6. /\ pc = "work" => d.txn = "idle" /\ d.auto = (k.use = "refresh")
      /\ pc = "get" /\ k.use = "transaction" /\ result # "error" => durable
      /\ pc = "get" /\ k.use = "transaction" => d.txn = "idle" \/ d.link = "closed"
      /\ pc = "reset" => k.use = "refresh"
  BY <1>1
<1>7. Inv /\ t \in Threads /\ d \in Connection /\ UNCHANGED <<ready, idle, used>>
  OBVIOUS
<1> HIDE DEF k, c
<1>8. CallOK(k, conn')
  BY <1>1, <1>2, <1>3, <1>6 DEF CallOK
<1> QED BY ONLY <1>1, <1>2, <1>4, <1>5, <1>7, <1>8, Operates

LEMMA RaisedInv ==
  ASSUME Inv, NEW t \in Threads, call[t].pc \in {"begin", "work", "commit", "rollback", "reset"},
         NEW pc \in {"get", "rollback", "reset"}, NEW durable \in BOOLEAN,
         call' = [call EXCEPT ![t].pc = pc, ![t].durable = durable, ![t].result = "error"],
         NEW d \in Connection, conn' = [conn EXCEPT ![call[t].conn] = d],
         d.link # "closed" => conn[call[t].conn].link # "closed",
         pc # "reset" => d.auto = FALSE, pc = "reset" => call[t].use = "refresh",
         pc = "get" /\ call[t].use = "transaction" => d.txn = "idle" \/ d.link = "closed",
         UNCHANGED <<ready, idle, used>>
  PROVE  Inv'
<1>1. call' = [call EXCEPT ![t] = [call[t] EXCEPT !.pc = pc, !.durable = durable, !.result = "error"]]
  BY CallOf
<1> QED BY <1>1, Advance

\* Raised, which leaves durable alone.
LEMMA RaisedAs ==
  ASSUME Inv, NEW t \in Threads, NEW pc, Raised(t, pc)
  PROVE  call' = [call EXCEPT ![t].pc = pc, ![t].durable = call[t].durable, ![t].result = "error"]
<1> DEFINE k == [call[t] EXCEPT !.pc = pc, !.result = "error"]
           l == [call[t] EXCEPT !.pc = pc, !.durable = call[t].durable, !.result = "error"]
<1>1. call' = [call EXCEPT ![t] = k]
  BY CallOf DEF Raised
<1>2. k = l
  BY CallOf DEF Call
<1> QED BY <1>1, <1>2, CallOf

LEMMA BeginInv == ASSUME Inv, NEW t \in Threads, Begin(t) PROVE Inv'
<1> DEFINE c == call[t].conn
           use == call[t].use
<1>1. call[t].pc = "begin" /\ UNCHANGED <<ready, idle, used>>
  BY DEF Begin
<1>2. c \in Conns /\ conn[c] \in Connection /\ conn[c].auto = FALSE /\ conn[c].txn = "idle"
      /\ use \in Uses /\ Handler(use) \in {"rollback", "get", "reset"}
      /\ (Handler(use) = "reset" => use = "refresh")
      /\ (use = "transaction" => Handler(use) = "rollback")
      /\ call[t].result \in {"none", "error"} /\ call[t].durable \in BOOLEAN
  BY <1>1, Holding
<1>3. conn = [conn EXCEPT ![c] = conn[c]]
  BY CallOf
<1>4. ASSUME Goto(t, "work")
      PROVE  call' = [call EXCEPT ![t] = [call[t] EXCEPT !.pc = "work", !.durable = call[t].durable,
                                                         !.result = call[t].result]]
  <2>1. [call[t] EXCEPT !.pc = "work"]
          = [call[t] EXCEPT !.pc = "work", !.durable = call[t].durable, !.result = call[t].result]
    BY CallOf DEF Call
  <2> QED BY <1>4, <2>1, CallOf DEF Goto
<1>5. CASE use = "raw" /\ Goto(t, "work") /\ UNCHANGED conn
  <2>1. conn' = [conn EXCEPT ![c] = conn[c]] /\ conn[c].auto = (use = "refresh")
    BY <1>2, <1>3, <1>5
  <2> QED BY <1>1, <1>2, <1>4, <1>5, <2>1, Advance
<1>6. CASE Raised(t, Handler(use)) /\ UNCHANGED conn
  <2>1. conn' = [conn EXCEPT ![c] = conn[c]]
    BY <1>3, <1>6
  <2>2. call' = [call EXCEPT ![t].pc = Handler(use), ![t].durable = call[t].durable,
                             ![t].result = "error"]
    BY <1>6, RaisedAs
  <2> QED BY <1>1, <1>2, <2>1, <2>2, RaisedInv
<1>7. CASE Goto(t, "work") /\ conn' = [conn EXCEPT ![c].auto = (use = "refresh")]
  <2> DEFINE d == [conn[c] EXCEPT !.auto = (use = "refresh")]
  <2>1. d \in Connection /\ d.txn = "idle" /\ d.link = conn[c].link /\ d.auto = (use = "refresh")
    BY <1>2 DEF Connection
  <2>2. conn' = [conn EXCEPT ![c] = d]
    BY <1>2, <1>7, CallOf
  <2>3. call' = [call EXCEPT ![t] = [call[t] EXCEPT !.pc = "work", !.durable = call[t].durable,
                                                    !.result = call[t].result]]
    BY <1>4, <1>7
  <2>4. d.link # "closed" => conn[c].link # "closed"
    BY <2>1
  <2> HIDE DEF d
  <2> QED BY <1>1, <1>2, <2>1, <2>2, <2>3, <2>4, Advance
<1> QED BY <1>5, <1>6, <1>7 DEF Begin

LEMMA CommitInv == ASSUME Inv, NEW t \in Threads, Commit(t) PROVE Inv'
<1> DEFINE c == call[t].conn
           use == call[t].use
<1>1. call[t].pc = "commit" /\ UNCHANGED <<ready, idle, used>>
  BY DEF Commit
<1>2. c \in Conns /\ conn[c] \in Connection /\ conn[c].auto = FALSE
      /\ use \in Uses /\ Handler(use) \in {"rollback", "get", "reset"}
      /\ (Handler(use) = "reset" => use = "refresh")
      /\ (use = "transaction" => Handler(use) = "rollback")
      /\ call[t].result \in {"none", "error"} /\ call[t].durable \in BOOLEAN
  BY <1>1, Holding
<1> DEFINE lost == [conn[c] EXCEPT !.link = "closed"]
           done == [conn[c] EXCEPT !.txn = "idle"]
<1>3. /\ lost \in Connection /\ lost.link = "closed" /\ lost.auto = FALSE
      /\ done \in Connection /\ done.link = conn[c].link /\ done.auto = FALSE /\ done.txn = "idle"
  BY <1>2 DEF Connection
<1>4. CASE /\ conn' = [conn EXCEPT ![c].txn = "idle"]
           /\ call' = [call EXCEPT ![t].pc = "get", ![t].durable = TRUE]
  <2>1. conn' = [conn EXCEPT ![c] = done]
    BY <1>2, <1>4, CallOf
  <2>2. [call[t] EXCEPT !.pc = "get", !.durable = TRUE]
          = [call[t] EXCEPT !.pc = "get", !.durable = TRUE, !.result = call[t].result]
    BY CallOf DEF Call
  <2>3. call' = [call EXCEPT ![t] = [call[t] EXCEPT !.pc = "get", !.durable = TRUE,
                                                    !.result = call[t].result]]
    BY <1>4, <2>2, CallOf
  <2> HIDE DEF done
  <2> QED BY <1>1, <1>2, <1>3, <2>1, <2>3, Advance
<1>5. CASE /\ conn' = [conn EXCEPT ![c].link = "closed"]
           /\ call' = [call EXCEPT ![t].pc = Handler(call[t].use), ![t].durable = TRUE,
                                   ![t].result = "error"]
  <2>1. conn' = [conn EXCEPT ![c] = lost]
    BY <1>2, <1>5, CallOf
  <2> HIDE DEF lost
  <2> QED BY <1>1, <1>2, <1>3, <1>5, <2>1, RaisedInv
<1>6. CASE conn' = [conn EXCEPT ![c].link = "closed"] /\ Raised(t, Handler(call[t].use))
  <2>1. conn' = [conn EXCEPT ![c] = lost]
    BY <1>2, <1>6, CallOf
  <2>2. call' = [call EXCEPT ![t].pc = Handler(use), ![t].durable = call[t].durable,
                             ![t].result = "error"]
    BY <1>6, RaisedAs
  <2> HIDE DEF lost
  <2> QED BY <1>1, <1>2, <1>3, <2>1, <2>2, RaisedInv
<1> QED BY <1>4, <1>5, <1>6 DEF Commit

LEMMA WorkInv == ASSUME Inv, NEW t \in Threads, Work(t) PROVE Inv'
<1> DEFINE c == call[t].conn
           use == call[t].use
<1>1. call[t].pc = "work" /\ UNCHANGED <<ready, idle, used>>
  BY DEF Work
<1>2. c \in Conns /\ conn[c] \in Connection /\ conn[c].auto = (use = "refresh")
      /\ use \in Uses /\ Handler(use) \in {"rollback", "get", "reset"}
      /\ (Handler(use) = "reset" <=> use = "refresh")
      /\ (use = "transaction" => Handler(use) = "rollback")
      /\ call[t].result \in {"none", "error"} /\ call[t].durable \in BOOLEAN
  BY <1>1, Holding
<1>3. use \in {"transaction", "raw", "refresh"} /\ conn[c].auto \in BOOLEAN
  BY <1>2, PoolAssumption DEF PoolAssumption, Connection
<1>4. CASE /\ conn' = [conn EXCEPT ![c].txn = IF conn[c].auto THEN "idle" ELSE "open"]
           /\ \E pc \in CASE use = "transaction" -> {"commit"}
                          [] use = "raw" -> {"commit", "get"}
                          [] use = "refresh" -> {"reset"} :
                call' = [call EXCEPT ![t].pc = pc, ![t].durable = conn[c].auto]
  <2> DEFINE txn == IF conn[c].auto THEN "idle" ELSE "open"
             d == [conn[c] EXCEPT !.txn = txn]
  <2>1. txn \in {"idle", "open"} /\ conn' = [conn EXCEPT ![c].txn = txn]
    BY <1>4
  <2> HIDE DEF txn
  <2>2. /\ d \in Connection /\ d.link = conn[c].link /\ d.auto = conn[c].auto
        /\ conn' = [conn EXCEPT ![c] = d]
    BY <1>2, <2>1, CallOf DEF Connection
  <2>3. PICK pc \in {"commit", "get", "reset"} :
          /\ call' = [call EXCEPT ![t].pc = pc, ![t].durable = conn[c].auto]
          /\ pc = "reset" <=> use = "refresh"
          /\ pc = "get" => use # "transaction"
    BY <1>3, <1>4
  <2> DEFINE durable == conn[c].auto
  <2>4. [call[t] EXCEPT !.pc = pc, !.durable = durable]
          = [call[t] EXCEPT !.pc = pc, !.durable = durable, !.result = call[t].result]
    BY CallOf DEF Call
  <2>5. call' = [call EXCEPT ![t] = [call[t] EXCEPT !.pc = pc, !.durable = durable,
                                                    !.result = call[t].result]]
    BY <2>3, <2>4, CallOf
  <2>6. durable \in BOOLEAN /\ (pc # "reset" => d.auto = FALSE)
    BY <1>2, <1>3, <2>2, <2>3
  <2>7. /\ d.link # "closed" => conn[c].link # "closed"
        /\ pc # "work" /\ pc \in {"get", "work", "commit", "rollback", "reset"}
        /\ pc = "reset" => use = "refresh"
        /\ pc = "get" /\ use = "transaction" /\ call[t].result # "error" => durable
        /\ ~(pc = "get" /\ use = "transaction")
    BY <2>2, <2>3
  <2>8. pc \in {"get", "commit", "rollback"} => d.auto = FALSE
    BY <2>6
  <2>9. UNCHANGED <<ready, idle, used>> /\ call[t].pc \in {"begin", "work", "commit", "rollback", "reset"}
    BY <1>1
  <2> HIDE DEF d, durable
  <2> QED BY <1>2, <2>2, <2>5, <2>6, <2>7, <2>8, <2>9, Advance
<1>5. CASE /\ conn' = [conn EXCEPT ![c].txn = IF conn[c].auto THEN "idle" ELSE "error"]
           /\ Raised(t, Handler(use))
  <2> DEFINE txn == IF conn[c].auto THEN "idle" ELSE "error"
             d == [conn[c] EXCEPT !.txn = txn]
  <2>1. txn \in {"idle", "error"} /\ conn' = [conn EXCEPT ![c].txn = txn]
    BY <1>5
  <2> HIDE DEF txn
  <2>2. /\ d \in Connection /\ d.link = conn[c].link /\ d.auto = conn[c].auto
        /\ conn' = [conn EXCEPT ![c] = d]
    BY <1>2, <2>1, CallOf DEF Connection
  <2>3. Handler(use) # "reset" => d.auto = FALSE
    BY <1>2, <2>2
  <2>4. call' = [call EXCEPT ![t].pc = Handler(use), ![t].durable = call[t].durable,
                             ![t].result = "error"]
    BY <1>5, RaisedAs
  <2> HIDE DEF d
  <2> QED BY <1>1, <1>2, <2>2, <2>3, <2>4, RaisedInv
<1>6. CASE conn' = [conn EXCEPT ![c].link = "closed"] /\ Raised(t, Handler(use))
  <2> DEFINE d == [conn[c] EXCEPT !.link = "closed"]
  <2>1. /\ d \in Connection /\ d.link = "closed" /\ d.auto = conn[c].auto
        /\ conn' = [conn EXCEPT ![c] = d]
    BY <1>2, <1>6, CallOf DEF Connection
  <2>2. Handler(use) # "reset" => d.auto = FALSE
    BY <1>2, <2>1
  <2>3. call' = [call EXCEPT ![t].pc = Handler(use), ![t].durable = call[t].durable,
                             ![t].result = "error"]
    BY <1>6, RaisedAs
  <2> HIDE DEF d
  <2> QED BY <1>1, <1>2, <2>1, <2>2, <2>3, RaisedInv
<1> QED BY <1>4, <1>5, <1>6 DEF Work

LEMMA RollbackInv == ASSUME Inv, NEW t \in Threads, Rollback(t) PROVE Inv'
<1> DEFINE c == call[t].conn
           lost == [conn[c] EXCEPT !.link = "closed"]
           done == [conn[c] EXCEPT !.txn = "idle"]
<1>1. call[t].pc = "rollback" /\ Raised(t, "get") /\ UNCHANGED <<ready, idle, used>>
  BY DEF Rollback
<1>2. c \in Conns /\ conn[c] \in Connection /\ conn[c].auto = FALSE /\ call[t].durable \in BOOLEAN
  BY <1>1, Holding
<1>3. /\ lost \in Connection /\ lost.link = "closed" /\ lost.auto = FALSE
      /\ done \in Connection /\ done.link = conn[c].link /\ done.auto = FALSE /\ done.txn = "idle"
  BY <1>2 DEF Connection
<1>4. conn' = [conn EXCEPT ![c] = done] \/ conn' = [conn EXCEPT ![c] = lost]
  BY <1>2, CallOf DEF Rollback
<1> HIDE DEF lost, done
<1> QED BY <1>1, <1>2, <1>3, <1>4, RaisedAs, RaisedInv

LEMMA ResetInv == ASSUME Inv, NEW t \in Threads, Reset(t) PROVE Inv'
<1> DEFINE c == call[t].conn
           d == [conn[c] EXCEPT !.auto = FALSE]
<1>1. call[t].pc = "reset" /\ UNCHANGED <<ready, idle, used>>
  BY DEF Reset
<1>2. c \in Conns /\ conn[c] \in Connection /\ call[t].use \in Uses
      /\ call[t].result \in {"none", "error"} /\ call[t].durable \in BOOLEAN
  BY <1>1, Holding
<1>3. CASE Return(t, FALSE) /\ UNCHANGED conn
  BY <1>1, <1>3, FailsInv
<1>4. CASE Goto(t, "get") /\ conn' = [conn EXCEPT ![c].auto = FALSE]
  <2>1. /\ d \in Connection /\ d.link = conn[c].link /\ d.auto = FALSE
        /\ conn' = [conn EXCEPT ![c] = d]
    BY <1>2, <1>4, CallOf DEF Connection
  <2>2. [call[t] EXCEPT !.pc = "get"]
          = [call[t] EXCEPT !.pc = "get", !.durable = call[t].durable, !.result = call[t].result]
    BY CallOf DEF Call
  <2>3. call' = [call EXCEPT ![t] = [call[t] EXCEPT !.pc = "get", !.durable = call[t].durable,
                                                    !.result = call[t].result]]
    BY <1>4, <2>2, CallOf DEF Goto
  <2>4. call[t].use # "transaction"
    BY <1>1, Holding
  <2>5. d.link # "closed" => conn[c].link # "closed"
    BY <2>1
  <2> HIDE DEF d
  <2> QED BY <1>1, <1>2, <2>1, <2>3, <2>4, <2>5, Advance
<1> QED BY <1>3, <1>4 DEF Reset

-----------------------------------------------------------------------------
(* Giving a connection back, and the steps of others *)

LEMMA TakeBackInv ==
  ASSUME Inv, NEW t \in Threads, call[t].pc = "use", NEW c, c = call[t].conn, c # None, c \in used,
         TakeBack(t, c), UNCHANGED ready
  PROVE  Inv'
<1> DEFINE keep == Cardinality(idle) < PoolMin /\ conn[c].link # "closed"
           stuck == keep /\ conn[c].link = "down" /\ conn[c].txn # "idle"
           d == IF keep /\ ~stuck THEN [conn[c] EXCEPT !.txn = "idle"]
                                  ELSE [conn[c] EXCEPT !.link = "closed"]
<1>1. /\ Return(t, ~stuck)
      /\ used' = IF stuck THEN used ELSE used \ {c}
      /\ idle' = IF keep /\ ~stuck THEN idle \cup {c} ELSE idle
  BY DEF TakeBack
<1>2. c \in Conns /\ conn[c] \in Connection /\ conn[c].auto = FALSE
  BY CallOf DEF CallOK, Call
<1>3. conn' = [conn EXCEPT ![c] = d]
  BY <1>2, CallOf DEF TakeBack
<1>4. /\ d \in Connection /\ d.auto = FALSE
      /\ keep /\ ~stuck => d.txn = "idle"
      /\ ~(keep /\ ~stuck) => d.link = "closed"
  BY <1>2 DEF Connection
<1> HIDE DEF keep, stuck, d
<1>6. PICK k \in Call :
        /\ call' = [call EXCEPT ![t] = k] /\ k.pc = "idle" /\ k.conn = None
        /\ k.use = call[t].use /\ k.durable = call[t].durable
        /\ k.result = IF call[t].result = "error" \/ ~(~stuck) THEN "error" ELSE "ok"
  BY <1>1, ReturnType
<1>7. CallOK(k, conn')
  BY <1>6, CallOf DEF CallOK
<1>8. \A u \in Threads : call'[u] = IF u = t THEN k ELSE call[u]
  BY <1>6, CallOf
<1>9. \A e \in Conns : conn'[e] = IF e = c THEN d ELSE conn[e]
  BY <1>3, CallOf
<1>10. None \notin Conns
  BY PoolAssumption DEF PoolAssumption
<1>11. ready /\ c \notin idle /\ \A u \in Threads \ {t} : call[u].conn # c
  BY <1>10 DEF Inv, ExclusiveLoan, ClosedIsEmpty
<1>12. Types'
  BY <1>1, <1>2, <1>3, <1>4, <1>6 DEF Inv, Types
<1>13. ClosedIsEmpty' /\ IdleIsClean'
  BY <1>1, <1>4, <1>9, <1>11, <1>12 DEF Inv, ClosedIsEmpty, IdleIsClean, Types
<1>14. CallsOK'
  <2>1. ASSUME NEW u \in Threads \ {t} PROVE CallOK(call[u], conn')
    <3>1. CallOK(call[u], conn) /\ call[u].conn \in Conns \cup {None}
      BY CallOf DEF Call
    <3>2. call[u].conn # None => conn'[call[u].conn] = conn[call[u].conn]
      BY <3>1, <1>9, <1>11
    <3> QED BY <3>1, <3>2, SameConnection
  <2> QED BY <1>7, <1>8, <2>1 DEF CallsOK
<1>15. ExclusiveLoan'
  <2>1. \A u, v \in Threads : call'[u].conn = call'[v].conn /\ call'[u].conn # None => u = v
    BY <1>6, <1>8 DEF Inv, ExclusiveLoan
  <2>2. \A u \in Threads : call'[u].conn \notin idle'
    BY <1>1, <1>2, <1>6, <1>8, <1>10, <1>11 DEF Inv, Types, ExclusiveLoan
  <2>3. idle' \cap used' = {}
    BY <1>1 DEF Inv, ExclusiveLoan
  <2>4. \A e \in Conns : conn'[e].link # "closed" => e \in idle' \cup used'
    BY <1>1, <1>4, <1>9 DEF Inv, ExclusiveLoan
  <2> QED BY <2>1, <2>2, <2>3, <2>4 DEF ExclusiveLoan
<1> QED BY <1>12, <1>13, <1>14, <1>15 DEF Inv

LEMMA PutConnInv == ASSUME Inv, NEW t \in Threads, PutConn(t) PROVE Inv'
<1>1. CASE ready /\ call[t].conn \in used
  BY <1>1, TakeBackInv DEF PutConn
<1>2. CASE ~(ready /\ call[t].conn \in used)
  BY <1>2, FailsInv DEF PutConn
<1> QED BY <1>1, <1>2

\* Links break; nothing else about the connections changes.
LEMMA LinksInv ==
  ASSUME Inv, conn' \in [Conns -> Connection], UNCHANGED call,
         \A c \in Conns : conn'[c].txn = conn[c].txn /\ conn'[c].auto = conn[c].auto,
         idle' \in SUBSET idle, used' \in SUBSET used, ready' \in BOOLEAN,
         ~ready' => idle' = {} /\ used' = {},
         \A c \in Conns : conn'[c].link # "closed" => conn[c].link # "closed" /\ c \in idle' \cup used'
  PROVE  Inv'
<1>1. Types' /\ ClosedIsEmpty' /\ IdleIsClean'
  BY DEF Inv, Types, ClosedIsEmpty, IdleIsClean
<1>2. CallsOK'
  <2>1. ASSUME NEW u \in Threads PROVE CallOK(call[u], conn')
    <3>1. CallOK(call[u], conn) /\ call[u].conn \in Conns \cup {None}
      BY CallOf DEF Call
    <3> QED BY <3>1, SameConnection
  <2> QED BY <2>1 DEF CallsOK
<1>3. ExclusiveLoan'
  BY DEF Inv, ExclusiveLoan
<1> QED BY <1>1, <1>2, <1>3 DEF Inv

LEMMA ClosePoolInv == ASSUME Inv, ClosePool PROVE Inv'
<1>1. /\ conn' = [c \in Conns |-> IF c \in idle \cup used THEN [conn[c] EXCEPT !.link = "closed"]
                                                          ELSE conn[c]]
      /\ ready' = FALSE /\ idle' = {} /\ used' = {} /\ UNCHANGED call
  BY DEF ClosePool
<1>2. ASSUME NEW c \in Conns
      PROVE  /\ conn[c] \in Connection /\ [conn[c] EXCEPT !.link = "closed"] \in Connection
             /\ [conn[c] EXCEPT !.link = "closed"].txn = conn[c].txn
             /\ [conn[c] EXCEPT !.link = "closed"].auto = conn[c].auto
             /\ [conn[c] EXCEPT !.link = "closed"].link = "closed"
  <2>1. conn[c] \in Connection
    BY DEF Inv, Types
  <2> QED BY <2>1 DEF Connection
<1>3. \A c \in Conns : conn'[c].txn = conn[c].txn /\ conn'[c].auto = conn[c].auto
                       /\ conn'[c] \in Connection /\ conn'[c].link = "closed"
  <2>1. \A c \in Conns : c \notin idle \cup used => conn[c].link = "closed"
    BY DEF Inv, ExclusiveLoan
  <2> QED BY <1>1, <1>2, <2>1
<1>4. conn' \in [Conns -> Connection]
  BY <1>1, <1>2
<1> QED BY <1>1, <1>3, <1>4, LinksInv

LEMMA BreakInv == ASSUME Inv, NEW c \in Conns, Break(c) PROVE Inv'
<1> DEFINE d == [conn[c] EXCEPT !.link = "down"]
<1>1. /\ d \in Connection /\ d.txn = conn[c].txn /\ d.auto = conn[c].auto
      /\ conn[c].link = "up" /\ conn[c] \in Connection
  <2>1. conn[c] \in Connection
    BY DEF Inv, Types
  <2> QED BY <2>1 DEF Connection, Break
<1>2. conn' = [conn EXCEPT ![c] = d] /\ UNCHANGED <<ready, idle, used, call>>
  BY DEF Break, Inv, Types
<1> HIDE DEF d
<1>3. conn' \in [Conns -> Connection] /\ \A e \in Conns : conn'[e] = IF e = c THEN d ELSE conn[e]
  BY <1>1, <1>2 DEF Inv, Types
<1>4. \A e \in Conns : /\ conn'[e].txn = conn[e].txn /\ conn'[e].auto = conn[e].auto
                       /\ conn'[e].link # "closed" => conn[e].link # "closed"
  BY <1>1, <1>3
<1>5. ready \in BOOLEAN /\ (~ready => idle = {} /\ used = {})
      /\ \A e \in Conns : conn[e].link # "closed" => e \in idle \cup used
  BY DEF Inv, Types, ClosedIsEmpty, ExclusiveLoan
<1> QED BY <1>2, <1>3, <1>4, <1>5, LinksInv

LEMMA StepInv == Inv /\ [Next]_vars => Inv'
<1> SUFFICES ASSUME Inv, [Next]_vars PROVE Inv'
  OBVIOUS
<1>1. ASSUME NEW t \in Threads, Step(t) PROVE Inv'
  BY <1>1, CheckPoolInv, BuildInv, GetConnInv, RefusedInv, BeginInv, WorkInv, CommitInv,
     RollbackInv, ResetInv, PutConnInv DEF Step
<1>2. ASSUME NEW t \in Threads, NEW use \in Uses, Ask(t, use) PROVE Inv'
  BY <1>2, AskInv
<1>3. CASE ClosePool
  BY <1>3, ClosePoolInv
<1>4. ASSUME NEW c \in Conns, Break(c) PROVE Inv'
  BY <1>4, BreakInv
<1>5. CASE UNCHANGED vars
  BY <1>5 DEF vars, Inv, Types, ClosedIsEmpty, IdleIsClean, CallsOK, CallOK, ExclusiveLoan
<1> QED BY <1>1, <1>2, <1>3, <1>4, <1>5 DEF Next

-----------------------------------------------------------------------------
(* The limit of the pool *)

Limited == Cardinality(idle \cup used) <= PoolMax

Bounded == breaks \in 0 .. MaxBreaks /\ closes \in 0 .. MaxCloses

LEMMA InitLimited == Init => Limited /\ Bounded
<1> SUFFICES ASSUME Init PROVE Limited /\ Bounded
  OBVIOUS
<1>1. idle \cup used = {} /\ Cardinality({}) = 0
  BY FS_EmptySet DEF Init
<1> QED BY <1>1, PoolAssumption DEF Init, Limited, Bounded, PoolAssumption

\* The pool loses connections, is built anew, or opens one more.
LEMMA Occupancy ==
  ASSUME Inv, [Next]_vars
  PROVE  \/ idle' \cup used' \subseteq idle \cup used
         \/ Cardinality(idle') = PoolMin /\ used' = {}
         \/ idle' = {} /\ \E c \in Conns : idle = {} /\ used' = used \cup {c} /\ Cardinality(used) # PoolMax
<1>1. ASSUME NEW t \in Threads, GetConn(t)
      PROVE  \/ idle' \cup used' \subseteq idle \cup used
             \/ idle' = {} /\ \E c \in Conns : idle = {} /\ used' = used \cup {c} /\ Cardinality(used) # PoolMax
  BY <1>1 DEF GetConn, Lend, Unborn
<1>2. ASSUME NEW t \in Threads, Build(t)
      PROVE  \/ idle' \cup used' \subseteq idle \cup used
             \/ Cardinality(idle') = PoolMin /\ used' = {}
  BY <1>2 DEF Build
<1>3. ASSUME NEW t \in Threads, PutConn(t) PROVE idle' \cup used' \subseteq idle \cup used
  <2>1. CASE ready /\ call[t].conn \in used
    BY <1>3, <2>1 DEF PutConn, TakeBack
  <2>2. CASE ~(ready /\ call[t].conn \in used)
    BY <1>3, <2>2 DEF PutConn
  <2> QED BY <2>1, <2>2
<1>4. ASSUME NEW t \in Threads, Step(t), ~GetConn(t), ~Build(t), ~PutConn(t) PROVE UNCHANGED <<idle, used>>
  BY <1>4 DEF Step, CheckPool, Refused, Begin, Work, Commit, Rollback, Reset
<1>5. CASE ClosePool \/ UNCHANGED vars
  BY <1>5 DEF ClosePool, vars
<1>6. CASE \E c \in Conns : Break(c)
  BY <1>6 DEF Break
<1>7. CASE \E t \in Threads, use \in Uses : Ask(t, use)
  BY <1>7 DEF Ask
<1> QED BY <1>1, <1>2, <1>3, <1>4, <1>5, <1>6, <1>7 DEF Next

LEMMA NextLimited == ASSUME Inv, Limited, [Next]_vars PROVE Limited'
<1>0. /\ IsFiniteSet(idle) /\ IsFiniteSet(used) /\ IsFiniteSet(idle \cup used)
      /\ PoolMin \in Nat /\ PoolMax \in Nat /\ PoolMin <= PoolMax
  <2>1. idle \subseteq Conns /\ used \subseteq Conns /\ idle \cup used \subseteq Conns
    BY DEF Inv, Types
  <2> QED BY <2>1, PoolAssumption, FS_Subset DEF PoolAssumption
<1>1. CASE idle' \cup used' \subseteq idle \cup used
  <2>1. /\ Cardinality(idle' \cup used') <= Cardinality(idle \cup used)
        /\ Cardinality(idle \cup used) \in Nat /\ Cardinality(idle' \cup used') \in Nat
    BY <1>0, <1>1, FS_Subset, FS_CardinalityType
  <2> QED BY <1>0, <2>1 DEF Limited
<1>2. CASE Cardinality(idle') = PoolMin /\ used' = {}
  <2>1. idle' \cup used' = idle'
    BY <1>2
  <2> QED BY <1>0, <1>2, <2>1 DEF Limited
<1>3. ASSUME NEW c \in Conns, idle = {}, idle' = {}, used' = used \cup {c}, Cardinality(used) # PoolMax
      PROVE  Limited'
  <2>1. idle \cup used = used /\ idle' \cup used' = used \cup {c}
    BY <1>3
  <2>2. Cardinality(used) \in Nat /\ Cardinality(used \cup {c}) <= Cardinality(used) + 1
        /\ Cardinality(used \cup {c}) \in Nat
    <3>1. Cardinality(used) \in Nat
      BY <1>0, FS_CardinalityType
    <3>2. Cardinality(used \cup {c}) = IF c \in used THEN Cardinality(used) ELSE Cardinality(used) + 1
      BY <1>0, FS_AddElement
    <3> QED BY <3>1, <3>2
  <2> QED BY <1>0, <1>3, <2>1, <2>2 DEF Limited
<1> QED BY <1>1, <1>2, <1>3, Occupancy

LEMMA NextBounded == ASSUME Bounded, [Next]_vars PROVE Bounded'
<1> USE PoolAssumption DEF PoolAssumption, Bounded
<1>1. CASE \E t \in Threads : Step(t)
  <2>1. ASSUME NEW t \in Threads, Refused(t) \/ Commit(t) PROVE Bounded'
    <3>1. closes' = closes /\ (breaks' = breaks \/ (breaks < MaxBreaks /\ breaks' = breaks + 1))
      BY <2>1 DEF Refused, Commit
    <3> QED BY <3>1
  <2>2. ASSUME NEW t \in Threads, Step(t), ~(Refused(t) \/ Commit(t)) PROVE UNCHANGED <<breaks, closes>>
    BY <2>2 DEF Step, CheckPool, Build, GetConn, Begin, Work, Rollback, Reset, PutConn
  <2> QED BY <1>1, <2>1, <2>2
<1>2. CASE \E t \in Threads, use \in Uses : Ask(t, use)
  BY <1>2 DEF Ask
<1>3. CASE ClosePool \/ UNCHANGED vars
  BY <1>3 DEF ClosePool, vars
<1>4. CASE \E c \in Conns : Break(c)
  BY <1>4 DEF Break
<1> QED BY <1>1, <1>2, <1>3, <1>4 DEF Next

-----------------------------------------------------------------------------
(* The slots of the pool *)

\* A transaction lets go of a connection that the pool has taken back, or that a
\* closed pool had lent.
LEMMA SlotReturned ==
  ASSUME Inv, [Next]_vars, NEW t \in Threads, call[t].use = "transaction", call[t].conn # None,
         call'[t].conn = None
  PROVE  call[t].conn \notin used'
<1>0. /\ call \in [Threads -> Call] /\ CallOK(call[t], conn) /\ call[t].conn \in Conns
      /\ (~ready => used = {})
  BY CallOf DEF Call, Inv, ClosedIsEmpty
<1>1. CASE Step(t)
  <2>1. CASE CheckPool(t) \/ Build(t) \/ Begin(t) \/ Work(t) \/ Commit(t) \/ Rollback(t)
    <3>1. call'[t].conn = call[t].conn
      <4>1. CASE CheckPool(t) \/ Build(t) \/ Begin(t) \/ Rollback(t)
        <5>1. \E pc : Goto(t, pc) \/ Raised(t, pc)
          BY <4>1 DEF CheckPool, Build, Begin, Rollback
        <5> QED BY <5>1, CallOf DEF Goto, Raised, Call
      <4>2. CASE Work(t)
        <5>1. \/ Raised(t, Handler(call[t].use))
              \/ \E pc : call' = [call EXCEPT ![t].pc = pc, ![t].durable = conn[call[t].conn].auto]
          BY <4>2 DEF Work
        <5>2. CASE Raised(t, Handler(call[t].use))
          BY <5>2, CallOf DEF Raised, Call
        <5>3. CASE \E pc : call' = [call EXCEPT ![t].pc = pc, ![t].durable = conn[call[t].conn].auto]
          BY <5>3, CallOf DEF Call
        <5> QED BY <5>1, <5>2, <5>3
      <4>3. CASE Commit(t)
        BY <4>3, CallOf DEF Commit, Raised, Call
      <4> QED BY <2>1, <4>1, <4>2, <4>3
    <3> QED BY <3>1
  <2>2. CASE GetConn(t) \/ Reset(t)
    BY <1>0, <2>2 DEF GetConn, Reset, CallOK
  <2>3. CASE Refused(t)
    BY <1>0, <2>3 DEF Refused
  <2>4. CASE PutConn(t)
    <3>1. call[t].pc = "use"
      BY <2>4 DEF PutConn
    <3>2. conn[call[t].conn].txn = "idle" \/ conn[call[t].conn].link = "closed"
      BY <1>0, <3>1 DEF CallOK
    <3>3. CASE ready /\ call[t].conn \in used
      BY <2>4, <3>2, <3>3 DEF PutConn, TakeBack
    <3>4. CASE ~(ready /\ call[t].conn \in used)
      BY <1>0, <2>4, <3>4 DEF PutConn
    <3> QED BY <3>3, <3>4
  <2> QED BY <1>1, <2>1, <2>2, <2>3, <2>4 DEF Step
<1>2. ASSUME NEW u \in Threads, u # t, Step(u) PROVE call'[t] = call[t]
  BY <1>0, <1>2 DEF Step, CheckPool, Build, GetConn, Lend, Refused, Begin, Work, Commit, Rollback,
     Reset, PutConn, TakeBack, Goto, Raised, Return
<1>3. ASSUME NEW u \in Threads, NEW use \in Uses, Ask(u, use) PROVE u # t /\ call'[t] = call[t]
  BY <1>0, <1>3 DEF Ask, CallOK
<1>4. CASE ClosePool \/ (\E c \in Conns : Break(c)) \/ UNCHANGED vars
  BY <1>4 DEF ClosePool, Break, vars
<1> QED BY <1>1, <1>2, <1>3, <1>4 DEF Next

-----------------------------------------------------------------------------
(* Calls that fail while nothing breaks *)

Quiet == breaks = 0 /\ closes = 0

\* What a call k has done until it fails, with U lent: nothing.
CallUndone(k, U) ==
  /\ k.conn # None => k.conn \in U
  /\ k.result = "error" => ~k.durable
  /\ k.pc \in {"begin", "work", "commit"} => k.result # "error"
  /\ k.pc \in {"begin", "work", "commit", "rollback"} => ~k.durable
  /\ k.pc # "idle" /\ k.conn = None => ~k.durable /\ k.result # "error"

LinksUp == \A c \in idle \cup used : conn[c].link = "up"
AllUndone == \A t \in Threads : CallUndone(call[t], used)
Undone == Quiet => LinksUp /\ AllUndone

\* What a step of t leaves of the others.
LEMMA OthersUndone ==
  ASSUME Inv, AllUndone, NEW t \in Threads, \A u \in Threads \ {t} : call'[u] = call[u],
         \A c \in used : c # call[t].conn => c \in used', CallUndone(call'[t], used')
  PROVE  AllUndone'
<1>1. ASSUME NEW u \in Threads \ {t} PROVE CallUndone(call'[u], used')
  <2>1. call'[u] = call[u] /\ CallUndone(call[u], used) /\ (call[u].conn # None => call[u].conn # call[t].conn)
    BY DEF AllUndone, Inv, ExclusiveLoan
  <2> QED BY <2>1 DEF CallUndone
<1> QED BY <1>1 DEF AllUndone

\* What is known of the call of t while nothing has broken.
LEMMA CallNow ==
  ASSUME Inv, LinksUp, AllUndone, NEW t \in Threads
  PROVE  /\ call \in [Threads -> Call] /\ call[t] \in Call /\ conn \in [Conns -> Connection]
         /\ CallOK(call[t], conn) /\ CallUndone(call[t], used)
         /\ call[t].conn # None => /\ ready /\ call[t].conn \in Conns /\ call[t].conn \in used
                                   /\ conn[call[t].conn].link = "up"
BY CallOf DEF AllUndone, CallUndone, LinksUp, Inv, ClosedIsEmpty, Call

LEMMA UseUndone ==
  ASSUME Inv, LinksUp, AllUndone, NEW t \in Threads, Quiet,
         Begin(t) \/ Work(t) \/ Commit(t) \/ Rollback(t) \/ Reset(t), Quiet'
  PROVE  LinksUp' /\ AllUndone'
<1> DEFINE c == call[t].conn
<1>0. c \in Conns /\ c # None /\ conn[c].link = "up" /\ c \in used /\ conn[c] \in Connection
  <2>1. call[t].pc \in {"begin", "work", "commit", "rollback", "reset"}
    BY DEF Begin, Work, Commit, Rollback, Reset
  <2> QED BY <2>1, CallNow DEF CallOK
<1>1. UNCHANGED <<idle, used>>
  BY DEF Begin, Work, Commit, Rollback, Reset
<1>2. \E d \in Connection : d.link = "up" /\ conn' = [conn EXCEPT ![c] = d]
  <2>1. CASE conn' = conn
    BY <1>0, <2>1, CallNow
  <2>2. CASE \E txn \in {"idle", "open", "error"} : conn' = [conn EXCEPT ![c].txn = txn]
    <3>1. PICK txn \in {"idle", "open", "error"} : conn' = [conn EXCEPT ![c].txn = txn]
      BY <2>2
    <3>2. [conn[c] EXCEPT !.txn = txn] \in Connection /\ [conn[c] EXCEPT !.txn = txn].link = "up"
      BY <1>0 DEF Connection
    <3> QED BY <1>0, <3>1, <3>2, CallNow
  <2>3. CASE \E auto \in BOOLEAN : conn' = [conn EXCEPT ![c].auto = auto]
    <3>1. PICK auto \in BOOLEAN : conn' = [conn EXCEPT ![c].auto = auto]
      BY <2>3
    <3>2. [conn[c] EXCEPT !.auto = auto] \in Connection /\ [conn[c] EXCEPT !.auto = auto].link = "up"
      BY <1>0 DEF Connection
    <3> QED BY <1>0, <3>1, <3>2, CallNow
  <2>4. CASE Begin(t)
    BY <2>1, <2>3, <2>4 DEF Begin
  <2>5. CASE Work(t)
    BY <1>0, <2>2, <2>5 DEF Work
  <2>6. CASE Commit(t)
    BY <1>0, <2>2, <2>6 DEF Commit, Quiet
  <2>7. CASE Rollback(t)
    BY <1>0, <2>2, <2>7 DEF Rollback
  <2>8. CASE Reset(t)
    BY <1>0, <2>1, <2>3, <2>8 DEF Reset
  <2> QED BY <2>4, <2>5, <2>6, <2>7, <2>8
<1>3. LinksUp'
  BY <1>1, <1>2, CallNow DEF LinksUp
<1>4. \A u \in Threads \ {t} : call'[u] = call[u]
  BY CallNow DEF Begin, Work, Commit, Rollback, Reset, Goto, Raised, Return
<1>5. CallUndone(call'[t], used)
  <2>1. ASSUME NEW pc \in {"get", "rollback", "reset"}, Raised(t, pc), ~call[t].durable
        PROVE  CallUndone(call'[t], used)
    BY <1>0, <2>1, CallNow DEF Raised, CallUndone, Call
  <2>2. ASSUME NEW pc \in {"work", "get", "commit", "reset"}, NEW durable \in BOOLEAN,
               call' = [call EXCEPT ![t].pc = pc, ![t].durable = durable],
               call[t].result # "error", pc \in {"work", "commit"} => ~durable
        PROVE  CallUndone(call'[t], used)
    BY <1>0, <2>2, CallNow DEF CallUndone, Call
  <2>3. Handler(call[t].use) \in {"get", "rollback", "reset"} \/ call[t].pc \in {"rollback", "reset"}
    BY Holding DEF Begin, Work, Commit, Rollback, Reset
  <2>4. /\ call[t].pc \in {"begin", "work", "commit"} => ~call[t].durable /\ call[t].result # "error"
        /\ call[t].pc = "rollback" => ~call[t].durable
    BY CallNow DEF CallUndone
  <2>5. CASE Begin(t)
    <3>1. CASE Raised(t, Handler(call[t].use))
      BY <2>1, <2>3, <2>4, <2>5, <3>1 DEF Begin
    <3>2. CASE Goto(t, "work")
      BY <1>0, <2>4, <2>5, <3>2, CallNow DEF Begin, Goto, CallUndone, Call
    <3> QED BY <2>5, <3>1, <3>2 DEF Begin
  <2>6. CASE Work(t)
    <3>1. call[t].use \in {"transaction", "raw", "refresh"} /\ conn[c].auto \in BOOLEAN
          /\ (conn[c].auto <=> call[t].use = "refresh")
      BY <1>0, <2>6, Holding, PoolAssumption DEF Work, PoolAssumption, Connection
    <3>2. CASE Raised(t, Handler(call[t].use))
      BY <2>1, <2>3, <2>4, <2>6, <3>2 DEF Work
    <3>3. CASE ~Raised(t, Handler(call[t].use))
      <4>1. PICK pc \in {"commit", "get", "reset"} :
              /\ call' = [call EXCEPT ![t].pc = pc, ![t].durable = conn[c].auto]
              /\ pc = "commit" => call[t].use # "refresh"
        BY <2>6, <3>1, <3>3 DEF Work
      <4> QED BY <2>2, <2>4, <2>6, <3>1, <4>1 DEF Work
    <3> QED BY <3>2, <3>3
  <2>7. CASE Commit(t)
    <3>1. call' = [call EXCEPT ![t].pc = "get", ![t].durable = TRUE] /\ call[t].pc = "commit"
      BY <1>0, <2>7 DEF Commit, Quiet
    <3> QED BY <2>2, <2>4, <3>1
  <2>8. CASE Rollback(t)
    BY <2>1, <2>4, <2>8 DEF Rollback
  <2>9. CASE Reset(t)
    <3>1. Goto(t, "get") /\ call[t].conn = c
      BY <1>0, <2>9 DEF Reset
    <3> QED BY <1>0, <3>1, CallNow DEF Goto, CallUndone, Call
  <2> QED BY <2>5, <2>6, <2>7, <2>8, <2>9
<1> QED BY <1>1, <1>3, <1>4, <1>5, OthersUndone

LEMMA GetUndone ==
  ASSUME Inv, LinksUp, AllUndone, NEW t \in Threads,
         CheckPool(t) \/ Build(t) \/ GetConn(t)
  PROVE  LinksUp' /\ AllUndone'
<1>0. \A u \in Threads \ {t} : call'[u] = call[u]
  BY CallNow DEF CheckPool, Build, GetConn, Goto, Return, Lend
<1>1. CASE CheckPool(t)
  <2>1. CallUndone(call'[t], used) /\ UNCHANGED <<idle, used, conn>>
    BY <1>1, CallNow DEF CheckPool, Goto, CallUndone, Call
  <2> QED BY <1>0, <2>1, OthersUndone DEF LinksUp
<1>2. CASE Build(t)
  <2>1. CallUndone(call'[t], used)
    BY <1>2, CallNow DEF Build, Goto, CallUndone, Call
  <2>2. CASE ready
    <3>1. UNCHANGED <<idle, used, conn>>
      BY <1>2, <2>2 DEF Build
    <3> QED BY <1>0, <2>1, <3>1, OthersUndone DEF LinksUp
  <2>3. CASE ~ready
    <3>1. used = {} /\ used' = {} /\ idle' \subseteq Conns
      BY <1>2, <2>3 DEF Build, Inv, ClosedIsEmpty, Unborn
    <3>2. \A c \in idle' : conn'[c] = Connected
      BY <1>2, <2>3, CallNow DEF Build, Unborn
    <3>3. LinksUp'
      BY <3>1, <3>2 DEF LinksUp, Connected
    <3> QED BY <1>0, <2>1, <3>1, <3>3, OthersUndone
  <2> QED BY <2>2, <2>3
<1>3. CASE GetConn(t)
  <2>1. ~call[t].durable /\ call[t].result # "error" /\ call[t].pc = "use"
    BY <1>3, CallNow DEF GetConn, CallUndone
  <2>2. CASE Return(t, FALSE) /\ UNCHANGED <<idle, used, conn>>
    <3>1. CallUndone(call'[t], used)
      BY <2>1, <2>2, CallNow DEF Return, CallUndone, Call
    <3> QED BY <1>0, <2>2, <3>1, OthersUndone DEF LinksUp
  <2>3. ASSUME NEW c \in Conns, Lend(t, c), idle' = idle \ {c}, NEW d \in Connection, d.link = "up",
               conn' = [conn EXCEPT ![c] = d]
        PROVE  LinksUp' /\ AllUndone'
    <3>1. CallUndone(call'[t], used')
      BY <2>1, <2>3, CallNow DEF Lend, CallUndone, Call
    <3>2. LinksUp'
      BY <2>3, CallNow DEF Lend, LinksUp
    <3>3. \A e \in used : e \in used'
      BY <2>3 DEF Lend
    <3> QED BY <1>0, <3>1, <3>2, <3>3, OthersUndone
  <2>4. ASSUME NEW c \in idle, Lend(t, c), idle' = idle \ {c}, UNCHANGED conn PROVE LinksUp' /\ AllUndone'
    <3>1. c \in Conns /\ conn[c] \in Connection /\ conn[c].link = "up" /\ conn = [conn EXCEPT ![c] = conn[c]]
      BY CallNow DEF LinksUp, Inv, Types
    <3> QED BY <2>3, <2>4, <3>1
  <2>5. ASSUME NEW c \in Unborn, idle = {}, Lend(t, c), UNCHANGED idle, conn' = [conn EXCEPT ![c] = Connected]
        PROVE  LinksUp' /\ AllUndone'
    <3>1. c \in Conns /\ Connected \in Connection /\ Connected.link = "up" /\ idle' = idle \ {c}
      BY <2>5 DEF Unborn, Connected, Connection
    <3> QED BY <2>3, <2>5, <3>1
  <2> QED BY <1>3, <2>2, <2>4, <2>5 DEF GetConn
<1> QED BY <1>1, <1>2, <1>3

LEMMA PutUndone ==
  ASSUME Inv, LinksUp, AllUndone, NEW t \in Threads, PutConn(t)
  PROVE  LinksUp' /\ AllUndone'
<1> DEFINE c == call[t].conn
<1>0. \A u \in Threads \ {t} : call'[u] = call[u]
  BY CallNow DEF PutConn, TakeBack, Return
<1>1. c \in Conns /\ c \in used /\ conn[c].link = "up" /\ conn[c] \in Connection /\ TakeBack(t, c)
  BY CallNow DEF PutConn
<1>2. CallUndone(call'[t], used')
  <2>1. \E ok : Return(t, ok) /\ (ok = TRUE)
    BY <1>1 DEF TakeBack
  <2> QED BY <2>1, CallNow DEF Return, CallUndone, Call
<1>3. \A e \in used : e # c => e \in used'
  BY <1>1 DEF TakeBack
<1>4. LinksUp'
  <2>1. \A e \in idle' \cup used' : e \in idle \cup used /\ (e = c => conn'[e].link = "up")
    <3>1. [conn[c] EXCEPT !.txn = "idle"].link = "up"
      BY <1>1 DEF Connection
    <3>2. c \notin idle
      BY <1>1 DEF Inv, ExclusiveLoan
    <3> QED BY <1>1, <3>1, <3>2, CallNow DEF TakeBack
  <2>2. \A e \in Conns : e # c => conn'[e] = conn[e]
    BY <1>1, CallNow DEF TakeBack
  <2> QED BY <2>1, <2>2 DEF LinksUp, Inv, Types
<1> QED BY <1>0, <1>2, <1>3, <1>4, OthersUndone

LEMMA NextUndone == ASSUME Inv, Bounded, Undone, [Next]_vars PROVE Undone'
<1> SUFFICES ASSUME Quiet' PROVE LinksUp' /\ AllUndone'
  BY DEF Undone
<1>1. ASSUME Quiet, NEW t \in Threads, Step(t) PROVE LinksUp' /\ AllUndone'
  <2>1. ~Refused(t)
    BY <1>1 DEF Refused, Quiet
  <2> QED BY <1>1, <2>1, UseUndone, GetUndone, PutUndone DEF Step, Undone
<1>2. ASSUME Quiet, NEW t \in Threads, NEW use \in Uses, Ask(t, use) PROVE LinksUp' /\ AllUndone'
  <2>1. call'[t] = [NoCall EXCEPT !.pc = "get", !.use = use] /\ UNCHANGED <<idle, used, conn>>
        /\ \A u \in Threads \ {t} : call'[u] = call[u]
    BY <1>2, CallOf DEF Ask
  <2>2. CallUndone(call'[t], used)
    BY <2>1 DEF NoCall, CallUndone
  <2> QED BY <1>2, <2>1, <2>2, OthersUndone DEF Undone, LinksUp
<1>3. ~ClosePool /\ ~(\E c \in Conns : Break(c))
  BY DEF ClosePool, Break, Bounded, Quiet
<1>4. CASE UNCHANGED vars
  BY <1>4 DEF vars, Undone, Quiet, LinksUp, AllUndone, CallUndone
<1>5. (\E t \in Threads : Step(t) \/ \E use \in Uses : Ask(t, use)) => Quiet
  <2>1. ASSUME NEW t \in Threads, Refused(t) \/ Commit(t) PROVE Quiet
    <3>1. closes' = closes /\ (breaks' = breaks \/ breaks' = breaks + 1)
      BY <2>1 DEF Refused, Commit
    <3> QED BY <3>1 DEF Quiet, Bounded
  <2>2. ASSUME NEW t \in Threads, Step(t), ~(Refused(t) \/ Commit(t)) PROVE Quiet
    BY <2>2 DEF Step, CheckPool, Build, GetConn, Begin, Work, Rollback, Reset, PutConn, Quiet
  <2>3. ASSUME NEW t \in Threads, NEW use \in Uses, Ask(t, use) PROVE Quiet
    BY <2>3 DEF Ask, Quiet
  <2> QED BY <2>1, <2>2, <2>3
<1> QED BY <1>1, <1>2, <1>3, <1>4, <1>5 DEF Next

LEMMA InitUndone == Init => Undone
<1> SUFFICES ASSUME Init PROVE LinksUp /\ AllUndone
  BY DEF Undone
<1>1. idle = {} /\ used = {} /\ \A t \in Threads : call[t] = NoCall
  BY DEF Init
<1> QED BY <1>1 DEF LinksUp, AllUndone, CallUndone, NoCall

-----------------------------------------------------------------------------
(* Theorems *)

LEMMA Invariance == Spec => []Inv
BY InitInv, StepInv, PTL DEF Spec

\* Whatever threads ask for and whatever breaks, the pool and its borrowers keep their
\* types, and no more than DB_POOL_MAX connections are open.
THEOREM PoolTypes == Spec => []TypeOK
<1>1. Inv /\ Limited /\ Bounded => TypeOK
  BY DEF Inv, Types, Limited, Bounded, TypeOK
<1>2. Inv /\ Limited /\ [Next]_vars => Limited'
  BY NextLimited
<1>3. Bounded /\ [Next]_vars => Bounded'
  BY NextBounded
<1> QED BY <1>1, <1>2, <1>3, InitLimited, InitInv, StepInv, PTL DEF Spec

\* get_db_connection never lends a connection to two threads, nor one that is still
\* waiting, and no open connection is forgotten: also when close_pool and lost
\* connections get in between.
THEOREM LoansAreExclusive == Spec => []ExclusiveLoan
<1>1. Inv => ExclusiveLoan
  BY DEF Inv
<1> QED BY <1>1, Invariance, PTL

\* Whatever the last borrower has left, the statements of a call run outside its
\* transaction and in the commit mode the call expects.
THEOREM SessionsArePredictable == Spec => []PredictableSession
<1>1. Inv => PredictableSession
  BY DEF Inv, CallsOK, CallOK, PredictableSession
<1> QED BY <1>1, Invariance, PTL

\* A transaction that database.transaction reports as done has been committed.
THEOREM DoneIsDurable == Spec => []DoneMeansDurable
<1>1. Inv => DoneMeansDurable
  BY DEF Inv, CallsOK, CallOK, DoneMeansDurable
<1> QED BY <1>1, Invariance, PTL

\* However a transaction ends, its connection does not count as lent any more.
THEOREM SlotsComeBack == Spec => NoSlotLost
<1>1. Inv /\ [Next]_vars =>
        [\A t \in Threads :
           call[t].use = "transaction" /\ call[t].conn # None /\ call'[t].conn = None
             => call[t].conn \notin used']_vars
  BY SlotReturned
<1> QED BY <1>1, Invariance, PTL DEF Spec, NoSlotLost

\* A call that has failed has changed nothing, as long as the pool is not closed and no
\* connection is lost: neither an exhausted pool nor a failed statement leaves half of it.
THEOREM FailedCallsAreUndone == Spec => []ErrorMeansUndone
<1>1. Undone => ErrorMeansUndone
  BY DEF Undone, Quiet, AllUndone, CallUndone, ErrorMeansUndone
<1>2. Bounded /\ [Next]_vars => Bounded'
  BY NextBounded
<1>3. Inv /\ Bounded /\ Undone /\ [Next]_vars => Undone'
  BY NextUndone
<1> QED BY <1>1, <1>2, <1>3, InitLimited, InitUndone, Invariance, PTL DEF Spec
=============================================================================
