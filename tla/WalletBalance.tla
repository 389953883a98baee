---------------------------- MODULE WalletBalance ---------------------------
(***************************************************************************)
(* The balance that POST /wallet/deposit and /wallet/withdraw answer with: *)
(* _wallet_operation moves money and reads the balance in one transaction, *)
(* while other requests do the same and trades are settled on the account. *)
(* A trade changes the wallet in one step here: that Exchange does so is   *)
(* what its refinement of Brokerage shows.                                 *)
(***************************************************************************)
EXTENDS Integers

CONSTANTS
  None,
  Users, Calls,    \* Calls: requests that may run at the same time
  Amounts,         \* what a request adds; a withdrawal adds a negative amount
  Changes,         \* what a trade adds
  Opening,
  MaxWrites        \* bound: requests and trades

WalletAssumption ==
  /\ None \notin Calls /\ None \notin Nat
  /\ Amounts \subseteq Int /\ Changes \subseteq Int
  /\ Opening \in Nat /\ MaxWrites \in Nat

VARIABLES
  balance,   \* wallets.balance, as committed
  lock,      \* the request that has updated the wallet of a user and not committed
  call,      \* the request of each client
  due,       \* history: what the account has by all that was committed
  writes

vars == <<balance, lock, call, due, writes>>

\* pc names the statement that comes next.  row: the wallet as this transaction has written
\* it.  existed: history, what the account has had since the request was done.
Call == [pc : {"idle", "update", "select", "commit", "done"}, user : Users \cup {None},
         amount : Int, row : Nat, answer : Nat \cup {None}, existed : SUBSET Int]
Idle == [pc |-> "idle", user |-> None, amount |-> 0, row |-> 0, answer |-> None, existed |-> {}]

TypeOK ==
  /\ balance \in [Users -> Nat] /\ due \in [Users -> Int]
  /\ lock \in [Users -> Calls \cup {None}]
  /\ call \in [Calls -> Call]
  /\ \A c \in Calls : call[c].pc # "idle" => call[c].user \in Users
  /\ writes \in 0 .. MaxWrites

Init ==
  /\ balance = [u \in Users |-> Opening] /\ due = balance
  /\ lock = [u \in Users |-> None]
  /\ call = [c \in Calls |-> Idle]
  /\ writes = 0

-----------------------------------------------------------------------------
(* What is committed *)

\* An amount d arrives on the account of u, and everybody who has an answer sees it.
Arrives(u, d, calls) ==
  /\ due' = [due EXCEPT ![u] = @ + d]
  /\ call' = [c \in Calls |-> IF calls[c].pc = "done" /\ calls[c].user = u
                              THEN [calls[c] EXCEPT !.existed = @ \cup {due'[u]}] ELSE calls[c]]

Write == writes < MaxWrites /\ writes' = writes + 1

\* execute_trade and the wallet triggers, which lock the wallet.
Trade(u, d) ==
  /\ lock[u] = None /\ balance[u] + d >= 0
  /\ balance' = [balance EXCEPT ![u] = @ + d]
  /\ Arrives(u, d, call)
  /\ Write /\ UNCHANGED lock

-----------------------------------------------------------------------------
(* _wallet_operation *)

Start(c, u, amount) ==
  /\ call[c] = Idle
  /\ call' = [call EXCEPT ![c] = [Idle EXCEPT !.pc = "update", !.user = u, !.amount = amount]]
  /\ Write /\ UNCHANGED <<balance, lock, due>>

\* The UPDATE of deposit_money and withdraw_money: it waits for the row and then reads it
\* again, and a withdrawal that finds too little fails.
Update(c) ==
  LET u == call[c].user  b == balance[u] + call[c].amount IN
  /\ call[c].pc = "update" /\ lock[u] = None
  /\ IF b >= 0
     THEN /\ lock' = [lock EXCEPT ![u] = c]
          /\ call' = [call EXCEPT ![c].pc = "select", ![c].row = b]
     ELSE /\ call' = [call EXCEPT ![c].pc = "done"]
          /\ UNCHANGED lock
  /\ UNCHANGED <<balance, due, writes>>

\* Mutant: the balance is read by a transaction of its own.
SelectElsewhere(c) ==
  /\ call[c].pc = "select"
  /\ call' = [call EXCEPT ![c].pc = "commit", ![c].answer = balance[call[c].user]]
  /\ UNCHANGED <<balance, lock, due, writes>>

\* SELECT balance in the same transaction, which sees what it has written.
Select(c) ==
  /\ call[c].pc = "select"
  /\ call' = [call EXCEPT ![c].pc = "commit", ![c].answer = call[c].row]
  /\ UNCHANGED <<balance, lock, due, writes>>

Commit(c) ==
  LET u == call[c].user IN
  /\ call[c].pc = "commit"
  /\ balance' = [balance EXCEPT ![u] = call[c].row]
  /\ lock' = [lock EXCEPT ![u] = None]
  /\ Arrives(u, call[c].amount, [call EXCEPT ![c].pc = "done"])
  /\ UNCHANGED writes

\* A statement fails: transaction() rolls back, and there is no balance in the answer.
Fail(c) ==
  /\ call[c].pc \in {"select", "commit"}
  /\ lock' = [lock EXCEPT ![call[c].user] = None]
  /\ call' = [call EXCEPT ![c].pc = "done", ![c].answer = None]
  /\ UNCHANGED <<balance, due, writes>>

Return(c) ==
  /\ call[c].pc = "done"
  /\ call' = [call EXCEPT ![c] = Idle]
  /\ UNCHANGED <<balance, lock, due, writes>>

Next ==
  \/ \E u \in Users, d \in Changes : Trade(u, d)
  \/ \E c \in Calls :
       \/ \E u \in Users, amount \in Amounts : Start(c, u, amount)
       \/ Update(c) \/ Select(c) \/ Commit(c) \/ Fail(c) \/ Return(c)

Spec == Init /\ [][Next]_vars

-----------------------------------------------------------------------------
(* Properties *)

\* What a deposit or a withdrawal returns is never "a figure that never actually existed"
\* (_wallet_operation): the account had it, by everything that had been committed, at some
\* moment after the money of the request was in it.
BalanceExisted ==
  \A c \in Calls :
    call[c].pc = "done" /\ call[c].answer # None => call[c].answer \in call[c].existed
=============================================================================
