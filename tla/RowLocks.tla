------------------------------ MODULE RowLocks ------------------------------
(***************************************************************************)
(* What the functions of schema.sql rely on in PostgreSQL: row locks and   *)
(* row versions at isolation level READ COMMITTED, the level every         *)
(* connection of backend/database.py runs at.  PostgreSQL is not part of   *)
(* the repository; this module is its contract as the code uses it.        *)
(*                                                                         *)
(* A row holds its last committed value (old), the value its lock holder   *)
(* has given it so far (new) and the transaction that holds the lock       *)
(* taken by UPDATE, INSERT or SELECT ... FOR UPDATE (lock, None when the   *)
(* row is free).  A table is a function from keys to rows.                 *)
(***************************************************************************)
CONSTANT None

\* A row nobody has touched since it was committed with value v.
Fresh(v) == [new |-> v, old |-> v, lock |-> None]

\* A statement of transaction s that locks row r need not wait.
Free(r, s) == r.lock \in {None, s}

\* What a statement of transaction s reads in row r: its own writes, and
\* otherwise the last committed value, never another transaction's writes.
Seen(r, s) == IF r.lock = s THEN r.new ELSE r.old

\* SELECT ... FOR UPDATE and UPDATE of row k by transaction s.
Lock(rows, k, s)     == [rows EXCEPT ![k].lock = s]
Write(rows, k, s, v) == [rows EXCEPT ![k].new = v, ![k].lock = s]

\* COMMIT and ROLLBACK of transaction s: every row it holds is released.
Keep(rows, s) == [k \in DOMAIN rows |->
                    IF rows[k].lock = s THEN Fresh(rows[k].new) ELSE rows[k]]
Undo(rows, s) == [k \in DOMAIN rows |->
                    IF rows[k].lock = s THEN Fresh(rows[k].old) ELSE rows[k]]
=============================================================================
