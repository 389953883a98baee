------------------------------ MODULE Migrate ------------------------------
(***************************************************************************)
(* scripts/migrate.py: runners that read the ledger, work out what is      *)
(* pending and apply one file per transaction, with failures and crashes,  *)
(* and database.init_db, which builds the schema anew.  A file is its text *)
(* and what it does to the database is that text: checksums are equal when *)
(* texts are.                                                              *)
(***************************************************************************)
EXTENDS Integers, Sequences

CONSTANTS
  Runners, None,
  Versions,     \* the names of the files, in the order of their names
  Texts,
  MaxEdits,     \* bound: files edited after they were written
  MaxFaults,    \* bound: statements that fail, runners that are killed
  MaxResets     \* bound: calls of init_db

ASSUME MigrateAssumption ==
  /\ Versions \subseteq Nat /\ None \notin Texts /\ None \notin Versions
  /\ MaxEdits \in Nat /\ MaxFaults \in Nat /\ MaxResets \in Nat

VARIABLES
  files,     \* migrations/*.sql
  ledger,    \* schema_migrations, None when there is no row
  effect,    \* what the database has of each migration
  history,   \* the versions applied since the schema was built
  runner,
  overlap,   \* two runners have been up at the same time
  edits, faults, resets

vars == <<files, ledger, effect, history, runner, overlap, edits, faults, resets>>

\* tx: the transaction of apply_one has executed the text of the first of pending.
Runner == [pc : {"off", "read", "apply"}, pending : SUBSET Versions, tx : Texts \cup {None}]
Off    == [pc |-> "off", pending |-> {}, tx |-> None]

TypeOK ==
  /\ files \in [Versions -> Texts \cup {None}]
  /\ ledger \in [Versions -> Texts \cup {None}]
  /\ effect \in [Versions -> Texts \cup {None}]
  /\ history \in Seq(Versions)
  /\ runner \in [Runners -> Runner]
  /\ \A r \in Runners : runner[r].tx # None => runner[r].pc = "apply" /\ runner[r].pending # {}
  /\ overlap \in BOOLEAN
  /\ edits \in 0 .. MaxEdits /\ faults \in 0 .. MaxFaults /\ resets \in 0 .. MaxResets

Init ==
  /\ files  = [v \in Versions |-> None]
  /\ ledger = [v \in Versions |-> None]
  /\ effect = [v \in Versions |-> None]
  /\ history = <<>>
  /\ runner = [r \in Runners |-> Off] /\ overlap = FALSE
  /\ edits = 0 /\ faults = 0 /\ resets = 0

Present  == {v \in Versions : files[v] # None}
Applied  == {v \in Versions : ledger[v] # None}
First(S) == CHOOSE v \in S : \A w \in S : v <= w

-----------------------------------------------------------------------------
\* ensure_ledger and the start of main; without --status or --dry-run.
Run(r) ==
  /\ runner[r].pc = "off"
  /\ runner' = [runner EXCEPT ![r].pc = "read"]
  /\ overlap' = (overlap \/ \E q \in Runners : runner[q].pc # "off")
  /\ UNCHANGED <<files, ledger, effect, history, edits, faults, resets>>

\* Mutant: a database that has any migration counts as up to date.
DiscoverFirstRun(r) ==
  /\ runner[r].pc = "read"
  /\ runner' = [runner EXCEPT ![r].pc = "apply",
                              ![r].pending = IF Applied = {} THEN Present ELSE {}]
  /\ UNCHANGED <<files, ledger, effect, history, edits, faults, resets, overlap>>

\* applied_versions and discover.
Discover(r) ==
  /\ runner[r].pc = "read"
  /\ runner' = [runner EXCEPT ![r].pc = "apply", ![r].pending = Present \ Applied]
  /\ UNCHANGED <<files, ledger, effect, history, edits, faults, resets, overlap>>

Current(r) == First(runner[r].pending)

\* Mutant: the text is executed outside the transaction that records it.
ExecuteDurably(r) ==
  /\ runner[r].pc = "apply" /\ runner[r].pending # {} /\ runner[r].tx = None
  /\ runner' = [runner EXCEPT ![r].tx = files[Current(r)]]
  /\ effect' = [effect EXCEPT ![Current(r)] = files[Current(r)]]
  /\ history' = Append(history, Current(r))
  /\ UNCHANGED <<files, ledger, edits, faults, resets, overlap>>

\* apply_one: read and execute the file.
Execute(r) ==
  /\ runner[r].pc = "apply" /\ runner[r].pending # {} /\ runner[r].tx = None
  /\ runner' = [runner EXCEPT ![r].tx = files[Current(r)]]
  /\ UNCHANGED <<files, ledger, effect, history, edits, faults, resets, overlap>>

\* apply_one: record it and commit.
Record(r) ==
  /\ runner[r].tx # None
  /\ effect' = [effect EXCEPT ![Current(r)] = runner[r].tx]
  /\ ledger' = [ledger EXCEPT ![Current(r)] = runner[r].tx]
  /\ history' = Append(history, Current(r))
  /\ runner' = [runner EXCEPT ![r].tx = None, ![r].pending = @ \ {Current(r)}]
  /\ UNCHANGED <<files, edits, faults, resets, overlap>>

Finish(r) ==
  /\ runner[r].pc = "apply" /\ runner[r].pending = {}
  /\ runner' = [runner EXCEPT ![r] = Off]
  /\ UNCHANGED <<files, ledger, effect, history, edits, faults, resets, overlap>>

\* Mutant: after a failure the runner goes on with the next file.
SkipFailed(r) ==
  /\ runner[r].pc = "apply" /\ runner[r].pending # {} /\ faults < MaxFaults
  /\ faults' = faults + 1
  /\ runner' = [runner EXCEPT ![r].tx = None, ![r].pending = @ \ {Current(r)}]
  /\ UNCHANGED <<files, ledger, effect, history, edits, resets, overlap>>

\* A statement fails and main exits, or the process is killed: the transaction, if one
\* is open, is rolled back and the files behind it are left alone.
Stop(r) ==
  /\ runner[r].pc # "off" /\ faults < MaxFaults
  /\ faults' = faults + 1
  /\ runner' = [runner EXCEPT ![r] = Off]
  /\ UNCHANGED <<files, ledger, effect, history, edits, resets, overlap>>

-----------------------------------------------------------------------------
\* A new migration gets the next number.
Add(v, text) ==
  /\ files[v] = None /\ \A w \in Present : w < v
  /\ files' = [files EXCEPT ![v] = text]
  /\ UNCHANGED <<ledger, effect, history, runner, edits, faults, resets, overlap>>

Edit(v, text) ==
  /\ files[v] # None /\ files[v] # text /\ edits < MaxEdits
  /\ edits' = edits + 1
  /\ files' = [files EXCEPT ![v] = text]
  /\ UNCHANGED <<ledger, effect, history, runner, faults, resets, overlap>>

\* init_db drops and builds every table of schema.sql, which the ledger is not in.
\* No runner is in a transaction: DROP TABLE would wait for it.
InitDb ==
  /\ resets < MaxResets /\ resets' = resets + 1
  /\ \A r \in Runners : runner[r].tx = None
  /\ effect' = [v \in Versions |-> None]
  /\ history' = <<>>
  /\ UNCHANGED <<files, ledger, runner, edits, faults, overlap>>

Step(r) == Discover(r) \/ Execute(r) \/ Record(r) \/ Finish(r)

Next ==
  \/ \E r \in Runners : Run(r) \/ Step(r) \/ Stop(r)
  \/ \E v \in Versions, text \in Texts : Add(v, text) \/ Edit(v, text)
  \/ InitDb

\* Somebody runs the script again, after every change of the files.
Spec     == Init /\ [][Next]_vars
FairSpec == Spec /\ \A r \in Runners : WF_vars(Run(r) \/ Step(r))

-----------------------------------------------------------------------------

\* show_status, for a file that is there; a row without a checksum does not occur.
Status(v) ==
  IF ledger[v] = None THEN "pending"
  ELSE IF ledger[v] = files[v] THEN "applied" ELSE "CHANGED"

(* Properties *)

\* "Leaving earlier migrations applied and the ledger accurate": whatever fails or is
\* killed, the ledger has a row for exactly what the database has, with its checksum.
\* (init_db takes the effects and leaves the ledger.)
LedgerAccurate == resets = 0 => ledger = effect

\* As long as no two runners are up at the same time, migrations are applied in the
\* order of their numbers, each once, and none before an earlier one that has failed or
\* was cut off: over all runs, whoever starts them.  (Of two runners at a time both may
\* apply a file: each has read the ledger before.)
AppliedInOrder ==
  ~overlap => \A i, j \in DOMAIN history : i < j => history[i] < history[j]

\* What --status says of a file is true of the database.
StatusTruthful ==
  resets = 0 =>
    \A v \in Present :
      CASE Status(v) = "applied" -> effect[v] = files[v]
        [] Status(v) = "pending" -> effect[v] = None
        [] Status(v) = "CHANGED" -> effect[v] \notin {None, files[v]}

\* Every migration is applied at last.
MigrationsArrive == \A v \in Versions : files[v] # None ~> effect[v] # None
=============================================================================
