---------------------------- MODULE MigrateProofs ---------------------------
(***************************************************************************)
(* scripts/migrate.py, for any number of runners and versions: until       *)
(* somebody builds the schema anew, the ledger is accurate and what        *)
(* status prints is true, and one runner applies migrations in order.      *)
(***************************************************************************)
EXTENDS Migrate, WellFoundedInduction, TLAPS

USE MigrateAssumption

LEMMA FirstIsLeast ==
  ASSUME NEW W, W \subseteq Nat, W # {}
  PROVE  /\ First(W) \in W
         /\ \A w \in W : First(W) <= w
<1> DEFINE R == {ss \in Nat \X Nat : ss[1] < ss[2]}
<1>1. IsWellFoundedOn(R, Nat)
  BY NatLessThanWellFounded DEF OpToRel
<1> HIDE DEF R
<1>2. PICK x \in W : \A y \in W : ~(<<y, x>> \in R)
  BY <1>1, WFMin
<1>3. \A y \in W : ~(y < x)
  BY <1>2 DEF R
<1>4. \A y \in W : x <= y
  BY <1>3
<1> QED BY <1>4 DEF First

-----------------------------------------------------------------------------
(* Types *)

LEMMA InitTypes == Init => TypeOK
<1> SUFFICES ASSUME Init PROVE TypeOK
  OBVIOUS
<1>1. Off \in Runner /\ Off.tx = None
  BY DEF Off, Runner
<1>2. history = <<>> /\ overlap = FALSE
  BY DEF Init
<1>3. history \in Seq(Versions)
  BY <1>2
<1>4. overlap \in BOOLEAN
  BY <1>2
<1>5. /\ files \in [Versions -> Texts \cup {None}] /\ ledger \in [Versions -> Texts \cup {None}]
      /\ effect \in [Versions -> Texts \cup {None}]
  BY DEF Init
<1>6. runner \in [Runners -> Runner] /\ \A r \in Runners : runner[r].tx = None
  BY <1>1 DEF Init
<1>7. edits \in 0 .. MaxEdits /\ faults \in 0 .. MaxFaults /\ resets \in 0 .. MaxResets
  BY MigrateAssumption DEF Init
<1> QED BY <1>3, <1>4, <1>5, <1>6, <1>7 DEF TypeOK

\* What a runner does keeps the types; the row it writes is one it has read.
LEMMA RunnerTypes ==
  ASSUME TypeOK, NEW r \in Runners, Run(r) \/ Step(r) \/ Stop(r)
  PROVE  TypeOK'
<1>0. runner[r] \in Runner
  BY DEF TypeOK
<1>1. CASE Run(r)
  BY <1>0, <1>1 DEF TypeOK, Run, Runner
<1>2. CASE Discover(r)
  BY <1>0, <1>2 DEF TypeOK, Discover, Runner, Present, Applied
<1>3. ASSUME runner[r].pending # {}
      PROVE  Current(r) \in runner[r].pending /\ Current(r) \in Versions
  BY <1>0, <1>3, FirstIsLeast DEF Current, Runner
<1>4. CASE Execute(r)
  <2>1. Current(r) \in Versions
    BY <1>3, <1>4 DEF Execute
  <2>2. files[Current(r)] \in Texts \cup {None}
    BY <2>1 DEF TypeOK
  <2> QED BY <1>0, <1>4, <2>2 DEF TypeOK, Execute, Runner
<1>5. CASE Record(r)
  <2>1. Current(r) \in Versions /\ runner[r].tx \in Texts
    BY <1>0, <1>3, <1>5 DEF Record, TypeOK, Runner
  <2> HIDE DEF Current
  <2>2. history' \in Seq(Versions)
    BY <1>5, <2>1 DEF Record, TypeOK
  <2>3. runner' \in [Runners -> Runner]
    BY <1>0, <1>5 DEF Record, TypeOK, Runner
  <2>4. \A q \in Runners : runner'[q].tx # None => runner'[q].pc = "apply" /\ runner'[q].pending # {}
    BY <1>0, <1>5 DEF Record, TypeOK, Runner
  <2> QED BY <1>5, <2>1, <2>2, <2>3, <2>4 DEF TypeOK, Record
<1>6. CASE Finish(r)
  BY <1>0, <1>6 DEF TypeOK, Finish, Off, Runner
<1>7. CASE Stop(r)
  BY <1>0, <1>7 DEF TypeOK, Stop, Off, Runner
<1> QED BY <1>1, <1>2, <1>4, <1>5, <1>6, <1>7 DEF Step

LEMMA NextTypes == TypeOK /\ [Next]_vars => TypeOK'
<1> SUFFICES ASSUME TypeOK, [Next]_vars PROVE TypeOK'
  OBVIOUS
<1>1. ASSUME NEW r \in Runners, Run(r) \/ Step(r) \/ Stop(r) PROVE TypeOK'
  BY <1>1, RunnerTypes
<1>2. ASSUME NEW v \in Versions, NEW text \in Texts, Add(v, text) \/ Edit(v, text) PROVE TypeOK'
  BY <1>2 DEF TypeOK, Add, Edit
<1>3. CASE InitDb
  BY <1>3 DEF TypeOK, InitDb
<1>4. CASE UNCHANGED vars
  BY <1>4 DEF TypeOK, vars
<1> QED BY <1>1, <1>2, <1>3, <1>4 DEF Next

\* Every variable of the runners keeps its type, the transaction of a runner that is
\* not applying anything is closed.
THEOREM MigrateTypes == Spec => []TypeOK
<1> QED BY InitTypes, NextTypes, PTL DEF Spec

-----------------------------------------------------------------------------
(* The ledger *)

LEMMA NextAccurate ==
  ASSUME TypeOK, LedgerAccurate, [Next]_vars
  PROVE  LedgerAccurate'
<1>1. ASSUME NEW r \in Runners, Run(r) \/ Discover(r) \/ Execute(r) \/ Finish(r) \/ Stop(r)
      PROVE  LedgerAccurate'
  BY <1>1 DEF LedgerAccurate, Run, Discover, Execute, Finish, Stop
<1>2. ASSUME NEW r \in Runners, Record(r) PROVE LedgerAccurate'
  BY <1>2 DEF LedgerAccurate, Record
<1>3. ASSUME NEW v \in Versions, NEW text \in Texts, Add(v, text) \/ Edit(v, text)
      PROVE  LedgerAccurate'
  BY <1>3 DEF LedgerAccurate, Add, Edit
<1>4. CASE InitDb
  <2>1. resets' # 0
    BY <1>4 DEF InitDb, TypeOK
  <2> QED BY <2>1 DEF LedgerAccurate
<1>5. CASE UNCHANGED vars
  BY <1>5 DEF LedgerAccurate, vars
<1> QED BY <1>1, <1>2, <1>3, <1>4, <1>5 DEF Next, Step

\* Until init_db the ledger lists exactly what the database has, whatever fails or is
\* killed and however many runners there are: apply_one records and executes a file in
\* one transaction.
THEOREM LedgerIsAccurate == Spec => []LedgerAccurate
<1>1. Init => LedgerAccurate
  BY DEF Init, LedgerAccurate
<1>2. TypeOK /\ LedgerAccurate /\ [Next]_vars => LedgerAccurate'
  BY NextAccurate
<1> QED BY <1>1, <1>2, MigrateTypes, PTL DEF Spec

\* What --status says of a file is then true of the database.
THEOREM StatusIsTruthful == Spec => []StatusTruthful
<1>1. TypeOK /\ LedgerAccurate => StatusTruthful
  BY DEF TypeOK, LedgerAccurate, StatusTruthful, Status, Present
<1> QED BY <1>1, LedgerIsAccurate, MigrateTypes, PTL

-----------------------------------------------------------------------------
(* The order of runners that follow each other *)

\* A migration that is there and not applied is newer than all that are applied, and the
\* runner's list lacks only migrations that are newer than all in it.
Pending(r) ==
  /\ runner[r].pending \subseteq Present \ Applied
  /\ \A v \in (Present \ Applied) \ runner[r].pending, w \in runner[r].pending : w < v

Ascending == \A i, j \in DOMAIN history : i < j => history[i] < history[j]

InOrder ==
  /\ Applied \subseteq Present
  /\ \A v \in Present \ Applied, w \in Applied : w < v
  /\ \A i \in DOMAIN history : history[i] \in Applied
  /\ Ascending

\* A runner that is not up has no list, and of two at most one is up.
Alone ==
  /\ \A r \in Runners : runner[r].pc = "off" => runner[r].pending = {}
  /\ \A r, q \in Runners : r # q => runner[r].pc = "off" \/ runner[q].pc = "off"

OrderInv == ~overlap => InOrder /\ Alone /\ \A r \in Runners : Pending(r)

LEMMA InitOrder == Init => OrderInv
  BY DEF Init, OrderInv, Alone, InOrder, Ascending, Pending, Present, Applied, Off

\* Before a step of r all others are off, and the step leaves them off.
LEMMA OthersOff ==
  ASSUME TypeOK, OrderInv, ~overlap', NEW r \in Runners, Run(r) \/ Step(r) \/ Stop(r)
  PROVE  /\ InOrder /\ Alone /\ Pending(r)
         /\ \A q \in Runners \ {r} : runner'[q] = runner[q] /\ runner[q].pc = "off" /\ runner[q].pending = {}
<1>1. ~overlap /\ \A q \in Runners \ {r} : runner'[q] = runner[q]
  BY DEF TypeOK, Run, Step, Stop, Discover, Execute, Record, Finish
<1>2. InOrder /\ Alone /\ Pending(r)
  BY <1>1 DEF OrderInv
<1>3. ASSUME NEW q \in Runners \ {r} PROVE runner[q].pc = "off"
  <2>1. CASE Run(r)
    BY <2>1 DEF Run
  <2>2. CASE ~Run(r)
    <3>1. runner[r].pc # "off"
      BY <2>2 DEF TypeOK, Step, Stop, Discover, Execute, Record, Finish
    <3> QED BY <1>2, <3>1 DEF Alone
  <2> QED BY <2>1, <2>2
<1> QED BY <1>1, <1>2, <1>3 DEF Alone

\* If the others are off, what r has left in order is in order.
LEMMA StillAlone ==
  ASSUME NEW r \in Runners, InOrder', Pending(r)', runner'[r].pc = "off" => runner'[r].pending = {},
         \A q \in Runners \ {r} : runner'[q].pc = "off" /\ runner'[q].pending = {}
  PROVE  OrderInv'
<1>1. Alone'
  BY DEF Alone
<1>2. \A q \in Runners : Pending(q)'
  BY DEF Pending
<1> QED BY <1>1, <1>2 DEF OrderInv

LEMMA RecordOrder ==
  ASSUME TypeOK, OrderInv, NEW r \in Runners, Record(r), ~overlap'
  PROVE  OrderInv'
<1> DEFINE c == Current(r)  P == runner[r].pending
<1>0. runner[r] \in Runner /\ P \subseteq Versions /\ P # {} /\ runner[r].tx # None /\ runner[r].pc = "apply"
  BY DEF Record, TypeOK, Runner
<1>1. c \in P /\ \A w \in P : c <= w
  BY <1>0, FirstIsLeast DEF Current
<1>a. /\ InOrder /\ Pending(r)
      /\ \A q \in Runners \ {r} : runner'[q].pc = "off" /\ runner'[q].pending = {}
  BY OthersOff DEF Step
<1>2. c \in Present \ Applied /\ c \in Versions
  BY <1>0, <1>1, <1>a DEF Pending
<1> HIDE DEF c
<1>3. Present' = Present /\ Applied' = Applied \cup {c}
  BY <1>0, <1>2 DEF Record, Present, Applied, TypeOK, c
<1>4. history' = Append(history, c) /\ history \in Seq(Versions)
  BY DEF Record, TypeOK, c
<1>5. runner'[r].pending = P \ {c} /\ runner'[r].pc = "apply"
  BY <1>0 DEF Record, c, TypeOK, Runner
<1>6. \A v \in Versions : v \in Nat
  BY MigrateAssumption
<1>6a. \A v \in Present : v \in Versions
  BY DEF Present
<1>7. (\A v \in Present \ Applied, w \in Applied : w < v)'
  <2> SUFFICES ASSUME NEW v \in Present \ (Applied \cup {c}), NEW w \in Applied \cup {c}
               PROVE  w < v
    BY <1>3
  <2>1. CASE w \in Applied
    BY <2>1, <1>a DEF InOrder
  <2>2. CASE w = c /\ v \in P
    <3>1. c <= v /\ c \in Nat /\ v \in Nat /\ v # c
      BY <1>1, <1>2, <1>6, <1>6a, <2>2
    <3> QED BY <2>2, <3>1
  <2>3. CASE w = c /\ v \notin P
    BY <2>3, <1>1, <1>a DEF Pending
  <2> QED BY <2>1, <2>2, <2>3
<1>8. (\A i \in DOMAIN history : history[i] \in Applied)'
  BY <1>3, <1>4, <1>2, <1>a DEF InOrder
<1>9. Ascending'
  <2> SUFFICES ASSUME NEW i \in DOMAIN history', NEW j \in DOMAIN history', i < j
               PROVE  history'[i] < history'[j]
    BY DEF Ascending
  <2>1. CASE j \in DOMAIN history
    BY <2>1, <1>4, <1>2, <1>a DEF InOrder, Ascending
  <2>2. CASE j \notin DOMAIN history
    <3>1. i \in DOMAIN history /\ history'[i] = history[i] /\ history'[j] = c
      BY <2>2, <1>4, <1>2
    <3> QED BY <3>1, <1>2, <1>a DEF InOrder
  <2> QED BY <2>1, <2>2
<1>10. InOrder'
  BY <1>2, <1>3, <1>7, <1>8, <1>9, <1>a DEF InOrder
<1>11. Pending(r)'
  BY <1>3, <1>5, <1>a DEF Pending
<1> QED BY <1>5, <1>10, <1>11, <1>a, StillAlone

\* Any other step of a runner.
LEMMA RunnerOrder ==
  ASSUME TypeOK, OrderInv, NEW r \in Runners, ~overlap',
         Run(r) \/ Discover(r) \/ Execute(r) \/ Finish(r) \/ Stop(r)
  PROVE  OrderInv'
<1>0. runner \in [Runners -> Runner]
  BY DEF TypeOK
<1>1. /\ InOrder /\ Pending(r) /\ Alone
      /\ \A q \in Runners \ {r} : runner'[q].pc = "off" /\ runner'[q].pending = {}
  BY OthersOff DEF Step
<1>2. Present' = Present /\ Applied' = Applied /\ history' = history
  BY DEF Run, Discover, Execute, Finish, Stop, Present, Applied
<1>3. InOrder'
  BY <1>1, <1>2 DEF InOrder, Ascending
<1>4. \/ runner'[r].pending = runner[r].pending
      \/ runner'[r].pending = {}
      \/ runner'[r].pending = Present \ Applied
  BY <1>0 DEF Run, Discover, Execute, Finish, Stop, Off, Runner
<1>5. Pending(r)'
  BY <1>1, <1>2, <1>4 DEF Pending
<1>6. runner'[r].pc = "off" => runner'[r].pending = {}
  BY <1>0, <1>1 DEF Run, Discover, Execute, Finish, Stop, Off, Runner, Alone
<1> QED BY <1>1, <1>3, <1>5, <1>6, StillAlone

LEMMA NextOrder ==
  ASSUME TypeOK, OrderInv, [Next]_vars
  PROVE  OrderInv'
<1> SUFFICES ASSUME ~overlap' PROVE OrderInv'
  BY DEF OrderInv
<1>1. ASSUME NEW r \in Runners, Run(r) \/ Step(r) \/ Stop(r) PROVE OrderInv'
  BY <1>1, RecordOrder, RunnerOrder DEF Step
<1>2. ASSUME ~overlap, UNCHANGED runner, InOrder', \A r \in Runners : Pending(r)' PROVE OrderInv'
  BY <1>2 DEF OrderInv, Alone
<1>3. ASSUME NEW v \in Versions, NEW text \in Texts, Add(v, text) PROVE OrderInv'
  <2>1. Present' = Present \cup {v} /\ v \notin Present /\ \A w \in Present : w < v
    BY <1>3, MigrateAssumption DEF Add, Present, TypeOK
  <2>2. Applied' = Applied /\ UNCHANGED <<history, runner, overlap>>
    BY <1>3 DEF Add, Applied
  <2>3. InOrder /\ \A r \in Runners : Pending(r)
    BY <2>2 DEF OrderInv
  <2>4. InOrder'
    BY <2>1, <2>2, <2>3 DEF InOrder, Ascending
  <2>5. ASSUME NEW r \in Runners PROVE Pending(r)'
    BY <2>1, <2>2, <2>3 DEF InOrder, Pending
  <2> QED BY <1>2, <2>2, <2>4, <2>5
<1>4. ASSUME NEW v \in Versions, NEW text \in Texts, Edit(v, text) PROVE OrderInv'
  <2>1. Present' = Present /\ Applied' = Applied /\ UNCHANGED <<history, runner, overlap>>
    BY <1>4, MigrateAssumption DEF Edit, Present, Applied, TypeOK
  <2> QED BY <1>2, <2>1 DEF OrderInv, InOrder, Ascending, Pending
<1>5. CASE InitDb
  <2>1. Present' = Present /\ Applied' = Applied /\ history' = <<>> /\ UNCHANGED <<runner, overlap>>
    BY <1>5 DEF InitDb, Present, Applied
  <2> QED BY <1>2, <2>1 DEF OrderInv, InOrder, Ascending, Pending
<1>6. CASE UNCHANGED vars
  BY <1>2, <1>6 DEF OrderInv, InOrder, Ascending, Pending, Present, Applied, vars
<1> QED BY <1>1, <1>3, <1>4, <1>5, <1>6 DEF Next

\* As long as no two runners are up at the same time, migrations are applied in the order
\* of their numbers and each once: over all runs of all runners, whatever fails, is
\* killed, added or edited in between, and over init_db too.
THEOREM RunnersKeepOrder == Spec => []AppliedInOrder
<1>1. TypeOK /\ OrderInv /\ [Next]_vars => OrderInv'
  BY NextOrder
<1>2. OrderInv => AppliedInOrder
  BY DEF OrderInv, InOrder, Ascending, AppliedInOrder
<1> QED BY InitOrder, <1>1, <1>2, MigrateTypes, PTL DEF Spec
=============================================================================
