----------------------------- MODULE Scheduler -----------------------------
(***************************************************************************)
(* The processes that may run the background jobs, and APScheduler inside  *)
(* them: backend.worker, "python -m backend.app" with or without Flask's   *)
(* reloader, and gunicorn's workers, which import the app.  What a job     *)
(* does to orders is in module Exchange; here it only takes time.          *)
(***************************************************************************)
EXTENDS Integers

CONSTANTS
  Workers,          \* processes of backend.worker
  Apps,             \* processes of python -m backend.app
  Children,         \* of them, those the reloader has started
  Web,              \* gunicorn's
  DEBUG, ENABLE_SCHEDULER,
  Jobs,
  Interval          \* of each job

Processes == Workers \cup Apps \cup Web

SchedulerAssumption ==
  /\ Children \subseteq Apps
  /\ Workers \cap Apps = {} /\ Workers \cap Web = {} /\ Apps \cap Web = {}
  /\ DEBUG \in BOOLEAN /\ ENABLE_SCHEDULER \in BOOLEAN
  /\ Interval \in [Jobs -> Nat \ {0}]

VARIABLES
  state,     \* of each process
  wait,      \* time until the job is due
  running    \* runs of the job that are under way

vars == <<state, wait, running>>

\* "stopping": the signal has set _shutdown and scheduler.shutdown waits.
TypeOK ==
  /\ state \in [Processes -> {"down", "up", "stopping", "stopped"}]
  /\ wait \in [Processes -> [Jobs -> Nat]]
  /\ running \in [Processes -> [Jobs -> Nat]]
  /\ \A p \in Processes, j \in Jobs : wait[p][j] <= Interval[j]

Idle == [j \in Jobs |-> 0]

Init ==
  /\ state = [p \in Processes |-> "down"]
  /\ wait = [p \in Processes |-> Interval]
  /\ running = [p \in Processes |-> Idle]

\* Mutant: the reloader's parent is not told from its child.
SchedulesAnyway(p) == p \in Workers \/ (p \in Apps /\ ENABLE_SCHEDULER)

\* Who adds the jobs and starts the scheduler: main of the worker, whatever the
\* configuration says, and the __main__ part of the app, in the reloader's child if
\* there is one.  Importing the app starts nothing.
Schedules(p) ==
  \/ p \in Workers
  \/ p \in Apps /\ ENABLE_SCHEDULER /\ (p \in Children \/ ~DEBUG)

\* A new process; the reloader starts its child only after the last one has ended.
StartProcess(p) ==
  /\ state[p] \in {"down", "stopped"}
  /\ state' = [state EXCEPT ![p] = "up"]
  /\ wait' = [wait EXCEPT ![p] = Interval]
  /\ UNCHANGED running

\* Mutant: max_instances is not one.
FireAgain(p, j) ==
  /\ state[p] = "up" /\ Schedules(p) /\ wait[p][j] = 0
  /\ wait' = [wait EXCEPT ![p][j] = Interval[j]]
  /\ running' = [running EXCEPT ![p][j] = @ + 1]
  /\ UNCHANGED state

\* The job is due; a run that is still under way makes this one be skipped.
Fire(p, j) ==
  /\ state[p] = "up" /\ Schedules(p) /\ wait[p][j] = 0
  /\ wait' = [wait EXCEPT ![p][j] = Interval[j]]
  /\ running' = [running EXCEPT ![p][j] = IF @ = 0 THEN 1 ELSE @]
  /\ UNCHANGED state

\* Mutant: a run does not give its place back.
EndHeld(p, j) == running[p][j] > 0 /\ UNCHANGED vars

\* A run ends, by itself or because its handler has caught an exception.
End(p, j) ==
  /\ running[p][j] > 0
  /\ running' = [running EXCEPT ![p][j] = @ - 1]
  /\ UNCHANGED <<state, wait>>

\* The clock of every scheduler; a job that is due is begun before the next moment.
Clock ==
  /\ \A p \in Processes, j \in Jobs : state[p] = "up" /\ Schedules(p) => wait[p][j] > 0
  /\ wait' = [p \in Processes |-> [j \in Jobs |->
                IF state[p] = "up" /\ Schedules(p) THEN wait[p][j] - 1 ELSE wait[p][j]]]
  /\ UNCHANGED <<state, running>>

\* SIGTERM or SIGINT.
HandleSignal(p) ==
  /\ p \in Workers /\ state[p] = "up"
  /\ state' = [state EXCEPT ![p] = "stopping"]
  /\ UNCHANGED <<wait, running>>

\* Mutant: scheduler.shutdown does not wait.
ShutdownAtOnce(p) ==
  /\ state[p] = "stopping"
  /\ state' = [state EXCEPT ![p] = "stopped"]
  /\ UNCHANGED <<wait, running>>

\* scheduler.shutdown(wait=True) has returned.
Shutdown(p) ==
  /\ state[p] = "stopping" /\ running[p] = Idle
  /\ state' = [state EXCEPT ![p] = "stopped"]
  /\ UNCHANGED <<wait, running>>

\* The process ends at once, its jobs with it: a crash, a kill, an app that is
\* interrupted, a reload.
Kill(p) ==
  /\ state[p] # "down"
  /\ state' = [state EXCEPT ![p] = "down"]
  /\ running' = [running EXCEPT ![p] = Idle]
  /\ UNCHANGED wait

Next ==
  \/ \E p \in Processes :
       \/ StartProcess(p) \/ HandleSignal(p) \/ Shutdown(p) \/ Kill(p)
       \/ \E j \in Jobs : Fire(p, j) \/ End(p, j)
  \/ Clock

Spec == Init /\ [][Next]_vars

\* Jobs end, schedulers run, time passes.
FairSpec ==
  /\ Spec /\ WF_vars(Clock)
  /\ \A p \in Processes :
       /\ WF_vars(Shutdown(p))
       /\ \A j \in Jobs : WF_vars(Fire(p, j)) /\ WF_vars(End(p, j))

-----------------------------------------------------------------------------
(* Properties *)

\* Over all processes at most one run of a job is under way: what filling an order
\* once depends on (FilledOnce in Exchange).
OneRunAtATime ==
  \A j \in Jobs : \A p, q \in Processes :
    running[p][j] > 0 /\ running[q][j] > 0 => p = q /\ running[p][j] = 1

\* A worker that reports that it has stopped has let its last runs end.
StopsClean == \A p \in Processes : state[p] = "stopped" => running[p] = Idle

\* As long as a worker is up every job is run again and again, also when a run
\* outlasts its interval: the fairness that Exchange assumes of its jobs.
JobsGoOn ==
  \A p \in Workers, j \in Jobs :
    /\ state[p] = "up" /\ running[p][j] = 0 ~> running[p][j] > 0 \/ state[p] # "up"
    /\ running[p][j] > 0 ~> running[p][j] = 0
=============================================================================
