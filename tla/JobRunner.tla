----------------------------- MODULE JobRunner -----------------------------
(***************************************************************************)
(* The supervised service: serve in                                        *)
(* scripts/orchestrator/forward_paper_service.py and SubprocessJobRunner   *)
(* in scripts/runtime/subprocess_runner.py.                                *)
(*                                                                         *)
(* A service process holds forward_service.lock (ProcessLock) and fires    *)
(* triggers on threads of its scheduler.  Each trigger runs one named job  *)
(* as a worker process, unless the job, or another one that uses an        *)
(* account or store in common, is already in the table _active of its      *)
(* runner; then the trigger is skipped.  A worker that passes its deadline *)
(* is killed.  Several services exist one after the other, or at once if   *)
(* the lock lets them; a worker outlives a service that is killed.         *)
(*                                                                         *)
(* What a worker does to the accounts is in PaperBroker and FillWal; this  *)
(* module is about which workers are alive together.                       *)
(*                                                                         *)
(* The operators named Fault... are the seeded faults of PROJECT.json.     *)
(***************************************************************************)
EXTENDS FiniteSets

CONSTANTS
    Services,    \* service processes
    Triggers,    \* scheduler entries
    Jobs,        \* job names
    JobOf,       \* trigger -> job name (two triggers may share one)
    Resources,   \* job -> accounts and stores it uses
    ServiceDies, \* TRUE: a service may be killed
    KillFails    \* TRUE: a worker may survive the kill of its process tree

ConstantsOK ==
    /\ JobOf \in [Triggers -> Jobs]
    /\ \A j \in Jobs : IsFiniteSet(Resources[j])
    /\ ServiceDies \in BOOLEAN /\ KillFails \in BOOLEAN
    /\ "free" \notin Services

VARIABLES
    service, \* stage of each service
    lock,    \* owner of forward_service.lock
    call,    \* service -> trigger -> where its thread stands in run
    active,  \* service -> jobs in _active
    workers, \* service -> jobs whose worker is alive
    strays   \* jobs with a live worker that no runner knows of any more

runnerVars == <<service, lock, call, active, workers, strays>>

Stages == {"unborn", "up", "stopping", "stopped", "exiting", "gone"}
Calls == {"idle", "called", "waiting", "overdue", "draining"}
InService(s) == service[s] \notin {"unborn", "gone"}

RunnerTypeOK ==
    /\ service \in [Services -> Stages]
    /\ lock \in Services \cup {"free"}
    /\ call \in [Services -> [Triggers -> Calls]]
    /\ active \in [Services -> SUBSET Jobs]
    /\ workers \in [Services -> SUBSET Jobs]
    /\ strays \subseteq Jobs

NoCalls == [t \in Triggers |-> "idle"]

RunnerInit ==
    /\ service = [s \in Services |-> "unborn"]
    /\ lock = "free"
    /\ call = [s \in Services |-> NoCalls]
    /\ active = [s \in Services |-> {}]
    /\ workers = [s \in Services |-> {}]
    /\ strays = {}

Become(s, stage) == service' = [service EXCEPT ![s] = stage]
CallAt(s, t, where) == call' = [call EXCEPT ![s][t] = where]

-----------------------------------------------------------------------------
(* SubprocessJobRunner.run, on a thread of the scheduler *)

\* The scheduler fires a trigger, one instance of it at a time.
Call(s, t) ==
    /\ service[s] = "up" /\ call[s][t] = "idle"
    /\ CallAt(s, t, "called")
    /\ UNCHANGED <<service, lock, active, workers, strays>>

Conflict(s, j) ==
    \/ j \in active[s]
    \/ \E k \in active[s] : Resources[j] \cap Resources[k] # {}

Skip(s, t) ==
    /\ call[s][t] = "called" /\ Conflict(s, JobOf[t])
    /\ CallAt(s, t, "idle")
    /\ UNCHANGED <<service, lock, active, workers, strays>>

\* Popen and the entry into the table are under one guard.
Start(s, t) ==
    /\ call[s][t] = "called" /\ ~Conflict(s, JobOf[t])
    /\ active' = [active EXCEPT ![s] = @ \cup {JobOf[t]}]
    /\ workers' = [workers EXCEPT ![s] = @ \cup {JobOf[t]}]
    /\ CallAt(s, t, "waiting")
    /\ UNCHANGED <<service, lock, strays>>

\* communicate returns once the worker is gone, and the entry is popped.
Reap(s, t) ==
    /\ call[s][t] = "waiting" /\ JobOf[t] \notin workers[s]
    /\ active' = [active EXCEPT ![s] = @ \ {JobOf[t]}]
    /\ CallAt(s, t, "idle")
    /\ UNCHANGED <<service, lock, workers, strays>>

\* Seeded fault: the job leaves the table as soon as it is overdue.
FaultPopOverdue(s, t) ==
    /\ call[s][t] = "waiting" /\ JobOf[t] \in workers[s]
    /\ active' = [active EXCEPT ![s] = @ \ {JobOf[t]}]
    /\ CallAt(s, t, "overdue")
    /\ UNCHANGED <<service, lock, workers, strays>>

\* communicate(timeout=timeout_seconds) raises TimeoutExpired.
Deadline(s, t) ==
    /\ call[s][t] = "waiting" /\ JobOf[t] \in workers[s]
    /\ CallAt(s, t, "overdue")
    /\ UNCHANGED <<service, lock, active, workers, strays>>

\* _terminate_process_tree on the workers of the jobs named, as far as it works.
Terminate(s, jobs) ==
    \E survivors \in SUBSET (workers[s] \cap jobs) :
        /\ survivors # {} => KillFails
        /\ workers' = [workers EXCEPT ![s] = (@ \ jobs) \cup survivors]

KillOverdue(s, t) ==
    /\ call[s][t] = "overdue"
    /\ Terminate(s, {JobOf[t]})
    /\ CallAt(s, t, "draining")
    /\ UNCHANGED <<service, lock, active, strays>>

\* Seeded fault: communicate without a timeout after the kill.
FaultDrainForever(s, t) ==
    /\ call[s][t] = "draining" /\ JobOf[t] \notin workers[s]
    /\ active' = [active EXCEPT ![s] = @ \ {JobOf[t]}]
    /\ CallAt(s, t, "idle")
    /\ UNCHANGED <<service, lock, workers, strays>>

\* communicate(timeout=10): whether it returns or raises, the entry is popped;
\* a worker that survived the kill is from now on nobody's.
Drain(s, t) ==
    /\ call[s][t] = "draining"
    /\ active' = [active EXCEPT ![s] = @ \ {JobOf[t]}]
    /\ workers' = [workers EXCEPT ![s] = @ \ {JobOf[t]}]
    /\ strays' = strays \cup (workers[s] \cap {JobOf[t]})
    /\ CallAt(s, t, "idle")
    /\ UNCHANGED <<service, lock>>

\* A worker ends by itself.
WorkerEnds(s, j) ==
    /\ j \in workers[s]
    /\ workers' = [workers EXCEPT ![s] = @ \ {j}]
    /\ UNCHANGED <<service, lock, call, active, strays>>

StrayEnds(j) ==
    /\ j \in strays
    /\ strays' = strays \ {j}
    /\ UNCHANGED <<service, lock, call, active, workers>>

-----------------------------------------------------------------------------
(* serve *)

\* The lock is free, or left behind by a service that has exited.
Serve(s) ==
    /\ service[s] = "unborn"
    /\ lock = "free" \/ (lock \in Services /\ service[lock] = "gone")
    /\ lock' = s
    /\ Become(s, "up")
    /\ UNCHANGED <<call, active, workers, strays>>

\* request_shutdown: the scheduler fires nothing more, but the threads it has
\* started go on; terminate_all kills what is in the table at this moment.
RequestShutdown(s) ==
    /\ service[s] = "up"
    /\ Become(s, "stopping")
    /\ Terminate(s, active[s])
    /\ UNCHANGED <<lock, call, active, strays>>

\* The finally clause calls terminate_all again, ...
TerminateAgain(s) ==
    /\ service[s] = "stopping"
    /\ Become(s, "stopped")
    /\ Terminate(s, active[s])
    /\ UNCHANGED <<lock, call, active, strays>>

\* ... and releases the lock.
ReleaseLock(s) ==
    /\ service[s] = "stopped"
    /\ lock' = "free"
    /\ Become(s, "exiting")
    /\ UNCHANGED <<call, active, workers, strays>>

\* The interpreter waits for the threads of the scheduler before it exits.
Exit(s) ==
    /\ service[s] = "exiting" /\ call[s] = NoCalls
    /\ Become(s, "gone")
    /\ UNCHANGED <<lock, call, active, workers, strays>>

\* Killed, or a power cut: workers are in sessions of their own and go on.
ServiceKilled(s) ==
    /\ ServiceDies /\ InService(s)
    /\ Become(s, "gone")
    /\ call' = [call EXCEPT ![s] = NoCalls]
    /\ active' = [active EXCEPT ![s] = {}]
    /\ workers' = [workers EXCEPT ![s] = {}]
    /\ strays' = strays \cup workers[s]
    /\ UNCHANGED lock

Run(s, t) ==
    \/ Skip(s, t) \/ Start(s, t) \/ Reap(s, t) \/ Deadline(s, t)
    \/ KillOverdue(s, t) \/ Drain(s, t)

Shutdown(s) ==
    RequestShutdown(s) \/ TerminateAgain(s) \/ ReleaseLock(s) \/ Exit(s)

RunnerNext ==
    \/ \E s \in Services :
          \/ Serve(s) \/ Shutdown(s) \/ ServiceKilled(s)
          \/ \E t \in Triggers : Call(s, t) \/ Run(s, t)
          \/ \E j \in Jobs : WorkerEnds(s, j)
    \/ \E j \in Jobs : StrayEnds(j)

RunnerSpec == RunnerInit /\ [][RunnerNext]_runnerVars

\* A thread of a live service goes on, because every wait in run has a timeout,
\* and the scheduler fires each of its triggers again at the next interval.
\* Nothing says that a worker ends, or that an operator stops a service.
RunnerFairness ==
    \A s \in Services, t \in Triggers : WF_runnerVars(Run(s, t)) /\ WF_runnerVars(Call(s, t))

FairRunnerSpec == RunnerSpec /\ RunnerFairness

-----------------------------------------------------------------------------
(* Properties *)

\* Every worker that is alive, with the runner that knows it.
LiveWorkers ==
    {v \in Services \X Jobs : v[2] \in workers[v[1]]} \cup ({"nobody"} \X strays)

\* No two workers that a service waits for use an account or a store in common,
\* whatever the order of deadlines, kills and shutdown: a job that is not yet
\* over keeps its place in the table, also while it is being killed.
SupervisedExclusive ==
    \A s \in Services : \A j, k \in workers[s] :
        j # k => Resources[j] \cap Resources[k] = {}

\* "instead of writing the same state at the same time"
\* (PROJECT_ARCHITECTURE.md:103, in Chinese): no two workers that are alive use
\* an account or a store in common, whichever service started them.
AccountExclusive ==
    \A v, w \in LiveWorkers : v # w => Resources[v[2]] \cap Resources[w[2]] = {}

\* Every trigger that fires is answered: it is skipped, or its run returns,
\* even if the worker hangs and the kill of it fails.
EveryCallReturns ==
    \A s \in Services, t \in Triggers : call[s][t] # "idle" ~> call[s][t] = "idle"
=============================================================================
