----------------------------- MODULE MCRuntime -----------------------------
(* The runtime under the jobs, at two levels that share no state: processes *)
(* that contend for a lock file (ProcessLock), and one service that runs    *)
(* its jobs (JobRunner).  A behaviour is one of the two, as part says, and  *)
(* has the fairness of it.                                                  *)
EXTENDS MCProcessLock, MCJobRunner

VARIABLE part

ASSUME RuntimeAssumption == ConstantsOK

MCInit == part \in {"lock", "runner"} /\ Init /\ RunnerInit
MCNext ==
    \/ part = "lock" /\ Next /\ UNCHANGED <<part, runnerVars>>
    \/ part = "runner" /\ RunnerNext /\ UNCHANGED <<part, vars>>
\* The fairness of ProcessLock and of JobRunner, each in its own part.
MCSpec ==
    /\ MCInit /\ [][MCNext]_<<part, vars, runnerVars>>
    /\ \A p \in Procs :
          /\ WF_vars(part = "lock" /\ Acquire(p))
          /\ WF_vars(part = "lock" /\ Release(p))
    /\ \A s \in Services, t \in Triggers :
          /\ WF_runnerVars(part = "runner" /\ Run(s, t))
          /\ WF_runnerVars(part = "runner" /\ Call(s, t))
=============================================================================
