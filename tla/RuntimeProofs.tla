--------------------------- MODULE RuntimeProofs ---------------------------
(***************************************************************************)
(* What the runtime of the service guarantees for any set of processes,    *)
(* jobs and resources and any number of crashes: the lock file has one     *)
(* owner (ProcessLock), and of the workers that one service, or the next   *)
(* one, has started, no two hold a resource together (JobRunner).          *)
(***************************************************************************)
EXTENDS ProcessLock, JobRunner, TLAPS

-----------------------------------------------------------------------------
(* The process lock.  Under Windows sharing rules it is exclusive: the      *)
(* creator keeps its descriptor open until release, so nobody can unlink    *)
(* the file it holds, and whoever wants the lock finds it there.            *)

\* TypeOK is preserved by every step of every process.
LEMMA TypeStep == TypeOK /\ [Next]_vars => TypeOK'
<1> SUFFICES ASSUME TypeOK, [Next]_vars PROVE TypeOK'
    OBVIOUS
<1> USE SwitchesAssumption, PidAssumption, MaxCrashesAssumption
    DEF TypeOK, LockFiles, NoFile, NoPid, States, OwnerStates, Goto
<1>1. ASSUME NEW p \in Procs, Acquire(p) PROVE TypeOK'
  <2>1. CASE StartAcquire(p) BY <2>1 DEF StartAcquire
  <2>2. CASE CreateExclusive(p)
    <3>1. CASE path = NoFile
      <4>1. path' = [creator |-> p, written |-> FALSE]
        BY <2>2, <3>1 DEF CreateExclusive
      <4>2. path' \in LockFiles BY <4>1
      <4>3. pc' = [pc EXCEPT ![p] = "write"] BY <2>2, <3>1 DEF CreateExclusive
      <4> QED BY <2>2, <4>2, <4>3 DEF CreateExclusive
    <3>2. CASE path # NoFile BY <2>2, <3>2 DEF CreateExclusive
    <3> QED BY <3>1, <3>2
  <2>3. CASE ReadOwner(p) BY <2>3 DEF ReadOwner
  <2>4. CASE CheckOwner(p) BY <2>4 DEF CheckOwner
  <2>5. CASE UnlinkStale(p) BY <2>5 DEF UnlinkStale, NextAttempt
  <2>6. CASE UnlinkStaleDenied(p) BY <2>6 DEF UnlinkStaleDenied
  <2>7. CASE WritePid(p)
    <3>1. path' \in LockFiles BY <2>7, <1>1 DEF WritePid
    <3> QED BY <2>7, <3>1 DEF WritePid
  <2> QED BY <1>1, <2>1, <2>2, <2>3, <2>4, <2>5, <2>6, <2>7 DEF Acquire
<1>2. ASSUME NEW p \in Procs, Release(p) PROVE TypeOK'
  BY <1>2 DEF Release, CloseDescriptor, UnlinkReleased, ReleaseDenied
<1>3. ASSUME NEW p \in Procs, GiveUp(p) PROVE TypeOK' BY <1>3 DEF GiveUp
<1>4. ASSUME NEW p \in Procs, Crash(p) PROVE TypeOK' BY <1>4 DEF Crash
<1>5. ASSUME NEW p \in Procs, ReusePid(p) PROVE TypeOK' BY <1>5 DEF ReusePid
<1>6. CASE UNCHANGED vars BY <1>6 DEF vars
<1> QED BY <1>1, <1>2, <1>3, <1>4, <1>5, <1>6 DEF Next

\* Every variable of the lock protocol keeps its type: processes are in one
\* of the states of acquire and release, and the path holds one lock file.
THEOREM LockTypeCorrect == Spec => []TypeOK
<1>1. Init => TypeOK
  BY MaxCrashesAssumption, PidAssumption
     DEF Init, TypeOK, LockFiles, NoFile, NoPid, States, OwnerStates
<1> QED BY <1>1, TypeStep, PTL DEF Spec

-----------------------------------------------------------------------------
\* A file whose creator holds the lock cannot be unlinked: the removal of a
\* stale lock and a late release both fail on it.
LEMMA HeldFileStays ==
    ASSUME ~UnlinkWhileOpen, TypeOK, HolderOwnsFile,
           NEW h \in Procs, Holds(h)
    PROVE  path # NoFile /\ ~CanUnlink
BY PidAssumption DEF HolderOwnsFile, Holds, CanUnlink, FileIsOpen, NoFile, TypeOK

\* HolderOwnsFile is preserved by every step.
LEMMA HolderStep ==
    ASSUME ~UnlinkWhileOpen
    PROVE  TypeOK /\ HolderOwnsFile /\ [Next]_vars => HolderOwnsFile'
<1> SUFFICES ASSUME TypeOK, HolderOwnsFile, [Next]_vars,
                    NEW h \in Procs, Holds(h)'
             PROVE  path'.creator = h
    BY DEF HolderOwnsFile
<1>0. Holds(h) => path.creator = h /\ path # NoFile /\ ~CanUnlink
  BY HeldFileStays DEF HolderOwnsFile
<1> USE DEF Holds, OwnerStates, Goto, TypeOK
<1>1. ASSUME NEW p \in Procs, Acquire(p) PROVE path'.creator = h
  <2>1. CASE StartAcquire(p) BY <2>1, <1>0 DEF StartAcquire
  <2>2. CASE CreateExclusive(p)
    <3>1. CASE path = NoFile /\ p = h BY <2>2, <3>1 DEF CreateExclusive
    <3>2. CASE path = NoFile /\ p # h BY <2>2, <3>2, <1>0 DEF CreateExclusive
    <3>3. CASE path # NoFile BY <2>2, <3>3, <1>0 DEF CreateExclusive
    <3> QED BY <3>1, <3>2, <3>3
  <2>3. CASE ReadOwner(p) BY <2>3, <1>0 DEF ReadOwner
  <2>4. CASE CheckOwner(p) BY <2>4, <1>0 DEF CheckOwner
  <2>5. CASE UnlinkStale(p) BY <2>5, <1>0 DEF UnlinkStale, NextAttempt
  <2>6. CASE UnlinkStaleDenied(p) BY <2>6, <1>0 DEF UnlinkStaleDenied
  <2>7. CASE WritePid(p)
    <3>1. Holds(h) BY <2>7 DEF WritePid
    <3>2. path'.creator = path.creator BY <2>7 DEF WritePid, LockFiles, NoFile
    <3> QED BY <3>1, <3>2, <1>0
  <2> QED BY <1>1, <2>1, <2>2, <2>3, <2>4, <2>5, <2>6, <2>7 DEF Acquire
<1>2. ASSUME NEW p \in Procs, Release(p) PROVE path'.creator = h
  BY <1>2, <1>0 DEF Release, CloseDescriptor, UnlinkReleased, ReleaseDenied
<1>3. ASSUME NEW p \in Procs, GiveUp(p) PROVE path'.creator = h
  BY <1>3, <1>0 DEF GiveUp
<1>4. ASSUME NEW p \in Procs, Crash(p) PROVE path'.creator = h
  BY <1>4, <1>0 DEF Crash
<1>5. ASSUME NEW p \in Procs, ReusePid(p) PROVE path'.creator = h
  BY <1>5, <1>0 DEF ReusePid
<1>6. CASE UNCHANGED vars BY <1>6, <1>0 DEF vars
<1> QED BY <1>1, <1>2, <1>3, <1>4, <1>5, <1>6 DEF Next

\* Under Windows sharing rules the file at the lock path is always the one its
\* holder created: no removal or release of another process touches it.
THEOREM HolderOwnsFileHolds ==
    ASSUME ~UnlinkWhileOpen PROVE Spec => []HolderOwnsFile
<1>1. Init => HolderOwnsFile
  BY DEF Init, HolderOwnsFile, Holds, OwnerStates
<1> QED BY <1>1, HolderStep, LockTypeCorrect, PTL DEF Spec

\* Under Windows sharing rules two processes never hold the same lock, for any
\* number of processes, crashes and reuses of process identifiers.
THEOREM MutualExclusionHolds ==
    ASSUME ~UnlinkWhileOpen PROVE Spec => []MutualExclusion
<1>1. HolderOwnsFile => MutualExclusion
  BY DEF HolderOwnsFile, MutualExclusion
<1> QED BY <1>1, HolderOwnsFileHolds, PTL

-----------------------------------------------------------------------------
(* The job runner.  A worker that its runner waits for has an entry in the  *)
(* table, an entry belongs to one thread, and so no two such workers use an *)
(* account or a store in common, whether or not services die and kills fail. *)

\* The threads of a service that own an entry of its table.
Owns(s, t) == call[s][t] \in {"waiting", "overdue", "draining"}

\* The jobs in a table exclude each other.
TableExclusive ==
    \A s \in Services : \A j, k \in active[s] :
        j # k => Resources[j] \cap Resources[k] = {}

\* A worker that a runner knows of is in its table, however far the kill of it is.
WorkersListed == \A s \in Services : workers[s] \subseteq active[s]

\* A thread that waits for a worker has its job in the table, and no other thread
\* of the service waits for the same job: to pop an entry never takes away that of
\* another worker.
OneOwnerPerEntry ==
    \A s \in Services : \A t \in Triggers :
        Owns(s, t) =>
            /\ JobOf[t] \in active[s]
            /\ \A u \in Triggers : Owns(s, u) /\ JobOf[u] = JobOf[t] => u = t

RunnerIInv == RunnerTypeOK /\ TableExclusive /\ WorkersListed /\ OneOwnerPerEntry

-----------------------------------------------------------------------------
LEMMA InitRunnerIInv == ASSUME ConstantsOK PROVE RunnerInit => RunnerIInv
BY DEF RunnerInit, RunnerIInv, RunnerTypeOK, TableExclusive, WorkersListed,
        OneOwnerPerEntry, Owns,
       NoCalls, Stages, Calls, ConstantsOK

\* A kill takes workers away and adds none.
LEMMA TerminateShrinks ==
    ASSUME NEW s \in Services, NEW jobs, RunnerTypeOK, Terminate(s, jobs)
    PROVE  /\ workers' \in [Services -> SUBSET Jobs]
           /\ \A r \in Services : workers'[r] \subseteq workers[r]
BY DEF Terminate, RunnerTypeOK

\* A step of the thread of one trigger.
LEMMA RunStep ==
    ASSUME ConstantsOK, RunnerIInv, NEW s \in Services, NEW t \in Triggers,
           Call(s, t) \/ Run(s, t)
    PROVE  RunnerIInv'
<1> USE DEF RunnerIInv, RunnerTypeOK, CallAt, Calls
<1>j. JobOf[t] \in Jobs BY DEF ConstantsOK
<1>1. CASE Call(s, t)
  BY <1>1 DEF Call, TableExclusive, WorkersListed, OneOwnerPerEntry, Owns
<1>2. CASE Skip(s, t)
  BY <1>2 DEF Skip, TableExclusive, WorkersListed, OneOwnerPerEntry, Owns
<1>3. CASE Start(s, t)
  <2>1. RunnerTypeOK' BY <1>3, <1>j DEF Start
  <2>2. TableExclusive'
    <3> SUFFICES ASSUME NEW r \in Services, NEW j \in active'[r], NEW k \in active'[r], j # k
                 PROVE  Resources[j] \cap Resources[k] = {}
      BY DEF TableExclusive
    <3>1. CASE r # s BY <1>3, <3>1 DEF Start, TableExclusive
    <3>2. CASE r = s /\ {j, k} \subseteq active[s] BY <3>2 DEF TableExclusive
    <3>3. CASE r = s /\ (j = JobOf[t] \/ k = JobOf[t])
      BY <1>3, <3>3 DEF Start, Conflict
    <3> QED BY <1>3, <3>1, <3>2, <3>3 DEF Start
  <2>3. WorkersListed' BY <1>3 DEF Start, WorkersListed
  <2>4. OneOwnerPerEntry'
    <3> SUFFICES ASSUME NEW r \in Services, NEW u \in Triggers, Owns(r, u)'
                 PROVE  /\ JobOf[u] \in active'[r]
                        /\ \A v \in Triggers : Owns(r, v)' /\ JobOf[v] = JobOf[u] => v = u
      BY DEF OneOwnerPerEntry
    <3>1. CASE r # s BY <1>3, <3>1 DEF Start, OneOwnerPerEntry, Owns
    <3>2. CASE r = s
      <4>1. JobOf[t] \notin active[s] BY <1>3 DEF Start, Conflict
      <4>2. \A v \in Triggers : v # t /\ Owns(s, v)' => Owns(s, v) BY <1>3 DEF Start, Owns
      <4>3. \A v \in Triggers : Owns(s, v) => JobOf[v] # JobOf[t]
        BY <4>1 DEF OneOwnerPerEntry
      <4>4. active'[s] = active[s] \cup {JobOf[t]} BY <1>3 DEF Start
      <4> QED BY <3>2, <4>2, <4>3, <4>4 DEF OneOwnerPerEntry
    <3> QED BY <3>1, <3>2
  <2> QED BY <2>1, <2>2, <2>3, <2>4
<1>4. ASSUME Reap(s, t) \/ Drain(s, t) PROVE RunnerIInv'
  <2>1. RunnerTypeOK'
    <3>1. CASE Reap(s, t) BY <3>1, <1>j DEF Reap
    <3>2. CASE Drain(s, t) BY <3>2, <1>j DEF Drain
    <3> QED BY <1>4, <3>1, <3>2
  <2>2. /\ Owns(s, t)
        /\ call' = [call EXCEPT ![s][t] = "idle"]
        /\ active' = [active EXCEPT ![s] = @ \ {JobOf[t]}]
        /\ \A r \in Services : workers'[r] \subseteq workers[r]
        /\ JobOf[t] \notin workers'[s]
    BY <1>4 DEF Reap, Drain, Owns
  <2>3. TableExclusive' BY <2>2 DEF TableExclusive
  <2>4. WorkersListed' BY <2>2 DEF WorkersListed
  <2>5. OneOwnerPerEntry'
    <3> SUFFICES ASSUME NEW r \in Services, NEW u \in Triggers, Owns(r, u)'
                 PROVE  /\ JobOf[u] \in active'[r]
                        /\ \A v \in Triggers : Owns(r, v)' /\ JobOf[v] = JobOf[u] => v = u
      BY DEF OneOwnerPerEntry
    <3>1. \A v \in Triggers : Owns(r, v)' => Owns(r, v) /\ ~(r = s /\ v = t)
      BY <2>2 DEF Owns
    <3>2. r = s => JobOf[u] # JobOf[t] BY <2>2, <3>1 DEF OneOwnerPerEntry
    <3> QED BY <2>2, <3>1, <3>2 DEF OneOwnerPerEntry
  <2> QED BY <2>1, <2>3, <2>4, <2>5
<1>5. CASE Deadline(s, t)
  BY <1>5 DEF Deadline, TableExclusive, WorkersListed, OneOwnerPerEntry, Owns
<1>6. CASE KillOverdue(s, t)
  <2>1. /\ workers' \in [Services -> SUBSET Jobs]
        /\ \A r \in Services : workers'[r] \subseteq workers[r]
    BY <1>6, TerminateShrinks DEF KillOverdue
  <2>2. RunnerTypeOK' BY <1>6, <2>1 DEF KillOverdue
  <2>3. TableExclusive' /\ WorkersListed'
    BY <1>6, <2>1 DEF KillOverdue, TableExclusive, WorkersListed
  <2>4. OneOwnerPerEntry' BY <1>6 DEF KillOverdue, OneOwnerPerEntry, Owns
  <2> QED BY <2>2, <2>3, <2>4
<1> QED BY <1>1, <1>2, <1>3, <1>4, <1>5, <1>6 DEF Run

\* A step of the service itself.
LEMMA ServiceStep ==
    ASSUME ConstantsOK, RunnerIInv, NEW s \in Services,
           Serve(s) \/ Shutdown(s) \/ ServiceKilled(s)
    PROVE  RunnerIInv'
<1> USE DEF RunnerIInv, RunnerTypeOK, Stages, Become
<1>1. ASSUME Serve(s) \/ ReleaseLock(s) \/ Exit(s) PROVE RunnerIInv'
  BY <1>1 DEF Serve, ReleaseLock, Exit, TableExclusive, WorkersListed, OneOwnerPerEntry, Owns
<1>2. ASSUME RequestShutdown(s) \/ TerminateAgain(s) PROVE RunnerIInv'
  <2>1. /\ workers' \in [Services -> SUBSET Jobs]
        /\ \A r \in Services : workers'[r] \subseteq workers[r]
    BY <1>2, TerminateShrinks DEF RequestShutdown, TerminateAgain
  <2>2. RunnerTypeOK' BY <1>2, <2>1 DEF RequestShutdown, TerminateAgain
  <2>3. UNCHANGED <<active, call>> BY <1>2 DEF RequestShutdown, TerminateAgain
  <2> QED BY <2>1, <2>2, <2>3 DEF TableExclusive, WorkersListed, OneOwnerPerEntry, Owns
<1>3. CASE ServiceKilled(s)
  <2>1. RunnerTypeOK' BY <1>3 DEF ServiceKilled, NoCalls, Calls
  <2>2. TableExclusive' /\ WorkersListed'
    BY <1>3 DEF ServiceKilled, TableExclusive, WorkersListed
  <2>3. OneOwnerPerEntry' BY <1>3 DEF ServiceKilled, NoCalls, OneOwnerPerEntry, Owns
  <2> QED BY <2>1, <2>2, <2>3
<1> QED BY <1>1, <1>2, <1>3 DEF Shutdown

\* The inductive invariant: the types, jobs in the table that exclude each other,
\* workers that are listed, entries that have one owner.
LEMMA StepRunnerIInv ==
    ASSUME ConstantsOK PROVE RunnerIInv /\ [RunnerNext]_runnerVars => RunnerIInv'
<1> SUFFICES ASSUME RunnerIInv, [RunnerNext]_runnerVars PROVE RunnerIInv'
    OBVIOUS
<1>1. ASSUME NEW s \in Services, NEW j \in Jobs, WorkerEnds(s, j) PROVE RunnerIInv'
  BY <1>1
    DEF WorkerEnds, RunnerIInv, RunnerTypeOK, TableExclusive, WorkersListed,
        OneOwnerPerEntry, Owns
<1>2. ASSUME NEW j \in Jobs, StrayEnds(j) PROVE RunnerIInv'
  BY <1>2
    DEF StrayEnds, RunnerIInv, RunnerTypeOK, TableExclusive, WorkersListed,
        OneOwnerPerEntry, Owns
<1>3. CASE UNCHANGED runnerVars
  BY <1>3
    DEF runnerVars, RunnerIInv, RunnerTypeOK, TableExclusive, WorkersListed,
        OneOwnerPerEntry, Owns
<1> QED BY <1>1, <1>2, <1>3, RunStep, ServiceStep DEF RunnerNext

THEOREM RunnerIInvHolds == ASSUME ConstantsOK PROVE RunnerSpec => []RunnerIInv
BY InitRunnerIInv, StepRunnerIInv, PTL DEF RunnerSpec

\* No two workers that a service waits for use an account or a store in common,
\* for any jobs and resources, however deadlines, kills that fail, the shutdown
\* and the death of the service interleave.
THEOREM SupervisedExclusiveHolds ==
    ASSUME ConstantsOK PROVE RunnerSpec => []SupervisedExclusive
<1>1. RunnerIInv => SupervisedExclusive
  BY DEF RunnerIInv, TableExclusive, WorkersListed, SupervisedExclusive
<1> QED BY <1>1, RunnerIInvHolds, PTL

\* Each entry of a table has one thread that waits for its worker and will pop it.
THEOREM OneOwnerPerEntryHolds ==
    ASSUME ConstantsOK PROVE RunnerSpec => []OneOwnerPerEntry
<1>1. RunnerIInv => OneOwnerPerEntry BY DEF RunnerIInv
<1> QED BY <1>1, RunnerIInvHolds, PTL
=============================================================================
