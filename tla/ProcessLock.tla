---------------------------- MODULE ProcessLock ----------------------------
(***************************************************************************)
(* The lock file protocol of scripts/runtime/process_lock.py, at the grain *)
(* of its system calls.  ProcessLock guards the one forward service of a   *)
(* host (forward_service.lock); InterProcessFileLock in                    *)
(* scripts/core/file_lock.py retries it under a deadline and guards every  *)
(* state file, every append-only log and the fill commit section.          *)
(*                                                                         *)
(* A lock is a file created with O_CREAT|O_EXCL whose text is the owner's  *)
(* process id.  Two behaviours of the operating system decide what the     *)
(* protocol guarantees, and are constants: whether a file that some        *)
(* process holds open can be unlinked (POSIX: yes, Windows: no), and       *)
(* whether the identifier of a dead process is given to a new one.         *)
(***************************************************************************)
EXTENDS Naturals, FiniteSets

CONSTANTS
    Procs,           \* processes, each named by its process id
    UnlinkWhileOpen, \* TRUE: POSIX unlink, FALSE: Windows sharing rules
    PidReuse,        \* TRUE: a dead process id may be handed out again
    MaxCrashes       \* bound on the number of crashes explored

ASSUME SwitchesAssumption == UnlinkWhileOpen \in BOOLEAN /\ PidReuse \in BOOLEAN
ASSUME PidAssumption == "none" \notin Procs
ASSUME MaxCrashesAssumption == MaxCrashes \in Nat

VARIABLES
    path,     \* the file at the lock path: who created it, and if its pid is written
    pc,       \* where each process stands in acquire or release
    attempt,  \* acquire's loop counter, for _ in range(2)
    readPid,  \* the pid a process read from the lock file
    crashes   \* crashes so far (bounded by MaxCrashes)

vars == <<path, pc, attempt, readPid, crashes>>

NoFile == [creator |-> "none", written |-> FALSE]
NoPid == "none"   \* an empty or malformed lock file

LockFiles == {NoFile} \cup [creator : Procs, written : BOOLEAN]

\* A process whose pc is one of these has the lock file it created open.
OwnerStates == {"write", "held"}
States == OwnerStates \cup
    {"idle", "create", "inspect", "reading", "unlink", "waiting", "closed", "dead"}

TypeOK ==
    /\ path \in LockFiles
    /\ pc \in [Procs -> States]
    /\ attempt \in [Procs -> 1..2]
    /\ readPid \in [Procs -> Procs \cup {NoPid}]
    /\ crashes \in 0..MaxCrashes

Init ==
    /\ path = NoFile
    /\ pc = [p \in Procs |-> "idle"]
    /\ attempt = [p \in Procs |-> 1]
    /\ readPid = [p \in Procs |-> NoPid]
    /\ crashes = 0

Alive(p) == pc[p] # "dead"

(* The operators named Fault... are the seeded faults of PROJECT.json: each  *)
(* stands for a definition with one plausible programming error in it.       *)

\* Seeded fault: the descriptor is not kept open while the lock is held.
FaultDescriptorClosedEarly ==
    \/ path.creator \in Procs /\ pc[path.creator] = "write"
    \/ \E q \in Procs : pc[q] = "reading"

\* Somebody has the file at the path open: its creator until release closes
\* the descriptor, or a process in the middle of read_text.
FileIsOpen ==
    \/ path.creator \in Procs /\ pc[path.creator] \in OwnerStates
    \/ \E q \in Procs : pc[q] = "reading"

CanUnlink == UnlinkWhileOpen \/ ~FileIsOpen

Goto(p, state) == pc' = [pc EXCEPT ![p] = state]

-----------------------------------------------------------------------------
(* ProcessLock.acquire *)

StartAcquire(p) ==
    /\ pc[p] \in {"idle", "waiting"}
    /\ attempt' = [attempt EXCEPT ![p] = 1]
    /\ Goto(p, "create")
    /\ UNCHANGED <<path, readPid, crashes>>

\* Seeded fault: O_EXCL is missing, so an existing file is opened as well.
FaultCreateShared(p) ==
    /\ pc[p] = "create"
    /\ path' = [creator |-> p, written |-> FALSE]
    /\ Goto(p, "write")
    /\ UNCHANGED <<attempt, readPid, crashes>>

\* os.open(path, O_CREAT | O_EXCL | O_WRONLY)
CreateExclusive(p) ==
    /\ pc[p] = "create"
    /\ IF path = NoFile
       THEN /\ path' = [creator |-> p, written |-> FALSE]
            /\ Goto(p, "write")
       ELSE /\ Goto(p, "inspect")
            /\ UNCHANGED path
    /\ UNCHANGED <<attempt, readPid, crashes>>

\* path.read_text: a vanished file is an OSError, so acquire returns False.
ReadOwner(p) ==
    /\ pc[p] = "inspect"
    /\ IF path = NoFile
       THEN Goto(p, "waiting") /\ UNCHANGED readPid
       ELSE /\ readPid' = [readPid EXCEPT
                    ![p] = IF path.written THEN path.creator ELSE NoPid]
            /\ Goto(p, "reading")
    /\ UNCHANGED <<path, attempt, crashes>>

\* Seeded fault: the owner is looked up in the last attempt only.
FaultLastAttemptOnly(p) ==
    attempt[p] = 2 /\ readPid[p] \in Procs /\ ~Alive(readPid[p])

\* The reader's handle is closed, then the process of the pid is looked up.
\* A text that is no pid fails closed.
OwnerExited(p) == readPid[p] \in Procs /\ ~Alive(readPid[p])

CheckOwner(p) ==
    /\ pc[p] = "reading"
    /\ Goto(p, IF OwnerExited(p) THEN "unlink" ELSE "waiting")
    /\ UNCHANGED <<path, attempt, readPid, crashes>>

\* path.unlink: a missing file is accepted, a PermissionError leaves acquire
\* as an exception.  A success lets the loop try once more, if it may.
NextAttempt(p) ==
    IF attempt[p] = 1
    THEN Goto(p, "create") /\ attempt' = [attempt EXCEPT ![p] = 2]
    ELSE Goto(p, "waiting") /\ UNCHANGED attempt

UnlinkStale(p) ==
    /\ pc[p] = "unlink"
    /\ path = NoFile \/ CanUnlink
    /\ path' = NoFile
    /\ NextAttempt(p)
    /\ UNCHANGED <<readPid, crashes>>

UnlinkStaleDenied(p) ==
    /\ pc[p] = "unlink"
    /\ path # NoFile /\ ~CanUnlink
    /\ Goto(p, "idle")
    /\ UNCHANGED <<path, attempt, readPid, crashes>>

\* os.write of the pid; the descriptor may name a file no longer at the path.
WritePid(p) ==
    /\ pc[p] = "write"
    /\ path' = IF path.creator = p THEN [path EXCEPT !.written = TRUE] ELSE path
    /\ Goto(p, "held")
    /\ UNCHANGED <<attempt, readPid, crashes>>

\* acquire returned False: the single-shot caller leaves, InterProcessFileLock
\* leaves at its deadline with a TimeoutError (a retry is StartAcquire).
GiveUp(p) ==
    /\ pc[p] = "waiting"
    /\ Goto(p, "idle")
    /\ UNCHANGED <<path, attempt, readPid, crashes>>

-----------------------------------------------------------------------------
(* ProcessLock.release *)

CloseDescriptor(p) ==
    /\ pc[p] = "held"
    /\ Goto(p, "closed")
    /\ UNCHANGED <<path, attempt, readPid, crashes>>

\* Unlink whatever is at the path; FileNotFoundError also ends the release.
UnlinkReleased(p) ==
    /\ pc[p] = "closed"
    /\ path = NoFile \/ CanUnlink
    /\ path' = NoFile
    /\ Goto(p, "idle")
    /\ UNCHANGED <<attempt, readPid, crashes>>

\* A PermissionError is retried; after 100 tries release raises it.
ReleaseDenied(p) ==
    /\ pc[p] = "closed"
    /\ path # NoFile /\ ~CanUnlink
    /\ Goto(p, "idle")
    /\ UNCHANGED <<path, attempt, readPid, crashes>>

-----------------------------------------------------------------------------
(* The process dies anywhere; the system closes its handles, the file stays. *)

Crash(p) ==
    /\ Alive(p) /\ crashes < MaxCrashes
    /\ crashes' = crashes + 1
    /\ Goto(p, "dead")
    /\ UNCHANGED <<path, attempt, readPid>>

\* A new process is given the identifier of a dead one.
ReusePid(p) ==
    /\ PidReuse /\ ~Alive(p)
    /\ Goto(p, "idle")
    /\ UNCHANGED <<path, attempt, readPid, crashes>>

Acquire(p) ==
    \/ StartAcquire(p) \/ CreateExclusive(p) \/ ReadOwner(p) \/ CheckOwner(p)
    \/ UnlinkStale(p) \/ UnlinkStaleDenied(p) \/ WritePid(p)

Release(p) == CloseDescriptor(p) \/ UnlinkReleased(p) \/ ReleaseDenied(p)

Next ==
    \E p \in Procs : Acquire(p) \/ GiveUp(p) \/ Release(p) \/ Crash(p) \/ ReusePid(p)

Spec == Init /\ [][Next]_vars

\* A live process keeps executing its own code, and the callers of a lock come
\* back for it: the scheduler fires every job again and each broker operation
\* takes the fill lock anew.  Nothing forces a crash or the reuse of a pid.
Fairness == \A p \in Procs : WF_vars(Acquire(p)) /\ WF_vars(Release(p))

FairSpec == Spec /\ Fairness

-----------------------------------------------------------------------------
(* Properties *)

Holds(p) == pc[p] \in OwnerStates

\* No two processes are ever between a successful acquire and the release of
\* the same lock: what every critical section of the repository rests on.
MutualExclusion ==
    \A p, q \in Procs : Holds(p) /\ Holds(q) => p = q

\* While a process holds the lock, the file at the path is the one it created:
\* neither a stale-lock removal nor a late release of another process has
\* replaced or deleted it, so a third process cannot get in.
HolderOwnsFile ==
    \A p \in Procs : Holds(p) => path.creator = p

\* The claim of the docstring of _remove_stale_lock (process_lock.py:31),
\* "Remove only a lock whose recorded owner process has exited.": the removal
\* of a stale lock never takes away the file of a process that is running.
RemovesOnlyExited ==
    [][\A p \in Procs :
          UnlinkStale(p) /\ path.creator \in Procs => ~Alive(path.creator)]_vars

\* A dead owner's lock, once its pid is in it, does not block a contender that
\* is left alone with it for ever: the contender removes it.  (A lock file left
\* without a pid does block it, by the choice of the code to fail closed; and
\* under Windows rules two contenders can hold the file open in turn for ever.)
StaleLock(p) == path = [creator |-> p, written |-> TRUE] /\ ~Alive(p)
Contenders == {p \in Procs : Alive(p)}
StaleLockRecovered ==
    \A p \in Procs : StaleLock(p) ~> ~StaleLock(p) \/ Cardinality(Contenders) # 1
=============================================================================
