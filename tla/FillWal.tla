------------------------------ MODULE FillWal ------------------------------
(***************************************************************************)
(* The write-ahead log of scripts/simulation/fill_transaction.py and the   *)
(* critical sections of the two brokers that use it.  A simulated fill     *)
(* changes five JSON state files, appends to four JSONL logs and may write *)
(* a postmortem; PaperFillTransactionCoordinator first saves the target    *)
(* snapshots in a ledger as "prepared", then applies them one file at a    *)
(* time, then marks the record "committed".  Whoever next enters a         *)
(* critical section replays what is still prepared.                        *)
(*                                                                         *)
(* A state file is modelled by the orders whose fill its content shows, a  *)
(* log by how many lines each order has in it.  Replacing a JSON file is   *)
(* atomic (temporary file and rename).  A worker is one process at work on *)
(* one account; it may die, or fail with an exception, between any two     *)
(* steps.  The fill lock is exclusive and is taken over from a dead owner  *)
(* (ProcessLock).                                                          *)
(***************************************************************************)
EXTENDS Naturals, Sequences

CONSTANTS
    Workers,
    Orders,
    OptionOrders, \* the orders of the option broker, the others are equity
    ExitOrders,   \* the sells, whose fill also writes a postmortem
    MaxFaults     \* bound on crashes and exceptions explored

ASSUME OrdersAssumption ==
    Orders # {} /\ OptionOrders \subseteq Orders /\ ExitOrders \subseteq Orders
ASSUME MaxFaultsAssumption == MaxFaults \in Nat
ASSUME NobodyAssumption == "nobody" \notin Workers

SharedFiles == {"account", "counters", "lifecycle"}
Files == SharedFiles \cup
    {"positions", "orders", "option_positions", "option_orders"}
Logs == {"orders.jsonl", "fills.jsonl", "option_orders.jsonl",
         "option_fills.jsonl", "trade_journal.jsonl", "audit.jsonl",
         "postmortem"}

OrdersFile(o) == IF o \in OptionOrders THEN "option_orders" ELSE "orders"

\* The writes of one transaction, in the order they are applied.
StateWrites(o) ==
    <<"account",
      IF o \in OptionOrders THEN "option_positions" ELSE "positions",
      OrdersFile(o), "counters", "lifecycle">>

LogWrites(o) ==
    (IF o \in OptionOrders
     THEN <<"option_orders.jsonl", "option_fills.jsonl">>
     ELSE <<"orders.jsonl", "fills.jsonl">>)
    \o <<"trade_journal.jsonl", "audit.jsonl">>
    \o (IF o \in ExitOrders THEN <<"postmortem">> ELSE <<>>)

Writes(o) == StateWrites(o) \o LogWrites(o)
Touches(o, target) == \E i \in DOMAIN Writes(o) : Writes(o)[i] = target

VARIABLES
    disk,     \* state file -> orders whose fill it shows
    logs,     \* log -> order -> number of its lines
    ledger,   \* order -> status of its transaction and its target snapshots
    holder,   \* owner of the fill lock
    pc,       \* worker -> step of its critical section
    task,     \* worker -> order its operation is about
    mem,      \* worker -> the state files as it read them
    current,  \* worker -> transaction it is applying
    idx,      \* worker -> next write of that transaction
    replayed, \* worker -> transactions it has replayed, ledger not yet saved
    faults    \* crashes and exceptions so far

vars == <<disk, logs, ledger, holder, pc, task, mem, current, idx, replayed, faults>>
local == <<task, mem, current, idx, replayed>>

NoSnapshot == [f \in Files |-> {}]
NoRecord == [status |-> "none", snapshot |-> NoSnapshot]

Statuses == {"none", "prepared", "committed"}
Critical == {"recover", "replay", "read", "save", "fill", "apply", "release"}
Applying == {"replay", "apply"}

TypeOK ==
    /\ disk \in [Files -> SUBSET Orders]
    /\ logs \in [Logs -> [Orders -> Nat]]
    /\ ledger \in [Orders -> [status : Statuses, snapshot : [Files -> SUBSET Orders]]]
    /\ holder \in Workers \cup {"nobody"}
    /\ pc \in [Workers -> Critical \cup {"idle", "dead"}]
    /\ task \in [Workers -> Orders]
    /\ mem \in [Workers -> [Files -> SUBSET Orders]]
    /\ current \in [Workers -> Orders]
    /\ idx \in [Workers -> Nat \ {0}]
    /\ replayed \in [Workers -> SUBSET Orders]
    /\ faults \in 0..MaxFaults

Goto(w, state) == pc' = [pc EXCEPT ![w] = state]
Status(o) == ledger[o].status
Prepared == {o \in Orders : Status(o) = "prepared"}

AnyOrder == CHOOSE o \in Orders : TRUE

Init ==
    /\ disk = [f \in Files |-> {}]
    /\ logs = [l \in Logs |-> [o \in Orders |-> 0]]
    /\ ledger = [o \in Orders |-> NoRecord]
    /\ holder = "nobody"
    /\ pc = [w \in Workers |-> "idle"]
    /\ task = [w \in Workers |-> AnyOrder]
    /\ mem = [w \in Workers |-> NoSnapshot]
    /\ current = [w \in Workers |-> AnyOrder]
    /\ idx = [w \in Workers |-> 1]
    /\ replayed = [w \in Workers |-> {}]
    /\ faults = 0

\* What a process knew is gone when its operation ends.
ForgetLocals(w) ==
    /\ task' = [task EXCEPT ![w] = AnyOrder]
    /\ mem' = [mem EXCEPT ![w] = NoSnapshot]
    /\ current' = [current EXCEPT ![w] = AnyOrder]
    /\ idx' = [idx EXCEPT ![w] = 1]
    /\ replayed' = [replayed EXCEPT ![w] = {}]

-----------------------------------------------------------------------------
(* Entering a critical section: create_order, submit_order, cancel_order,   *)
(* the expiry branch of process_open_orders, and the brokers' constructors  *)

(* The operators named Fault... are the seeded faults of PROJECT.json: each  *)
(* stands for a definition with one plausible programming error in it.       *)

\* Seeded fault: the lock is not waited for.
FaultEnterUnlocked(w, o) ==
    /\ pc[w] = "idle"
    /\ holder' = w
    /\ task' = [task EXCEPT ![w] = o]
    /\ Goto(w, "recover")
    /\ UNCHANGED <<disk, logs, ledger, mem, current, idx, replayed, faults>>

\* Seeded fault: the operation starts without recovery.
FaultEnterUnrecovered(w, o) ==
    /\ pc[w] = "idle"
    /\ holder = "nobody" \/ (holder \in Workers /\ pc[holder] = "dead")
    /\ holder' = w
    /\ task' = [task EXCEPT ![w] = o]
    /\ Goto(w, "read")
    /\ UNCHANGED <<disk, logs, ledger, mem, current, idx, replayed, faults>>

Enter(w, o) ==
    /\ pc[w] = "idle"
    /\ holder = "nobody" \/ (holder \in Workers /\ pc[holder] = "dead")
    /\ holder' = w
    /\ task' = [task EXCEPT ![w] = o]
    /\ Goto(w, "recover")
    /\ UNCHANGED <<disk, logs, ledger, mem, current, idx, replayed, faults>>

-----------------------------------------------------------------------------
(* recover_locked: replay every prepared record, then save the ledger once  *)

ReplayNext(w, o) ==
    /\ pc[w] = "recover"
    /\ Status(o) = "prepared" /\ o \notin replayed[w]
    /\ current' = [current EXCEPT ![w] = o]
    /\ idx' = [idx EXCEPT ![w] = 1]
    /\ Goto(w, "replay")
    /\ UNCHANGED <<disk, logs, ledger, holder, task, mem, replayed, faults>>

\* _mark_committed drops the snapshots of a record it commits.
CommittedRecord == [NoRecord EXCEPT !.status = "committed"]

SaveRecovered(w) ==
    /\ pc[w] = "recover"
    /\ Prepared \subseteq replayed[w]
    /\ ledger' = [o \in Orders |->
          IF o \in replayed[w] THEN CommittedRecord ELSE ledger[o]]
    /\ Goto(w, "read")
    /\ UNCHANGED <<disk, logs, holder, local, faults>>

\* Seeded fault: a replay appends the line again.
FaultAppendAlways(o, target) ==
    IF target \in Files
    THEN /\ disk' = [disk EXCEPT ![target] = ledger[o].snapshot[target]]
         /\ UNCHANGED logs
    ELSE /\ logs' = [logs EXCEPT ![target][o] = @ + 1]
         /\ UNCHANGED disk

\* _apply: one write at a time, appends only if the log lacks the transaction.
WriteTarget(o, target) ==
    IF target \in Files
    THEN /\ disk' = [disk EXCEPT ![target] = ledger[o].snapshot[target]]
         /\ UNCHANGED logs
    ELSE /\ logs' = [logs EXCEPT ![target][o] = IF @ = 0 THEN 1 ELSE @]
         /\ UNCHANGED disk

ApplyWrite(w) ==
    /\ pc[w] \in Applying
    /\ idx[w] \in DOMAIN Writes(current[w])
    /\ WriteTarget(current[w], Writes(current[w])[idx[w]])
    /\ idx' = [idx EXCEPT ![w] = @ + 1]
    /\ UNCHANGED <<ledger, holder, pc, task, mem, current, replayed, faults>>

Applied(w) == idx[w] \notin DOMAIN Writes(current[w])

Replayed(w) ==
    /\ pc[w] = "replay" /\ Applied(w)
    /\ replayed' = [replayed EXCEPT ![w] = @ \cup {current[w]}]
    /\ Goto(w, "recover")
    /\ UNCHANGED <<disk, logs, ledger, holder, task, mem, current, idx, faults>>

-----------------------------------------------------------------------------
(* The operation itself                                                     *)

\* A terminal order is returned as it is.
ReadState(w) ==
    /\ pc[w] = "read"
    /\ mem' = [mem EXCEPT ![w] = disk]
    /\ Goto(w, IF task[w] \in disk[OrdersFile(task[w])] THEN "release" ELSE "save")
    /\ UNCHANGED <<disk, logs, ledger, holder, task, current, idx, replayed, faults>>

\* The order, created, submitted, cancelled or expired, goes back to the disk
\* with all the others of its broker.
SaveOrders(w) ==
    /\ pc[w] = "save"
    /\ LET f == OrdersFile(task[w]) IN disk' = [disk EXCEPT ![f] = mem[w][f]]
    /\ Goto(w, "fill")
    /\ UNCHANGED <<logs, ledger, holder, local, faults>>

\* Every operation but a fill ends here: nothing to submit, rejected or open.
NoFill(w) ==
    /\ pc[w] \in {"read", "fill"}
    /\ Goto(w, "release")
    /\ UNCHANGED <<disk, logs, ledger, holder, local, faults>>

\* commit_locked for the fill of the order, computed from what was read.
Snapshot(w, o) ==
    [f \in Files |-> IF Touches(o, f) THEN mem[w][f] \cup {o} ELSE {}]

CommitFill(w) ==
    LET o == task[w] IN
    /\ pc[w] = "fill"
    /\ IF Status(o) = "committed"
       THEN Goto(w, "release") /\ UNCHANGED <<ledger, current, idx>>
       ELSE /\ ledger' = IF Status(o) = "prepared" THEN ledger ELSE
                 [ledger EXCEPT ![o] = [status |-> "prepared", snapshot |-> Snapshot(w, o)]]
            /\ current' = [current EXCEPT ![w] = o]
            /\ idx' = [idx EXCEPT ![w] = 1]
            /\ Goto(w, "apply")
    /\ UNCHANGED <<disk, logs, holder, task, mem, replayed, faults>>

\* Seeded fault: the record is committed before its last write is done.
FaultCommitEarly(w) ==
    /\ pc[w] = "apply"
    /\ ledger' = [ledger EXCEPT ![current[w]] = CommittedRecord]
    /\ Goto(w, "release")
    /\ UNCHANGED <<disk, logs, holder, local, faults>>

MarkCommitted(w) ==
    /\ pc[w] = "apply" /\ Applied(w)
    /\ ledger' = [ledger EXCEPT ![current[w]] = CommittedRecord]
    /\ Goto(w, "release")
    /\ UNCHANGED <<disk, logs, holder, local, faults>>

Release(w) ==
    /\ pc[w] = "release"
    /\ holder' = "nobody"
    /\ Goto(w, "idle")
    /\ ForgetLocals(w)
    /\ UNCHANGED <<disk, logs, ledger, faults>>

-----------------------------------------------------------------------------
(* Faults: an exception releases the lock on its way out, a crash does not  *)

\* Seeded fault: an exception leaves the lock file behind.
FaultRaiseLocked(w) ==
    /\ pc[w] \in Critical /\ faults < MaxFaults
    /\ faults' = faults + 1
    /\ Goto(w, "idle")
    /\ ForgetLocals(w)
    /\ UNCHANGED <<disk, logs, ledger, holder>>

Raise(w) ==
    /\ pc[w] \in Critical /\ faults < MaxFaults
    /\ faults' = faults + 1
    /\ holder' = "nobody"
    /\ Goto(w, "idle")
    /\ ForgetLocals(w)
    /\ UNCHANGED <<disk, logs, ledger>>

Crash(w) ==
    /\ pc[w] \in Critical /\ faults < MaxFaults
    /\ faults' = faults + 1
    /\ Goto(w, "dead")
    /\ ForgetLocals(w)
    /\ UNCHANGED <<disk, logs, ledger, holder>>

\* A new process, with a pid of its own, takes over the work; a lock the dead one
\* left behind names a pid that has exited, so it is free for anybody.
Restart(w) ==
    /\ pc[w] = "dead"
    /\ holder' = IF holder = w THEN "nobody" ELSE holder
    /\ Goto(w, "idle")
    /\ UNCHANGED <<disk, logs, ledger, local, faults>>

Recover(w) == SaveRecovered(w) \/ Replayed(w) \/ \E o \in Orders : ReplayNext(w, o)
Operate(w) ==
    \/ ReadState(w) \/ SaveOrders(w) \/ NoFill(w) \/ CommitFill(w)
    \/ MarkCommitted(w) \/ Release(w)

Run(w) == Recover(w) \/ ApplyWrite(w) \/ Operate(w) \/ \E o \in Orders : Enter(w, o)

Next == \E w \in Workers : Run(w) \/ Raise(w) \/ Crash(w) \/ Restart(w)

Spec == Init /\ [][Next]_vars

\* A live process runs its code to the end, and the scheduler starts a worker
\* again at the next interval.  Nothing forces a fault.
FairSpec ==
    Spec /\ \A w \in Workers : WF_vars(Run(w)) /\ WF_vars(Restart(w))

-----------------------------------------------------------------------------
(* Properties *)

\* At most one transaction is ever prepared.  recover_locked replays in the
\* order of the sorted identifiers, not of the fills, and every snapshot is of
\* whole files: replaying two would let the older undo the newer.
AtMostOnePrepared == \A o, q \in Prepared : o = q

\* A worker decides on whole fills only: once it has recovered and read, the
\* files show exactly the committed fills, in each file the fill touches,
\* whatever crashes left the disk between two writes before.
Deciding == {"save", "fill"}
DecidesOnWholeFills ==
    \A w \in Workers : pc[w] \in Deciding =>
        \A f \in Files :
            mem[w][f] = {o \in Orders : Status(o) = "committed" /\ Touches(o, f)}

\* Exactly once: a committed fill is in every file and once in every log it
\* touches, and no file or log ever shows an order whose fill was not logged
\* ahead, or shows one twice.
ExactlyOnce ==
    \A o \in Orders :
        /\ Status(o) = "committed" =>
              /\ \A f \in Files : Touches(o, f) => o \in disk[f]
              /\ \A l \in Logs : Touches(o, l) => logs[l][o] = 1
        /\ Status(o) = "none" =>
              /\ \A f \in Files : o \notin disk[f]
              /\ \A l \in Logs : logs[l][o] = 0
        /\ \A l \in Logs : logs[l][o] <= 1

\* A fill that reached a state file is never lost from it: no later snapshot,
\* replay or rewrite of the orders puts an older content back.
NoLostFill == [][\A f \in Files : disk[f] \subseteq disk'[f]]_vars

-----------------------------------------------------------------------------
(* The inductive strengthening of the invariants above                      *)

CommittedIn(f) == {o \in Orders : Status(o) = "committed" /\ Touches(o, f)}

\* The write of a transaction to one of its targets has been done.
Done(o, target) ==
    IF target \in Files THEN o \in disk[target] ELSE logs[target][o] = 1

\* On the disk: files show only fills that touch them, and a prepared snapshot
\* adds its own fill to the committed ones, and to nothing else.
DiskInv ==
    /\ AtMostOnePrepared /\ ExactlyOnce
    /\ \A f \in Files : \A o \in disk[f] : Touches(o, f)
    /\ \A o \in Prepared : \A f \in Files :
          Touches(o, f) => ledger[o].snapshot[f] = CommittedIn(f) \cup {o}

\* In a worker: it owns the fill lock, what it has applied or replayed so far is
\* on the disk, and nothing is prepared around it once it has recovered.
WorkerInv(w) ==
    /\ pc[w] \in Critical => holder = w
    /\ pc[w] \in Applying =>
          /\ current[w] \in Prepared
          /\ \A i \in DOMAIN Writes(current[w]) :
                i < idx[w] => Done(current[w], Writes(current[w])[i])
    /\ pc[w] \in {"recover", "replay"} => \A o \in replayed[w] :
          o \in Prepared /\ \A i \in DOMAIN Writes(o) : Done(o, Writes(o)[i])
    /\ pc[w] \in {"read", "save", "fill", "release"} => Prepared = {}
    /\ pc[w] \in Deciding => \A f \in Files : mem[w][f] = CommittedIn(f)
    /\ pc[w] \notin Critical => replayed[w] = {}

\* The invariant that every step preserves, and that gives the ones above: a
\* crash may leave a transaction half applied, but what is missing is always
\* in its snapshots, and nobody decides before it has been written.
IInv == DiskInv /\ \A w \in Workers : WorkerInv(w)

\* A prepared fill is completed by somebody, however its own worker ended.
PreparedIsCompleted ==
    \A o \in Orders : Status(o) = "prepared" ~> Status(o) = "committed"

\* The account a reader of the specification may think of: a fill takes effect
\* when its record is saved as prepared, and a worker has read the account
\* while it decides.
Applied0 == {o \in Orders : Status(o) # "none"}
AbstractView ==
    [w \in Workers |->
        IF pc[w] \in Deciding
        THEN [read |-> TRUE,
              fills |-> {o \in Orders : \E f \in Files : o \in mem[w][f]}]
        ELSE [read |-> FALSE, fills |-> {}]]

Abstract == INSTANCE AtomicFill WITH applied <- Applied0, view <- AbstractView

\* The log and its recovery implement fills that are atomic, happen at most
\* once and are each decided on an account that shows all the earlier ones.
ImplementsAtomicFill == Abstract!Spec
=============================================================================
