--------------------------- MODULE FillWalProofs ---------------------------
(***************************************************************************)
(* Proofs about the fill log for any workers, any orders and any number of *)
(* faults: type correctness, the inductive invariant IInv, exactly-once    *)
(* application, no lost fill, and the refinement of AtomicFill.            *)
(***************************************************************************)
EXTENDS FillWal, SequenceTheorems, TLAPS

\* The writes of a transaction form a sequence of files and logs.
LEMMA WritesType ==
    ASSUME NEW o \in Orders
    PROVE  /\ StateWrites(o) \in Seq(Files \cup Logs)
           /\ LogWrites(o) \in Seq(Files \cup Logs)
           /\ Writes(o) \in Seq(Files \cup Logs)
           /\ DOMAIN Writes(o) = 1..Len(Writes(o))
           /\ OrdersFile(o) \in Files
<1>1. StateWrites(o) \in Seq(Files \cup Logs)
  <2>1. CASE o \in OptionOrders
    <3>1. StateWrites(o) = <<"account", "option_positions", "option_orders",
                             "counters", "lifecycle">>
      BY <2>1 DEF StateWrites, OrdersFile
    <3> QED BY <3>1 DEF Files, SharedFiles
  <2>2. CASE o \notin OptionOrders
    <3>1. StateWrites(o) = <<"account", "positions", "orders",
                             "counters", "lifecycle">>
      BY <2>2 DEF StateWrites, OrdersFile
    <3> QED BY <3>1 DEF Files, SharedFiles
  <2> QED BY <2>1, <2>2
<1>2. LogWrites(o) \in Seq(Files \cup Logs)
  <2> DEFINE orderLogs == IF o \in OptionOrders
                          THEN <<"option_orders.jsonl", "option_fills.jsonl">>
                          ELSE <<"orders.jsonl", "fills.jsonl">>
             sharedLogs == <<"trade_journal.jsonl", "audit.jsonl">>
             postmortem == IF o \in ExitOrders THEN <<"postmortem">> ELSE <<>>
  <2>1. orderLogs \in Seq(Files \cup Logs)
    <3>1. <<"option_orders.jsonl", "option_fills.jsonl">> \in Seq(Files \cup Logs)
      BY DEF Logs
    <3>2. <<"orders.jsonl", "fills.jsonl">> \in Seq(Files \cup Logs) BY DEF Logs
    <3> QED BY <3>1, <3>2
  <2>2. sharedLogs \in Seq(Files \cup Logs) BY DEF Logs
  <2>3. postmortem \in Seq(Files \cup Logs)
    <3>1. <<"postmortem">> \in Seq(Files \cup Logs) BY DEF Logs
    <3>2. <<>> \in Seq(Files \cup Logs) OBVIOUS
    <3> QED BY <3>1, <3>2
  <2>4. LogWrites(o) = orderLogs \o sharedLogs \o postmortem BY DEF LogWrites
  <2> HIDE DEF orderLogs, sharedLogs, postmortem
  <2> QED BY <2>1, <2>2, <2>3, <2>4
<1>3. Writes(o) \in Seq(Files \cup Logs) BY <1>1, <1>2 DEF Writes
<1>4. OrdersFile(o) \in Files BY DEF OrdersFile, Files
<1> QED BY <1>1, <1>2, <1>3, <1>4

LEMMA TargetType ==
    ASSUME NEW o \in Orders, NEW i \in DOMAIN Writes(o)
    PROVE  /\ Writes(o)[i] \in Files \cup Logs
           /\ Touches(o, Writes(o)[i])
BY WritesType DEF Touches

LEMMA AnyOrderType == AnyOrder \in Orders
BY OrdersAssumption DEF AnyOrder

LEMMA RecordTypes ==
    /\ NoSnapshot \in [Files -> SUBSET Orders]
    /\ NoRecord \in [status : Statuses, snapshot : [Files -> SUBSET Orders]]
    /\ CommittedRecord \in [status : Statuses, snapshot : [Files -> SUBSET Orders]]
    /\ CommittedRecord.status = "committed"
BY DEF NoSnapshot, NoRecord, CommittedRecord, Statuses

-----------------------------------------------------------------------------
\* TypeOK is preserved by every step.
LEMMA TypeStep == TypeOK /\ [Next]_vars => TypeOK'
<1> SUFFICES ASSUME TypeOK, [Next]_vars PROVE TypeOK'
    OBVIOUS
<1> USE AnyOrderType, RecordTypes, MaxFaultsAssumption
<1> USE DEF TypeOK, Critical, Goto
<1>1. ASSUME NEW w \in Workers, NEW o \in Orders, Enter(w, o) PROVE TypeOK'
  BY <1>1 DEF Enter
<1>2. ASSUME NEW w \in Workers, NEW o \in Orders, ReplayNext(w, o) PROVE TypeOK'
  BY <1>2 DEF ReplayNext
<1>3. ASSUME NEW w \in Workers, SaveRecovered(w) PROVE TypeOK'
  BY <1>3 DEF SaveRecovered, local
<1>4. ASSUME NEW w \in Workers, ApplyWrite(w) PROVE TypeOK'
  <2>1. current[w] \in Orders /\ idx[w] \in DOMAIN Writes(current[w]) BY <1>4 DEF ApplyWrite
  <2>2. PICK o \in Orders, t \in Files \cup Logs : WriteTarget(o, t)
    BY <1>4, <2>1, TargetType DEF ApplyWrite
  <2>3. disk' \in [Files -> SUBSET Orders] /\ logs' \in [Logs -> [Orders -> Nat]]
    <3>1. CASE t \in Files
      <4>1. ledger[o].snapshot[t] \in SUBSET Orders BY <3>1
      <4> QED BY <2>2, <3>1, <4>1 DEF WriteTarget
    <3>2. CASE t \in Logs \ Files
      <4> DEFINE n == IF logs[t][o] = 0 THEN 1 ELSE logs[t][o]
      <4>1. n \in Nat BY <3>2
      <4>2. [logs[t] EXCEPT ![o] = n] \in [Orders -> Nat] BY <3>2, <4>1
      <4>3. logs' = [logs EXCEPT ![t] = [logs[t] EXCEPT ![o] = n]] /\ disk' = disk
        BY <2>2, <3>2 DEF WriteTarget
      <4> HIDE DEF n
      <4> QED BY <3>2, <4>2, <4>3
    <3> QED BY <3>1, <3>2
  <2> QED BY <1>4, <2>3 DEF ApplyWrite
<1>5. ASSUME NEW w \in Workers, Replayed(w) PROVE TypeOK'
  BY <1>5 DEF Replayed
<1>6. ASSUME NEW w \in Workers, ReadState(w) PROVE TypeOK'
  BY <1>6 DEF ReadState
<1>7. ASSUME NEW w \in Workers, SaveOrders(w) PROVE TypeOK'
  BY <1>7, WritesType DEF SaveOrders, local
<1>8. ASSUME NEW w \in Workers, NoFill(w) PROVE TypeOK'
  BY <1>8 DEF NoFill, local
<1>9. ASSUME NEW w \in Workers, CommitFill(w) PROVE TypeOK'
  <2>1. task[w] \in Orders /\ Snapshot(w, task[w]) \in [Files -> SUBSET Orders]
    BY DEF Snapshot
  <2> DEFINE record == [status |-> "prepared", snapshot |-> Snapshot(w, task[w])]
  <2>2. record \in [status : Statuses, snapshot : [Files -> SUBSET Orders]]
    BY <2>1 DEF Statuses
  <2>3. ledger' \in {ledger, [ledger EXCEPT ![task[w]] = record]}
    BY <1>9 DEF CommitFill
  <2> HIDE DEF record
  <2>4. ledger' \in [Orders -> [status : Statuses, snapshot : [Files -> SUBSET Orders]]]
    BY <2>1, <2>2, <2>3
  <2>5. /\ pc' \in [Workers -> Critical \cup {"idle", "dead"}]
        /\ current' \in [Workers -> Orders]
        /\ idx' \in [Workers -> Nat \ {0}]
    <3>1. CASE Status(task[w]) = "committed" BY <1>9, <3>1 DEF CommitFill
    <3>2. CASE Status(task[w]) # "committed"
      <4>1. /\ pc' = [pc EXCEPT ![w] = "apply"]
            /\ current' = [current EXCEPT ![w] = task[w]]
            /\ idx' = [idx EXCEPT ![w] = 1]
        BY <1>9, <3>2 DEF CommitFill
      <4> QED BY <4>1
    <3> QED BY <3>1, <3>2
  <2> QED BY <1>9, <2>4, <2>5 DEF CommitFill
<1>10. ASSUME NEW w \in Workers, MarkCommitted(w) PROVE TypeOK'
  BY <1>10 DEF MarkCommitted, local
<1>11. ASSUME NEW w \in Workers, Release(w) PROVE TypeOK'
  BY <1>11 DEF Release, ForgetLocals
<1>12. ASSUME NEW w \in Workers, Raise(w) PROVE TypeOK'
  BY <1>12 DEF Raise, ForgetLocals
<1>13. ASSUME NEW w \in Workers, Crash(w) PROVE TypeOK'
  BY <1>13 DEF Crash, ForgetLocals
<1>14. ASSUME NEW w \in Workers, Restart(w) PROVE TypeOK'
  BY <1>14 DEF Restart, local
<1>15. CASE UNCHANGED vars BY <1>15 DEF vars
<1> QED
  BY <1>1, <1>2, <1>3, <1>4, <1>5, <1>6, <1>7, <1>8, <1>9, <1>10, <1>11,
     <1>12, <1>13, <1>14, <1>15
  DEF Next, Run, Recover, Operate

\* Every file, log, ledger record and worker variable keeps its type.
THEOREM TypeCorrect == Spec => []TypeOK
<1>1. Init => TypeOK
  BY AnyOrderType, RecordTypes, MaxFaultsAssumption DEF Init, TypeOK, Critical
<1> QED BY <1>1, TypeStep, PTL DEF Spec

-----------------------------------------------------------------------------
(* The inductive invariant                                                   *)

\* The lock passes only to its taker, and only from nobody or from the dead.
LEMMA OthersAreOutside ==
    ASSUME TypeOK, IInv, NEW w \in Workers, NEW v \in Workers, v # w,
           \/ holder = w
           \/ holder = "nobody"
           \/ holder \in Workers /\ pc[holder] = "dead"
    PROVE  pc[v] \notin Critical
BY NobodyAssumption DEF IInv, WorkerInv, Critical

\* A worker outside the critical section keeps its part of the invariant while
\* another one moves.
LEMMA OthersKeepInv ==
    ASSUME IInv, NEW v \in Workers, pc[v] \notin Critical,
           pc'[v] = pc[v], replayed'[v] = replayed[v]
    PROVE  WorkerInv(v)'
BY DEF IInv, WorkerInv, Critical, Applying, Deciding

\* The part of the invariant about the disk rests on the disk alone.
LEMMA DiskInvUnchanged ==
    ASSUME DiskInv, UNCHANGED <<disk, logs, ledger>>
    PROVE  /\ DiskInv'
           /\ Prepared' = Prepared
           /\ \A f : CommittedIn(f)' = CommittedIn(f)
           /\ \A o, t : Done(o, t)' = Done(o, t)
<1>1. \A o : Status(o)' = Status(o) BY DEF Status
<1>2. Prepared' = Prepared BY <1>1 DEF Prepared
<1>3. \A f : CommittedIn(f)' = CommittedIn(f) BY <1>1 DEF CommittedIn
<1>4. \A o, t : Done(o, t)' = Done(o, t) BY DEF Done
<1>5. AtMostOnePrepared' BY <1>2 DEF DiskInv, AtMostOnePrepared
<1>6. ExactlyOnce' BY <1>1 DEF DiskInv, ExactlyOnce
<1>7. (\A f \in Files : \A o \in disk[f] : Touches(o, f))' BY DEF DiskInv
<1>8. (\A o \in Prepared : \A f \in Files :
          Touches(o, f) => ledger[o].snapshot[f] = CommittedIn(f) \cup {o})'
  BY <1>2, <1>3 DEF DiskInv
<1> QED BY <1>2, <1>3, <1>4, <1>5, <1>6, <1>7, <1>8 DEF DiskInv

\* A step of the lock's owner, or of whoever takes the lock, that leaves the
\* disk alone preserves IInv if it preserves the worker's own part.
LEMMA LocalStep ==
    ASSUME TypeOK, IInv, NEW w \in Workers,
           UNCHANGED <<disk, logs, ledger>>,
           \A v \in Workers \ {w} : pc'[v] = pc[v] /\ replayed'[v] = replayed[v],
           \/ holder = w
           \/ holder = "nobody"
           \/ holder \in Workers /\ pc[holder] = "dead",
           WorkerInv(w)'
    PROVE  IInv'
<1>1. DiskInv' BY DiskInvUnchanged DEF IInv
<1>2. ASSUME NEW v \in Workers, v # w PROVE WorkerInv(v)'
  BY <1>2, OthersAreOutside, OthersKeepInv
<1> QED BY <1>1, <1>2 DEF IInv

\* When nothing is prepared, every file shows exactly the committed fills.
LEMMA CleanDisk ==
    ASSUME TypeOK, DiskInv, Prepared = {}, NEW f \in Files
    PROVE  disk[f] = CommittedIn(f)
<1>1. disk[f] \subseteq CommittedIn(f)
  BY DEF DiskInv, ExactlyOnce, CommittedIn, Prepared, TypeOK, Statuses, Status
<1>2. CommittedIn(f) \subseteq disk[f]
  BY DEF DiskInv, ExactlyOnce, CommittedIn
<1> QED BY <1>1, <1>2

\* The steps that change no file, log or record preserve IInv.
LEMMA LocalSteps ==
    ASSUME TypeOK, IInv, NEW w \in Workers,
           \/ \E o \in Orders : Enter(w, o) \/ ReplayNext(w, o)
           \/ Replayed(w) \/ ReadState(w) \/ NoFill(w)
           \/ Release(w) \/ Raise(w) \/ Crash(w)
    PROVE  IInv'
<1> USE DEF Goto
<1>0. WorkerInv(w) /\ DiskInv BY DEF IInv
<1>1. ASSUME NEW o \in Orders, Enter(w, o) PROVE IInv'
  <2>1. replayed'[w] = {} BY <1>1, <1>0 DEF Enter, WorkerInv, Critical
  <2>2. pc'[w] = "recover" /\ holder' = w BY <1>1 DEF Enter, TypeOK
  <2>3. WorkerInv(w)' BY <2>1, <2>2 DEF WorkerInv, Critical, Applying, Deciding
  <2> QED BY <1>1, <2>3, LocalStep DEF Enter, TypeOK
<1>2. ASSUME NEW o \in Orders, ReplayNext(w, o) PROVE IInv'
  <2>1. /\ pc[w] = "recover" /\ pc'[w] = "replay" /\ holder = w /\ holder' = holder
        /\ current'[w] = o /\ idx'[w] = 1 /\ replayed' = replayed
        /\ UNCHANGED <<disk, logs, ledger>>
    BY <1>2, <1>0 DEF ReplayNext, TypeOK, WorkerInv, Critical
  <2>2. o \in Prepared BY <1>2 DEF ReplayNext, Prepared
  <2>3. \A i \in DOMAIN Writes(o) : ~(i < 1) BY WritesType
  <2>4. WorkerInv(w)'
    BY <1>0, <2>1, <2>2, <2>3, DiskInvUnchanged
    DEF WorkerInv, Critical, Applying, Deciding
  <2> QED BY <1>2, <2>1, <2>4, LocalStep DEF ReplayNext, TypeOK
<1>3. ASSUME Replayed(w) PROVE IInv'
  <2>1. /\ pc[w] = "replay" /\ pc'[w] = "recover" /\ holder = w /\ holder' = holder
        /\ replayed'[w] = replayed[w] \cup {current[w]}
        /\ UNCHANGED <<disk, logs, ledger>>
    BY <1>3, <1>0 DEF Replayed, TypeOK, WorkerInv, Critical
  <2>2. current[w] \in Prepared
    BY <1>0, <2>1 DEF WorkerInv, Applying
  <2>3. \A i \in DOMAIN Writes(current[w]) : Done(current[w], Writes(current[w])[i])
    <3>1. \A i \in DOMAIN Writes(current[w]) : i < idx[w]
      BY <1>3, WritesType DEF Replayed, Applied, TypeOK
    <3> QED BY <1>0, <2>1, <3>1 DEF WorkerInv, Applying
  <2>4. WorkerInv(w)'
    BY <1>0, <2>1, <2>2, <2>3, DiskInvUnchanged
    DEF WorkerInv, Critical, Applying, Deciding
  <2> QED BY <1>3, <2>1, <2>4, LocalStep DEF Replayed, TypeOK
<1>4. ASSUME ReadState(w) PROVE IInv'
  <2>1. /\ pc[w] = "read" /\ pc'[w] \in {"release", "save"} /\ holder = w
        /\ holder' = holder /\ mem'[w] = disk /\ UNCHANGED <<disk, logs, ledger>>
    BY <1>4, <1>0 DEF ReadState, TypeOK, WorkerInv, Critical
  <2>2. Prepared = {} BY <1>0, <2>1 DEF WorkerInv
  <2>3. \A f \in Files : disk[f] = CommittedIn(f) BY <1>0, <2>2, CleanDisk
  <2>4. WorkerInv(w)'
    BY <1>0, <2>1, <2>2, <2>3, DiskInvUnchanged
    DEF WorkerInv, Critical, Applying, Deciding
  <2> QED BY <1>4, <2>1, <2>4, LocalStep DEF ReadState, TypeOK
<1>5. ASSUME NoFill(w) PROVE IInv'
  <2>1. /\ pc[w] \in {"read", "fill"} /\ pc'[w] = "release" /\ holder = w
        /\ holder' = holder /\ UNCHANGED <<disk, logs, ledger>>
    BY <1>5, <1>0 DEF NoFill, TypeOK, WorkerInv, Critical
  <2>2. WorkerInv(w)'
    BY <1>0, <2>1, DiskInvUnchanged DEF WorkerInv, Critical, Applying, Deciding
  <2> QED BY <1>5, <2>1, <2>2, LocalStep DEF NoFill, local, TypeOK
<1>6. ASSUME Release(w) \/ Raise(w) \/ Crash(w) PROVE IInv'
  <2>1. /\ pc[w] \in Critical /\ pc'[w] \notin Critical /\ holder = w
        /\ replayed'[w] = {} /\ UNCHANGED <<disk, logs, ledger>>
    BY <1>6, <1>0 DEF Release, Raise, Crash, ForgetLocals, TypeOK, WorkerInv, Critical
  <2>2. WorkerInv(w)'
    BY <2>1 DEF WorkerInv, Critical, Applying, Deciding
  <2> QED BY <1>6, <2>1, <2>2, LocalStep DEF Release, Raise, Crash, ForgetLocals, TypeOK
<1> QED BY <1>1, <1>2, <1>3, <1>4, <1>5, <1>6

\* A new process changes nothing that IInv speaks of.
LEMMA RestartStep ==
    ASSUME TypeOK, IInv, NEW w \in Workers, Restart(w) PROVE IInv'
<1>1. DiskInv' BY DiskInvUnchanged DEF IInv, Restart
<1>2. ASSUME NEW v \in Workers PROVE WorkerInv(v)'
  <2>1. WorkerInv(v) BY DEF IInv
  <2>2. UNCHANGED <<disk, logs, ledger, mem, current, idx, replayed>>
    BY DEF Restart, local
  <2>3. pc'[v] = pc[v] \/ (pc[v] = "dead" /\ pc'[v] = "idle")
    BY DEF Restart, Goto, TypeOK
  <2>4. pc'[v] \in Critical => holder' = v
    BY <2>1, <2>3 DEF Restart, WorkerInv, Critical
  <2> QED BY <2>1, <2>2, <2>3, <2>4, DiskInvUnchanged
          DEF IInv, WorkerInv, Critical, Applying, Deciding
<1> QED BY <1>1, <1>2 DEF IInv

-----------------------------------------------------------------------------
(* The steps that write, each taken by the owner of the lock                 *)

\* A step of the lock's owner preserves IInv if it preserves the part about the
\* disk and the owner's own part.
LEMMA OwnerStep ==
    ASSUME TypeOK, IInv, NEW w \in Workers, holder = w,
           \A v \in Workers \ {w} : pc'[v] = pc[v] /\ replayed'[v] = replayed[v],
           DiskInv', WorkerInv(w)'
    PROVE  IInv'
<1>1. ASSUME NEW v \in Workers, v # w PROVE WorkerInv(v)'
  BY <1>1, OthersAreOutside, OthersKeepInv
<1> QED BY <1>1 DEF IInv

\* Committing every transaction of a fully applied set, the only prepared ones,
\* preserves the part about the disk and leaves nothing prepared.
LEMMA CommitKeepsDiskInv ==
    ASSUME TypeOK, DiskInv, NEW S \in SUBSET Orders, Prepared \subseteq S,
           \A o \in S : o \in Prepared /\
               \A i \in DOMAIN Writes(o) : Done(o, Writes(o)[i]),
           ledger' = [o \in Orders |-> IF o \in S THEN CommittedRecord ELSE ledger[o]],
           UNCHANGED <<disk, logs>>
    PROVE  DiskInv' /\ Prepared' = {}
<1>1. \A o \in Orders : Status(o)' = IF o \in S THEN "committed" ELSE Status(o)
  BY RecordTypes DEF Status
<1>2. Prepared' = {} BY <1>1 DEF Prepared
<1>3. AtMostOnePrepared' BY <1>2 DEF AtMostOnePrepared
<1>4. ASSUME NEW o \in S
      PROVE  /\ \A f \in Files : Touches(o, f) => o \in disk[f]
             /\ \A l \in Logs : Touches(o, l) => logs[l][o] = 1
  BY <1>4, TargetType DEF Touches, Done, Files, SharedFiles, Logs
<1>5. ExactlyOnce'
  <2> SUFFICES ASSUME NEW o \in Orders
               PROVE  /\ Status(o)' = "committed" =>
                            /\ \A f \in Files : Touches(o, f) => o \in disk[f]
                            /\ \A l \in Logs : Touches(o, l) => logs[l][o] = 1
                      /\ Status(o)' = "none" =>
                            /\ \A f \in Files : o \notin disk[f]
                            /\ \A l \in Logs : logs[l][o] = 0
                      /\ \A l \in Logs : logs[l][o] <= 1
    BY DEF ExactlyOnce
  <2> QED BY <1>1, <1>4 DEF DiskInv, ExactlyOnce
<1>6. (\A f \in Files : \A o \in disk[f] : Touches(o, f))' BY DEF DiskInv
<1> QED BY <1>2, <1>3, <1>5, <1>6 DEF DiskInv

\* Saving the ledger after recovery commits what was replayed.
LEMMA SaveRecoveredStep ==
    ASSUME TypeOK, IInv, NEW w \in Workers, SaveRecovered(w) PROVE IInv'
<1>0. WorkerInv(w) /\ DiskInv BY DEF IInv
<1>1. /\ pc[w] = "recover" /\ pc'[w] = "read" /\ holder = w /\ holder' = holder
      /\ Prepared \subseteq replayed[w] /\ UNCHANGED <<disk, logs, replayed>>
  BY <1>0 DEF SaveRecovered, local, TypeOK, WorkerInv, Critical, Goto
<1>2. replayed[w] \in SUBSET Orders BY DEF TypeOK
<1>3. \A o \in replayed[w] : o \in Prepared /\
          \A i \in DOMAIN Writes(o) : Done(o, Writes(o)[i])
  BY <1>0, <1>1 DEF WorkerInv
<1>4. DiskInv' /\ Prepared' = {}
  BY <1>0, <1>1, <1>2, <1>3, CommitKeepsDiskInv DEF SaveRecovered
<1>5. WorkerInv(w)' BY <1>1, <1>4 DEF WorkerInv, Critical, Applying, Deciding
<1> QED BY <1>1, <1>4, <1>5, OwnerStep DEF SaveRecovered, Goto, TypeOK

\* Marking the worker's own transaction committed.
LEMMA MarkCommittedStep ==
    ASSUME TypeOK, IInv, NEW w \in Workers, MarkCommitted(w) PROVE IInv'
<1>0. WorkerInv(w) /\ DiskInv BY DEF IInv
<1> DEFINE o == current[w]
<1>1. /\ pc[w] = "apply" /\ pc'[w] = "release" /\ holder = w /\ holder' = holder
      /\ UNCHANGED <<disk, logs, replayed>> /\ o \in Orders
  BY <1>0 DEF MarkCommitted, local, TypeOK, WorkerInv, Critical, Goto
<1>2. o \in Prepared BY <1>0, <1>1 DEF WorkerInv, Applying
<1>3. \A i \in DOMAIN Writes(o) : Done(o, Writes(o)[i])
  <2>1. \A i \in DOMAIN Writes(o) : i < idx[w]
    BY WritesType DEF MarkCommitted, Applied, TypeOK
  <2> QED BY <1>0, <1>1, <2>1 DEF WorkerInv, Applying
<1>4. Prepared \subseteq {o} BY <1>0, <1>2 DEF DiskInv, AtMostOnePrepared
<1>5. ledger' = [q \in Orders |-> IF q \in {o} THEN CommittedRecord ELSE ledger[q]]
  BY DEF MarkCommitted, TypeOK
<1> HIDE DEF o
<1>6. DiskInv' /\ Prepared' = {}
  BY <1>0, <1>1, <1>2, <1>3, <1>4, <1>5, CommitKeepsDiskInv
<1>7. WorkerInv(w)' BY <1>1, <1>6 DEF WorkerInv, Critical, Applying, Deciding
<1> QED BY <1>1, <1>6, <1>7, OwnerStep DEF MarkCommitted, Goto, TypeOK

\* Saving the orders of a broker puts back what is there already.
LEMMA SaveOrdersKeepsDisk ==
    ASSUME TypeOK, IInv, NEW w \in Workers, SaveOrders(w) PROVE disk' = disk
<1>1. WorkerInv(w) /\ DiskInv BY DEF IInv
<1>2. pc[w] = "save" BY DEF SaveOrders
<1>3. Prepared = {} BY <1>1, <1>2 DEF WorkerInv
<1>4. PICK f \in Files : disk' = [disk EXCEPT ![f] = mem[w][f]]
  BY WritesType DEF SaveOrders, TypeOK
<1>5. mem[w][f] = disk[f]
  BY <1>1, <1>2, <1>3, CleanDisk DEF WorkerInv, Deciding
<1> QED BY <1>4, <1>5 DEF TypeOK

LEMMA SaveOrdersStep ==
    ASSUME TypeOK, IInv, NEW w \in Workers, SaveOrders(w) PROVE IInv'
<1>0. WorkerInv(w) /\ DiskInv BY DEF IInv
<1>1. /\ pc[w] = "save" /\ pc'[w] = "fill" /\ holder = w /\ holder' = holder
      /\ UNCHANGED <<disk, logs, ledger, mem, replayed>>
  BY <1>0, SaveOrdersKeepsDisk
  DEF SaveOrders, local, TypeOK, WorkerInv, Critical, Goto
<1>2. WorkerInv(w)'
  BY <1>0, <1>1, DiskInvUnchanged DEF WorkerInv, Critical, Applying, Deciding
<1> QED BY <1>1, <1>2, LocalStep DEF SaveOrders, Goto, TypeOK

\* Preparing a fill: its snapshots add it to the committed fills.
LEMMA CommitFillStep ==
    ASSUME TypeOK, IInv, NEW w \in Workers, CommitFill(w) PROVE IInv'
<1>0. WorkerInv(w) /\ DiskInv BY DEF IInv
<1> DEFINE o == task[w]
<1>1. /\ pc[w] = "fill" /\ holder = w /\ holder' = holder /\ o \in Orders
      /\ UNCHANGED <<disk, logs, mem, replayed>>
  BY <1>0 DEF CommitFill, TypeOK, WorkerInv, Critical
<1>2. Prepared = {} BY <1>0, <1>1 DEF WorkerInv
<1>3. Status(o) \in {"none", "committed"}
  BY <1>1, <1>2 DEF Prepared, Status, TypeOK, Statuses
<1>4. \A v \in Workers \ {w} : pc'[v] = pc[v] /\ replayed'[v] = replayed[v]
  BY <1>1 DEF CommitFill, Goto, TypeOK
<1>5. CASE Status(o) = "committed"
  <2>1. pc'[w] = "release" /\ UNCHANGED ledger
    BY <1>5 DEF CommitFill, Goto, TypeOK
  <2>2. WorkerInv(w)'
    BY <1>0, <1>1, <2>1, DiskInvUnchanged DEF WorkerInv, Critical, Applying, Deciding
  <2> QED BY <1>1, <1>4, <2>1, <2>2, LocalStep
<1>6. CASE Status(o) = "none"
  <2> DEFINE record == [status |-> "prepared", snapshot |-> Snapshot(w, o)]
  <2>1. /\ ledger' = [ledger EXCEPT ![o] = record]
        /\ pc'[w] = "apply" /\ current'[w] = o /\ idx'[w] = 1
    BY <1>6 DEF CommitFill, Goto, TypeOK
  <2>2. \A q \in Orders : Status(q)' = IF q = o THEN "prepared" ELSE Status(q)
    BY <1>1, <2>1 DEF Status, TypeOK
  <2>3. Prepared' = {o}
    BY <1>1, <1>2, <2>2 DEF Prepared
  <2>4. \A f \in Files : CommittedIn(f)' = CommittedIn(f)
    BY <1>6, <2>2 DEF CommittedIn
  <2>5. \A f \in Files : Touches(o, f) => record.snapshot[f] = CommittedIn(f) \cup {o}
    BY <1>0, <1>1 DEF Snapshot, WorkerInv, Deciding
  <2>6. ledger'[o] = record BY <1>1, <2>1 DEF TypeOK
  <2> HIDE DEF record, o
  <2>7. ExactlyOnce'
    BY <1>0, <1>1, <1>6, <2>2 DEF DiskInv, ExactlyOnce
  <2>8. DiskInv'
    BY <1>0, <1>1, <2>3, <2>4, <2>5, <2>6, <2>7 DEF DiskInv, AtMostOnePrepared
  <2>9. \A i \in DOMAIN Writes(o) : ~(i < 1) BY <1>1, WritesType
  <2>10. WorkerInv(w)'
    BY <1>0, <1>1, <2>1, <2>3, <2>9 DEF WorkerInv, Critical, Applying, Deciding
  <2> QED BY <1>1, <1>4, <2>8, <2>10, OwnerStep
<1> QED BY <1>3, <1>5, <1>6

\* One write of the transaction being applied or replayed.  The file it
\* replaces shows nothing but committed fills and, perhaps, this one already.
LEMMA ApplyWriteKeepsFills ==
    ASSUME TypeOK, DiskInv, NEW o \in Prepared, NEW t \in Files \cup Logs,
           Touches(o, t), WriteTarget(o, t)
    PROVE  /\ \A f \in Files : disk[f] \subseteq disk'[f]
           /\ \A f \in Files : disk'[f] \subseteq disk[f] \cup CommittedIn(f) \cup {o}
           /\ \A f \in Files : o \in disk'[f] => o \in disk[f] \/ f = t
           /\ \A l \in Logs, q \in Orders :
                 logs'[l][q] = IF l = t /\ t \notin Files /\ q = o THEN 1 ELSE logs[l][q]
           /\ Done(o, t)'
<1>0. o \in Orders BY DEF Prepared
<1>1. CASE t \in Files
  <2>1. disk' = [disk EXCEPT ![t] = CommittedIn(t) \cup {o}] /\ logs' = logs
    BY <1>1 DEF WriteTarget, DiskInv
  <2>2. disk[t] \subseteq CommittedIn(t) \cup {o}
    BY <1>0, <1>1 DEF DiskInv, ExactlyOnce, AtMostOnePrepared, Prepared, CommittedIn,
                TypeOK, Statuses, Status
  <2> QED BY <1>0, <1>1, <2>1, <2>2 DEF Done, TypeOK
<1>2. CASE t \notin Files
  <2>1. t \in Logs BY <1>2
  <2>2. disk' = disk BY <1>2 DEF WriteTarget
  <2>3. logs'[t][o] = IF logs[t][o] = 0 THEN 1 ELSE logs[t][o]
    BY <1>0, <1>2, <2>1 DEF WriteTarget, TypeOK
  <2>4. logs[t][o] \in Nat /\ logs[t][o] <= 1
    BY <1>0, <2>1 DEF DiskInv, ExactlyOnce, TypeOK
  <2>5. logs'[t][o] = 1 BY <2>3, <2>4
  <2>6. \A l \in Logs, q \in Orders :
          logs'[l][q] = IF l = t /\ q = o THEN logs'[t][o] ELSE logs[l][q]
    BY <1>0, <1>2, <2>1 DEF WriteTarget, TypeOK
  <2> QED BY <1>2, <2>1, <2>2, <2>5, <2>6 DEF Done
<1> QED BY <1>1, <1>2

\* A record does not change while its writes are applied.
LEMMA LedgerUnchanged ==
    ASSUME UNCHANGED ledger
    PROVE  /\ \A o : Status(o)' = Status(o)
           /\ Prepared' = Prepared
           /\ \A f : CommittedIn(f)' = CommittedIn(f)
<1>1. \A o : Status(o)' = Status(o) BY DEF Status
<1> QED BY <1>1 DEF Prepared, CommittedIn

\* Applying one write of the prepared transaction preserves IInv.
LEMMA ApplyWriteStep ==
    ASSUME TypeOK, IInv, NEW w \in Workers, ApplyWrite(w) PROVE IInv'
<1>0. WorkerInv(w) /\ DiskInv BY DEF IInv
<1>1. /\ pc[w] \in Applying /\ pc' = pc /\ holder = w /\ holder' = holder
      /\ UNCHANGED <<ledger, mem, current, replayed>> /\ idx'[w] = idx[w] + 1
      /\ current[w] \in Orders /\ idx[w] \in DOMAIN Writes(current[w])
  BY <1>0 DEF ApplyWrite, TypeOK, WorkerInv, Critical, Applying
<1>2. PICK o \in Prepared : o = current[w] BY <1>0, <1>1 DEF WorkerInv
<1>3. PICK n \in Nat, t \in Files \cup Logs :
         /\ n = idx[w] /\ n \in DOMAIN Writes(o) /\ t = Writes(o)[n]
         /\ Touches(o, t) /\ WriteTarget(o, t)
  BY <1>1, <1>2, TargetType DEF ApplyWrite, TypeOK
<1>4. /\ \A f \in Files : disk[f] \subseteq disk'[f]
      /\ \A f \in Files : disk'[f] \subseteq disk[f] \cup CommittedIn(f) \cup {o}
      /\ \A f \in Files : o \in disk'[f] => o \in disk[f] \/ f = t
      /\ \A l \in Logs, q \in Orders :
            logs'[l][q] = IF l = t /\ t \notin Files /\ q = o THEN 1 ELSE logs[l][q]
      /\ Done(o, t)'
  BY <1>0, <1>2, <1>3, ApplyWriteKeepsFills
<1>5. /\ \A q : Status(q)' = Status(q)
      /\ Prepared' = Prepared
      /\ \A f : CommittedIn(f)' = CommittedIn(f)
  BY <1>1, LedgerUnchanged
<1>6. \A i \in DOMAIN Writes(o) : Done(o, Writes(o)[i]) => Done(o, Writes(o)[i])'
  BY <1>2, <1>4, TargetType DEF Done, Prepared
<1>7. DiskInv'
  <2>1. AtMostOnePrepared' BY <1>0, <1>5 DEF DiskInv, AtMostOnePrepared
  <2>2. \A q \in Orders :
          /\ Status(q) = "committed" =>
                /\ \A f \in Files : Touches(q, f) => q \in disk'[f]
                /\ \A l \in Logs : Touches(q, l) => logs'[l][q] = 1
          /\ Status(q) = "none" =>
                /\ \A f \in Files : q \notin disk'[f]
                /\ \A l \in Logs : logs'[l][q] = 0
          /\ \A l \in Logs : logs'[l][q] <= 1
    BY <1>0, <1>2, <1>4 DEF DiskInv, ExactlyOnce, Prepared, CommittedIn
  <2>3. ExactlyOnce' BY <1>5, <2>2 DEF ExactlyOnce
  <2>4. (\A f \in Files : \A q \in disk[f] : Touches(q, f))'
    BY <1>0, <1>3, <1>4 DEF DiskInv, CommittedIn
  <2>5. (\A q \in Prepared : \A f \in Files :
            Touches(q, f) => ledger[q].snapshot[f] = CommittedIn(f) \cup {q})'
    BY <1>0, <1>1, <1>5 DEF DiskInv
  <2> QED BY <2>1, <2>3, <2>4, <2>5 DEF DiskInv
<1>8. WorkerInv(w)'
  <2>1. \A i \in DOMAIN Writes(o) :
          i < n + 1 => Done(o, Writes(o)[i])'
    <3> SUFFICES ASSUME NEW i \in DOMAIN Writes(o), i < n + 1
                 PROVE  Done(o, Writes(o)[i])'
      OBVIOUS
    <3>1. i \in Nat BY WritesType DEF Prepared
    <3>2. CASE i = n BY <1>3, <1>4, <3>2
    <3>3. CASE i < n BY <1>0, <1>1, <1>2, <1>3, <1>6, <3>3 DEF WorkerInv
    <3> QED BY <3>1, <3>2, <3>3
  <2>2. pc[w] = "replay" => \A q \in replayed[w] :
          q \in Prepared /\ \A i \in DOMAIN Writes(q) : Done(q, Writes(q)[i])'
    <3>1. pc[w] = "replay" => \A q \in replayed[w] : q \in Prepared /\
             \A i \in DOMAIN Writes(q) : Done(q, Writes(q)[i])
      BY <1>0 DEF WorkerInv
    <3>2. \A q \in Prepared : q = o
      BY <1>0, <1>2 DEF DiskInv, AtMostOnePrepared
    <3> QED BY <1>6, <3>1, <3>2
  <2> QED BY <1>0, <1>1, <1>2, <1>3, <1>5, <2>1, <2>2
          DEF WorkerInv, Critical, Applying, Deciding
<1> QED BY <1>1, <1>7, <1>8, OwnerStep

\* IInv is preserved by every step.
LEMMA IInvStep == TypeOK /\ IInv /\ [Next]_vars => IInv'
<1> SUFFICES ASSUME TypeOK, IInv, [Next]_vars PROVE IInv'
  OBVIOUS
<1>1. CASE UNCHANGED vars
  <2>1. DiskInv' BY <1>1, DiskInvUnchanged DEF IInv, vars
  <2>2. ASSUME NEW v \in Workers PROVE WorkerInv(v)'
    BY <1>1, DiskInvUnchanged DEF IInv, vars, WorkerInv
  <2> QED BY <2>1, <2>2 DEF IInv
<1>2. ASSUME NEW w \in Workers, Run(w) \/ Raise(w) \/ Crash(w) \/ Restart(w)
      PROVE  IInv'
  BY <1>2, LocalSteps, RestartStep, SaveRecoveredStep, MarkCommittedStep,
     SaveOrdersStep, CommitFillStep, ApplyWriteStep
  DEF Run, Recover, Operate
<1> QED BY <1>1, <1>2 DEF Next

LEMMA InitIInv == Init => IInv
<1> SUFFICES ASSUME Init PROVE IInv
  OBVIOUS
<1>1. \A o \in Orders : Status(o) = "none" BY DEF Init, Status, NoRecord
<1>2. Prepared = {} BY <1>1 DEF Prepared
<1>3. ExactlyOnce BY <1>1 DEF ExactlyOnce, Init
<1>4. DiskInv BY <1>2, <1>3 DEF DiskInv, AtMostOnePrepared, Init
<1>5. \A w \in Workers : WorkerInv(w)
  BY DEF Init, WorkerInv, Critical, Applying, Deciding
<1> QED BY <1>4, <1>5 DEF IInv

\* The strengthening holds in every reachable state.
THEOREM IInvHolds == Spec => [](TypeOK /\ IInv)
<1>1. Init => TypeOK
  BY AnyOrderType, RecordTypes, MaxFaultsAssumption DEF Init, TypeOK, Critical
<1> QED BY <1>1, InitIInv, TypeStep, IInvStep, PTL DEF Spec

\* recover_locked never has two transactions to replay.
THEOREM AtMostOnePreparedHolds == Spec => []AtMostOnePrepared
<1>1. IInv => AtMostOnePrepared BY DEF IInv, DiskInv
<1> QED BY <1>1, IInvHolds, PTL

\* A committed fill is in every file and once in every log it touches, and no
\* fill shows anywhere before it is logged ahead.
THEOREM ExactlyOnceHolds == Spec => []ExactlyOnce
<1>1. IInv => ExactlyOnce BY DEF IInv, DiskInv
<1> QED BY <1>1, IInvHolds, PTL

\* What a worker decides on shows all committed fills and nothing else.
THEOREM DecidesOnWholeFillsHolds == Spec => []DecidesOnWholeFills
<1>1. IInv => DecidesOnWholeFills
  BY DEF IInv, WorkerInv, DecidesOnWholeFills, CommittedIn
<1> QED BY <1>1, IInvHolds, PTL

\* No step takes a fill out of a state file again.
LEMMA KeepsFills ==
    ASSUME TypeOK, IInv, [Next]_vars, NEW f \in Files
    PROVE  disk[f] \subseteq disk'[f]
<1>1. ASSUME NEW w \in Workers, SaveOrders(w) PROVE disk' = disk
  BY <1>1, SaveOrdersKeepsDisk
<1>2. ASSUME NEW w \in Workers, ApplyWrite(w) PROVE disk[f] \subseteq disk'[f]
  <2>1. WorkerInv(w) /\ DiskInv BY DEF IInv
  <2>2. current[w] \in Prepared BY <1>2, <2>1 DEF ApplyWrite, WorkerInv
  <2>3. PICK t \in Files \cup Logs :
          Touches(current[w], t) /\ WriteTarget(current[w], t)
    BY <1>2, TargetType DEF ApplyWrite, TypeOK
  <2> QED BY <2>1, <2>2, <2>3, ApplyWriteKeepsFills
<1>3. CASE UNCHANGED vars BY <1>3 DEF vars
<1> QED
  BY <1>1, <1>2, <1>3
  DEF Next, Run, Recover, Operate, Enter, ReplayNext, SaveRecovered, Replayed,
      ReadState, NoFill, CommitFill, MarkCommitted, Release, Raise, Crash, Restart

\* A fill that reached a state file stays in it.
THEOREM NoLostFillHolds == Spec => NoLostFill
<1>1. TypeOK /\ IInv /\ [Next]_vars => [\A f \in Files : disk[f] \subseteq disk'[f]]_vars
  BY KeepsFills
<1> QED BY <1>1, IInvHolds, PTL DEF Spec, NoLostFill

-----------------------------------------------------------------------------
(* The refinement of AtomicFill                                              *)

\* The view of a worker, and what it is when the account has just been read.
View(w) ==
    IF pc[w] \in Deciding
    THEN [read |-> TRUE, fills |-> {o \in Orders : \E f \in Files : o \in mem[w][f]}]
    ELSE [read |-> FALSE, fills |-> {}]

\* A concatenation starts as its first part does.
LEMMA ConcatStart ==
    ASSUME NEW T, NEW s \in Seq(T), NEW t \in Seq(T), Len(s) = 5
    PROVE  (s \o t)[1] = s[1] /\ 1 \in DOMAIN (s \o t)
<1>1. Len(t) \in Nat /\ s \o t \in Seq(T) OBVIOUS
<1>2. /\ Len(s \o t) = Len(s) + Len(t)
      /\ \A i \in 1 .. Len(s) + Len(t) :
            (s \o t)[i] = IF i <= Len(s) THEN s[i] ELSE t[i - Len(s)]
  BY ConcatProperties
<1>3. 1 \in 1 .. Len(s) + Len(t) /\ 1 <= Len(s) BY <1>1
<1> QED BY <1>1, <1>2, <1>3

\* Every order has a file, so the files together show all committed fills.
LEMMA FillsInFiles ==
    ASSUME NEW F, \A f \in Files : F[f] = CommittedIn(f)
    PROVE  {o \in Orders : \E f \in Files : o \in F[f]}
             = {o \in Orders : Status(o) = "committed"}
<1>1. ASSUME NEW o \in Orders PROVE Touches(o, "account")
  <2>1. Len(StateWrites(o)) = 5 /\ StateWrites(o)[1] = "account"
    BY DEF StateWrites
  <2>2. Writes(o)[1] = StateWrites(o)[1] /\ 1 \in DOMAIN Writes(o)
    BY <2>1, WritesType, ConcatStart DEF Writes
  <2> QED BY <2>1, <2>2 DEF Touches
<1>2. "account" \in Files BY DEF Files, SharedFiles
<1> QED BY <1>1, <1>2 DEF CommittedIn

\* A step that changes one worker's view changes nobody else's.
LEMMA ViewOfOne ==
    ASSUME NEW w \in Workers,
           \A v \in Workers \ {w} : pc'[v] = pc[v] /\ mem'[v] = mem[v]
    PROVE  AbstractView' = [AbstractView EXCEPT ![w] = View(w)']
<1>1. \A v \in Workers : AbstractView'[v] = View(v)' BY DEF AbstractView, View
<1>2. \A v \in Workers : AbstractView[v] = View(v) BY DEF AbstractView, View
<1>3. \A v \in Workers \ {w} : View(v)' = View(v) BY DEF View
<1>4. AbstractView' = [v \in Workers |-> AbstractView'[v]] BY DEF AbstractView
<1>5. AbstractView = [v \in Workers |-> AbstractView[v]] BY DEF AbstractView
<1> HIDE DEF AbstractView
<1> QED BY <1>1, <1>2, <1>3, <1>4, <1>5

\* A step that ends outside the deciding states, and prepares nothing, forgets.
LEMMA ForgetStep ==
    ASSUME NEW w \in Workers,
           \A v \in Workers \ {w} : pc'[v] = pc[v] /\ mem'[v] = mem[v],
           pc'[w] \notin Deciding, Applied0' = Applied0
    PROVE  Abstract!Forget(w)
<1>1. AbstractView' = [AbstractView EXCEPT ![w] = View(w)'] BY ViewOfOne
<1>2. View(w)' = [read |-> FALSE, fills |-> {}] BY DEF View
<1> QED BY <1>1, <1>2 DEF Abstract!Forget, Abstract!Unread

LEMMA Applied0Unchanged == ASSUME UNCHANGED ledger PROVE Applied0' = Applied0
BY DEF Applied0, Status

\* Every step of the log is a step of AtomicFill, or a stutter.
LEMMA AbstractStep ==
    ASSUME TypeOK, IInv, [Next]_vars PROVE [Abstract!Next]_Abstract!vars
<1>1. ASSUME NEW w \in Workers, NEW o \in Orders, Enter(w, o) \/ ReplayNext(w, o)
      PROVE  Abstract!Forget(w)
  BY <1>1, ForgetStep, Applied0Unchanged
  DEF Enter, ReplayNext, Goto, TypeOK, Deciding
<1>2. ASSUME NEW w \in Workers, Replayed(w) \/ NoFill(w) \/ ApplyWrite(w)
      PROVE  Abstract!Forget(w)
  BY <1>2, ForgetStep, Applied0Unchanged
  DEF Replayed, NoFill, ApplyWrite, local, Goto, TypeOK, Deciding, Applying
<1>3. ASSUME NEW w \in Workers, Release(w) \/ Raise(w) \/ Crash(w) \/ Restart(w)
      PROVE  Abstract!Forget(w)
  BY <1>3, ForgetStep, Applied0Unchanged
  DEF Release, Raise, Crash, Restart, ForgetLocals, local, Goto, TypeOK, Deciding
<1>4. ASSUME NEW w \in Workers, SaveRecovered(w) PROVE Abstract!Forget(w)
  <2>1. WorkerInv(w) /\ pc[w] = "recover" BY <1>4 DEF IInv, SaveRecovered
  <2>2. \A o \in replayed[w] : Status(o) = "prepared"
    BY <2>1 DEF WorkerInv, Prepared
  <2>3. \A o \in Orders : Status(o)' = IF o \in replayed[w] THEN "committed" ELSE Status(o)
    BY <1>4, RecordTypes DEF SaveRecovered, Status
  <2>4. Applied0' = Applied0 BY <2>2, <2>3 DEF Applied0
  <2> QED BY <1>4, <2>4, ForgetStep DEF SaveRecovered, local, Goto, TypeOK, Deciding
<1>5. ASSUME NEW w \in Workers, MarkCommitted(w) PROVE Abstract!Forget(w)
  <2>1. WorkerInv(w) /\ pc[w] = "apply" BY <1>5 DEF IInv, MarkCommitted
  <2>2. current[w] \in Orders /\ Status(current[w]) = "prepared"
    BY <2>1 DEF WorkerInv, Applying, Prepared
  <2>3. \A o \in Orders : Status(o)' = IF o = current[w] THEN "committed" ELSE Status(o)
    BY <1>5, <2>2, RecordTypes DEF MarkCommitted, Status, TypeOK
  <2>4. Applied0' = Applied0 BY <2>2, <2>3 DEF Applied0
  <2> QED BY <1>5, <2>4, ForgetStep DEF MarkCommitted, local, Goto, TypeOK, Deciding
<1>6. ASSUME NEW w \in Workers, SaveOrders(w) PROVE UNCHANGED Abstract!vars
  <2>1. AbstractView' = AbstractView
    <3>1. \A v \in Workers : View(v)' = View(v)
      BY <1>6 DEF SaveOrders, local, Goto, TypeOK, View, Deciding
    <3>2. AbstractView = [v \in Workers |-> View(v)] BY DEF AbstractView, View
    <3>3. AbstractView' = [v \in Workers |-> View(v)'] BY DEF AbstractView, View
    <3> QED BY <3>1, <3>2, <3>3
  <2> QED BY <1>6, <2>1, Applied0Unchanged DEF Abstract!vars, SaveOrders
<1>7. ASSUME NEW w \in Workers, ReadState(w) PROVE Abstract!Read(w) \/ Abstract!Forget(w)
  <2>1. WorkerInv(w) /\ DiskInv /\ pc[w] = "read" BY <1>7 DEF IInv, ReadState
  <2>2. Prepared = {} BY <2>1 DEF WorkerInv
  <2>3. \A f \in Files : disk[f] = CommittedIn(f) BY <2>1, <2>2, CleanDisk
  <2>4. {o \in Orders : \E f \in Files : o \in disk[f]} = Applied0
    <3>1. \A o \in Orders : Status(o) \in {"none", "committed"}
      BY <2>2 DEF Prepared, Status, TypeOK, Statuses
    <3> QED BY <2>3, <3>1, FillsInFiles DEF Applied0
  <2>5. /\ pc'[w] \in {"release", "save"} /\ mem'[w] = disk
        /\ \A v \in Workers \ {w} : pc'[v] = pc[v] /\ mem'[v] = mem[v]
        /\ Applied0' = Applied0
    BY <1>7, Applied0Unchanged DEF ReadState, Goto, TypeOK
  <2>6. CASE pc'[w] = "release" BY <2>5, <2>6, ForgetStep DEF Deciding
  <2>7. CASE pc'[w] = "save"
    <3>1. View(w)' = [read |-> TRUE, fills |-> Applied0]
      BY <2>4, <2>5, <2>7 DEF View, Deciding
    <3> QED BY <2>5, <3>1, ViewOfOne DEF Abstract!Read, Abstract!Seen
  <2> QED BY <2>5, <2>6, <2>7
<1>8. ASSUME NEW w \in Workers, CommitFill(w)
      PROVE  Abstract!Forget(w) \/ \E o \in Orders : Abstract!Fill(w, o)
  <2>1. WorkerInv(w) /\ pc[w] = "fill" BY <1>8 DEF IInv, CommitFill
  <2>2. PICK o \in Orders : o = task[w] BY DEF TypeOK
  <2>3. Prepared = {} BY <2>1 DEF WorkerInv
  <2>4. \A q \in Orders : Status(q) \in {"none", "committed"}
    BY <2>3 DEF Prepared, Status, TypeOK, Statuses
  <2>5. /\ \A v \in Workers \ {w} : pc'[v] = pc[v] /\ mem'[v] = mem[v]
        /\ pc'[w] \notin Deciding
    BY <1>8 DEF CommitFill, Goto, TypeOK, Deciding
  <2>6. CASE Status(o) = "committed"
    <3>1. UNCHANGED ledger BY <1>8, <2>2, <2>6 DEF CommitFill
    <3> QED BY <2>5, <3>1, ForgetStep, Applied0Unchanged
  <2>7. CASE Status(o) = "none"
    <3>1. ledger' = [ledger EXCEPT ![o] =
              [status |-> "prepared", snapshot |-> Snapshot(w, o)]]
      BY <1>8, <2>2, <2>7 DEF CommitFill
    <3>2. \A q \in Orders : Status(q)' = IF q = o THEN "prepared" ELSE Status(q)
      BY <2>2, <3>1 DEF Status, TypeOK
    <3>3. Applied0' = Applied0 \cup {o} /\ o \notin Applied0
      BY <2>7, <3>2 DEF Applied0
    <3>4. AbstractView[w] = [read |-> TRUE, fills |-> Applied0]
      <4>1. \A f \in Files : mem[w][f] = CommittedIn(f)
        BY <2>1 DEF WorkerInv, Deciding
      <4>2. {q \in Orders : \E f \in Files : q \in mem[w][f]} = Applied0
        BY <2>4, <4>1, FillsInFiles DEF Applied0
      <4> QED BY <2>1, <4>2 DEF AbstractView, Deciding
    <3>5. View(w)' = [read |-> FALSE, fills |-> {}] BY <2>5 DEF View
    <3>6. Abstract!Fill(w, o)
      BY <2>5, <3>3, <3>4, <3>5, ViewOfOne
      DEF Abstract!Fill, Abstract!Seen, Abstract!Unread
    <3> QED BY <3>6
  <2> QED BY <2>2, <2>4, <2>6, <2>7
<1>9. CASE UNCHANGED vars
  BY <1>9 DEF vars, Abstract!vars, Applied0, AbstractView, Status
<1> QED
  BY <1>1, <1>2, <1>3, <1>4, <1>5, <1>6, <1>7, <1>8, <1>9
  DEF Next, Run, Recover, Operate, Abstract!Next

\* The log with its recovery, under crashes between any two writes, implements
\* fills that are atomic and are each decided on an up-to-date account.
THEOREM FillWalImplementsAtomicFill == Spec => ImplementsAtomicFill
<1>1. Init => Abstract!Init
  <2> SUFFICES ASSUME Init PROVE Abstract!Init
    OBVIOUS
  <2>1. Applied0 = {} BY DEF Init, Applied0, Status, NoRecord
  <2>2. AbstractView = [w \in Workers |-> [read |-> FALSE, fills |-> {}]]
    BY DEF Init, AbstractView, Deciding
  <2> QED BY <2>1, <2>2 DEF Abstract!Init, Abstract!Unread
<1>2. TypeOK /\ IInv /\ [Next]_vars => [Abstract!Next]_Abstract!vars
  BY AbstractStep
<1> QED BY <1>1, <1>2, IInvHolds, PTL DEF Spec, ImplementsAtomicFill, Abstract!Spec
=============================================================================
