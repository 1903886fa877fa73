------------------------------ MODULE EndOfDay ------------------------------
(***************************************************************************)
(* The end of a trading day: ForwardPaperService.run_once, run_eod_guard   *)
(* and the jobs of serve in scripts/orchestrator/forward_paper_service.py, *)
(* with the cycle and the monitor of the AI gated sleeve.                  *)
(*                                                                         *)
(* Every job is a worker process that holds some accounts while it runs; a *)
(* trigger that meets a conflict is skipped, not queued (JobRunner).  Each *)
(* job reads the clock once, at its start, and acts on that reading until  *)
(* it ends, when the market may have come closer to its close.  The main   *)
(* account has an equity and an option line, the AI sleeve is represented  *)
(* by shares; a line stands for one symbol.                                *)
(*                                                                         *)
(* Time counts the units left until the close.  What a price triggers is a *)
(* choice.  The allocator, whose exits have a model of their own           *)
(* (AllocatorPlan), appears here as the account that its jobs occupy.      *)
(*                                                                         *)
(* The operators named Fault... are the seeded faults of PROJECT.json.     *)
(***************************************************************************)
EXTENDS Integers, Sequences

CONSTANTS
    Enabled,   \* the jobs of the strategies that are enabled
    Open,      \* units of the session that are modelled
    Window,    \* exit_before_close_minutes
    Cutoff,    \* minimum_minutes_to_close_for_research
    OrderLife,    \* open_order_expiry_seconds
    Deadline,  \* job -> units after which its worker is killed
    Oldest,    \* bound on the age of an order: those of an earlier day have it
    MaxFaults  \* bound on the workers that die and the quotes that are missing

DayLines == {"equity", "option", "ai"}
IntervalJobs == {"forward", "ai_monitor", "allocator_monitor", "eod_guard"}
HourlyJobs == {"catalyst", "ai_gated", "allocator_intraday"}
DayJobs == IntervalJobs \cup HourlyJobs

DayConstantsOK ==
    /\ Enabled \subseteq DayJobs
    /\ Open \in Nat /\ Window \in 1..Open /\ Cutoff \in Window..Open /\ OrderLife \in Nat \ {0}
    /\ Deadline \in [DayJobs -> Nat]
    /\ Oldest \in Nat /\ \A j \in DayJobs : OrderLife + Deadline[j] <= Oldest
    /\ MaxFaults \in Nat

\* What FlatAtClose needs of the deadlines: a guard or a monitor that starts before
\* the close ends before it, and the jobs that do not sell leave the accounts in time.
InTime ==
    /\ {"forward", "ai_monitor"} \subseteq Enabled
    /\ Cutoff < Open
    /\ Deadline["eod_guard"] = 0 /\ Deadline["ai_monitor"] = 0
    /\ Deadline["forward"] < Window
    /\ Deadline["catalyst"] < Cutoff /\ Deadline["ai_gated"] < Cutoff

VARIABLES
    left,    \* units left until the close, 0 when the market is closed
    due,     \* triggers that fire in this unit
    ran,     \* hourly jobs that had their trigger today
    run,     \* job -> what its worker has still to do
    held,    \* line -> position
    resting, \* line -> age of an entry order that is open, or None
    stuck,   \* lines with an exit order that a dead worker left in "created"
    guarded, \* a guard that started in the window had the time it needs
    marred,  \* a fault has happened today
    faults

dayVars == <<left, due, ran, run, held, resting, stuck, guarded, marred, faults>>

AccountsOf(j) ==
    CASE j = "forward" -> {"main_account"}
      [] j = "catalyst" -> {"main_account", "evidence_store"}
      [] j = "ai_gated" -> {"ai_account", "evidence_store"}
      [] j = "ai_monitor" -> {"ai_account"}
      [] j = "allocator_intraday" -> {"allocator_account", "evidence_store"}
      [] j = "allocator_monitor" -> {"allocator_account"}
      [] j = "eod_guard" -> {"main_account", "ai_account", "allocator_account"}

NotResting == -1
Modes == {"early", "late", "preclose"}
Mode ==
    CASE left <= Window -> "preclose"
      [] Window < left /\ left <= Cutoff -> "late"
      [] OTHER -> "early"

NotRunning == [todo |-> <<>>, mode |-> "early", age |-> 0]
Running == {j \in DayJobs : run[j].todo # <<>>}
Contends(j) == \E k \in Running : AccountsOf(j) \cap AccountsOf(k) # {}
Closed == left = 0 /\ Running = {}

DaySteps ==
    ({"process", "exit", "enter"} \X DayLines) \cup ({"cancel", "work"} \X {"equity"})

DayTypeOK ==
    /\ left \in 0..Open
    /\ due \subseteq IntervalJobs /\ ran \subseteq HourlyJobs
    /\ run \in [DayJobs -> [todo : Seq(DaySteps), mode : Modes, age : Nat]]
    /\ \A j \in DayJobs : run[j].age <= Deadline[j]
    /\ held \in [DayLines -> {"none", "today", "overnight"}]
    /\ resting \in [DayLines -> NotResting..Oldest]
    /\ stuck \subseteq {"equity", "ai"}
    /\ guarded \in BOOLEAN /\ marred \in BOOLEAN
    /\ faults \in 0..MaxFaults

DayInit ==
    /\ left = 0 /\ due = {} /\ ran = {}
    /\ run = [j \in DayJobs |-> NotRunning]
    /\ held = [l \in DayLines |-> "none"]
    /\ resting = [l \in DayLines |-> NotResting]
    /\ stuck = {} /\ guarded = FALSE /\ marred = FALSE /\ faults = 0

-----------------------------------------------------------------------------
(* serve: triggers and workers *)

Recovering == \E l \in DayLines : held[l] = "overnight"

\* What a worker that starts now will do, step by step.
Program(j) ==
    CASE j = "forward" /\ Mode = "preclose" ->
            << <<"process", "equity">>, <<"exit", "equity">>,
               <<"process", "option">>, <<"exit", "option">> >>
      [] j = "forward" /\ Mode # "preclose" ->
            << <<"process", "equity">>, <<"exit", "equity">>,
               <<"process", "option">>, <<"exit", "option">>,
               <<"enter", "equity">>, <<"enter", "option">>, <<"work", "equity">> >>
      [] j = "ai_monitor" \/ (j = "ai_gated" /\ Mode # "early") ->
            << <<"process", "ai">>, <<"exit", "ai">> >>
      [] j = "ai_gated" /\ Mode = "early" ->
            << <<"process", "ai">>, <<"exit", "ai">>, <<"work", "equity">>, <<"enter", "ai">> >>
      [] j = "eod_guard" /\ (Mode = "preclose" \/ Recovering) ->
            << <<"cancel", "equity">>, <<"exit", "equity">>, <<"exit", "option">>,
               <<"process", "ai">>, <<"exit", "ai">>, <<"work", "equity">> >>
      [] (j = "eod_guard" /\ Mode # "preclose" /\ ~Recovering) \/
         (j = "catalyst" /\ Mode # "early") -> <<>>
      [] OTHER -> << <<"work", "equity">> >>

Triggered(j) ==
    \/ j \in due
    \/ j \in HourlyJobs \cap Enabled /\ j \notin ran /\ left > 0

Fired(j) == due' = due \ {j} /\ ran' = ran \cup ({j} \cap HourlyJobs)

StartJob(j) ==
    /\ Triggered(j) /\ ~Contends(j)
    /\ Fired(j)
    /\ run' = [run EXCEPT ![j] = [todo |-> Program(j), mode |-> Mode, age |-> 0]]
    /\ guarded' = (guarded \/ (j = "eod_guard" /\ Mode = "preclose" /\ left > Deadline[j]))
    /\ UNCHANGED <<left, held, resting, stuck, marred, faults>>

SkipJob(j) ==
    /\ Triggered(j) /\ Contends(j)
    /\ Fired(j)
    /\ UNCHANGED <<left, run, held, resting, stuck, guarded, marred, faults>>

Mishap == faults < MaxFaults /\ faults' = faults + 1 /\ marred' = TRUE
NoMishap == UNCHANGED <<faults, marred>>

\* The worker runs into its deadline or dies; if that is between create_order and
\* submit_order of an exit in shares, the order stays in "created".
WorkerDies(j) ==
    /\ j \in Running /\ Mishap
    /\ run' = [run EXCEPT ![j] = NotRunning]
    /\ LET l == Head(run[j].todo)[2]
           between == Head(run[j].todo)[1] = "exit" /\ l # "option" /\ held[l] # "none"
       IN stuck' \in {stuck} \cup (IF between THEN {stuck \cup {l}} ELSE {})
    /\ UNCHANGED <<left, due, ran, held, resting, guarded>>

-----------------------------------------------------------------------------
(* The steps of a worker *)

Does(j, what, l) == run[j].todo # <<>> /\ Head(run[j].todo) = <<what, l>>
Went(j) == run' = [run EXCEPT ![j].todo = Tail(@)]

\* The price data, the research and the models take their time.
Work(j) ==
    /\ \E l \in DayLines : Does(j, "work", l)
    /\ Went(j)
    /\ UNCHANGED <<left, due, ran, held, resting, stuck, guarded, marred, faults>>

\* The time that the retry of a resting order goes by: that of the decision, or,
\* for the options of the forward cycle, that of the quotes.
Stale(j, l) == IF l = "option" THEN 0 ELSE run[j].age
RetryAllowed(j, l) == IF l = "option" THEN left > Window ELSE run[j].mode # "preclose"

\* process_open_orders: an order past its expiry expires; another one passes the
\* gate again, and fills, rests on from now, or is rejected.
ProcessLine(j, l) ==
    /\ Does(j, "process", l)
    /\ \/ resting[l] = NotResting /\ UNCHANGED <<held, resting>>
       \/ /\ resting[l] # NotResting
          /\ resting' = [resting EXCEPT ![l] = NotResting]
          /\ UNCHANGED held
       \/ /\ resting[l] # NotResting /\ resting[l] - Stale(j, l) < OrderLife /\ RetryAllowed(j, l)
          /\ \/ /\ resting' = [resting EXCEPT ![l] = Stale(j, l)]
                /\ UNCHANGED held
             \/ /\ resting' = [resting EXCEPT ![l] = NotResting]
                /\ held[l] = "none"
                /\ held' = [held EXCEPT ![l] = "today"]
    /\ Went(j)
    /\ UNCHANGED <<left, due, ran, stuck, guarded, marred, faults>>

\* A position that the worker has to sell.  The forward cycle has no rule before
\* the close for options and none for overnight positions.
MustExit(j, l) ==
    /\ held[l] # "none"
    /\ \/ run[j].mode = "preclose" /\ (j = "forward" => l # "option")
       \/ held[l] = "overnight" /\ j # "forward"

\* Nobody but the guard sells without a rule of price or age.
MayExit(j, l) == held[l] # "none" /\ (MustExit(j, l) \/ j # "eod_guard" \/ l = "ai")

\* After the close a sale is rejected if it is dated by its quote; the shares of
\* the forward cycle are sold at the time of its decision.
TooLate(j, l) == left = 0 /\ ~(j = "forward" /\ l = "equity")

\* The market order fills, unless another exit in these shares is still "created".
SellLine(j, l) ==
    /\ Does(j, "exit", l)
    /\ \/ /\ MayExit(j, l) /\ l \notin stuck
          /\ held' = [held EXCEPT ![l] = "none"]
          /\ NoMishap
       \/ /\ ~MustExit(j, l) \/ l \in stuck \/ TooLate(j, l)
          /\ UNCHANGED held /\ NoMishap
       \/ MustExit(j, l) /\ Mishap /\ UNCHANGED held   \* no usable quote
    /\ Went(j)
    /\ UNCHANGED <<left, due, ran, resting, stuck, guarded>>

Account(l) == IF l = "ai" THEN {"ai"} ELSE {"equity", "option"}

\* Seeded fault: only the positions of the own line block an entry.
FaultBlocked(l) == held[l] = "overnight"

\* _entry_block_reason: "overnight recovery in progress".
Blocked(l) == \E k \in Account(l) : held[k] = "overnight"

\* An entry is priced and checked with the clock at its submission.
Enter(j, l) ==
    /\ Does(j, "enter", l)
    /\ \/ UNCHANGED <<held, resting>>
       \/ /\ held[l] = "none" /\ resting[l] = NotResting /\ ~Blocked(l) /\ left > Window
          /\ \/ held' = [held EXCEPT ![l] = "today"] /\ UNCHANGED resting
             \/ resting' = [resting EXCEPT ![l] = 0] /\ UNCHANGED held
    /\ Went(j)
    /\ UNCHANGED <<left, due, ran, stuck, guarded, marred, faults>>

\* Seeded fault: it cancels the orders that are open, not those in "created".
FaultCancel(j) ==
    /\ Does(j, "cancel", "equity")
    /\ resting' = [l \in DayLines |->
            IF l # "ai" /\ (run[j].mode = "preclose" \/ held[l] = "overnight")
            THEN NotResting ELSE resting[l]]
    /\ Went(j)
    /\ UNCHANGED <<left, due, ran, held, stuck, guarded, marred, faults>>

\* run_eod_guard cancels the orders of the main account that are not final: all of
\* them before the close, otherwise those in the symbols it is about to sell.
CancelOrders(j) ==
    /\ Does(j, "cancel", "equity")
    /\ LET cancelled == {l \in {"equity", "option"} :
                            run[j].mode = "preclose" \/ held[l] = "overnight"}
       IN /\ resting' = [l \in DayLines |-> IF l \in cancelled THEN NotResting ELSE resting[l]]
          /\ stuck' = stuck \ cancelled
    /\ Went(j)
    /\ UNCHANGED <<left, due, ran, held, guarded, marred, faults>>

WorkerStep(j) ==
    \/ Work(j) \/ CancelOrders(j)
    \/ \E l \in DayLines : ProcessLine(j, l) \/ SellLine(j, l) \/ Enter(j, l)

-----------------------------------------------------------------------------
(* The clock *)

Older(age) == IF age = NotResting \/ age = Oldest THEN age ELSE age + 1

\* Time passes when every trigger of this unit was answered; a worker at its
\* deadline ends or is killed first.
UnitPasses ==
    /\ left > 0 /\ due = {}
    /\ \A j \in Running : run[j].age < Deadline[j]
    /\ left' = left - 1
    /\ run' = [j \in DayJobs |->
                IF j \in Running THEN [run[j] EXCEPT !.age = @ + 1] ELSE NotRunning]
    /\ resting' = [l \in DayLines |-> Older(resting[l])]
    /\ due' = IF left' > 0 THEN Enabled \cap IntervalJobs ELSE {}
    /\ UNCHANGED <<ran, held, stuck, guarded, marred, faults>>

\* The next session; the service may have been restarted in between.
NewDay ==
    /\ Closed
    /\ left' = Open /\ due' = {} /\ ran' = {}
    /\ held' = [l \in DayLines |-> IF held[l] = "none" THEN "none" ELSE "overnight"]
    /\ resting' = [l \in DayLines |-> IF resting[l] = NotResting THEN NotResting ELSE Oldest]
    /\ guarded' = FALSE /\ marred' = FALSE
    /\ UNCHANGED <<run, stuck, faults>>

DayNext ==
    \/ UnitPasses \/ NewDay
    \/ \E j \in DayJobs : StartJob(j) \/ SkipJob(j) \/ WorkerDies(j) \/ WorkerStep(j)

DaySpec == DayInit /\ [][DayNext]_dayVars

-----------------------------------------------------------------------------
(* Properties *)

\* "End-of-day flatten" (references/exit_policy.md:8) and overnight recovery: when
\* the market has closed on a day without faults, no shares are left, not even of
\* an earlier day, whatever triggers were skipped and however long the workers
\* took, unless an exit order is stuck; and if a guard got the accounts in time,
\* neither shares nor options of the main account are, whoever traded after it.
FlatAtClose ==
    Closed /\ ~marred =>
        /\ \A l \in {"equity", "ai"} : held[l] = "none" \/ l \in stuck
        /\ guarded => held["equity"] = "none" /\ held["option"] = "none"

\* "overnight recovery in progress": nothing is bought for an account that still
\* holds a position from an earlier day, by a new order or by one that rests.
NoEntryInRecovery ==
    [][\A l \in DayLines : held[l] = "none" /\ held'[l] = "today" =>
            \A k \in Account(l) : held[k] # "overnight"]_dayVars
=============================================================================
