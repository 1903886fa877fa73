--------------------------- MODULE AllocatorPlan ---------------------------
(***************************************************************************)
(* Conditional plans, entry orders and position mandates of the AI         *)
(* instrument allocator: scripts/discovery/                                *)
(* ai_instrument_allocator_pipeline.py on top of AllocatorStateStore       *)
(* (plans) and PositionMandateStore (mandates).                            *)
(*                                                                         *)
(* One job at a time works on the sleeve (JobRunner is about that).  Every *)
(* job first recovers entry orders, reconciles mandates and, in the        *)
(* regular session, retries resting orders and exits positions; a stage    *)
(* then researches, refreshes or executes plans.  Plans, orders, positions *)
(* and mandates are separate files: each step below writes one of them,    *)
(* and the process may die between any two.                                *)
(*                                                                         *)
(* What the models, the quotes and the cooldowns answer is a choice.       *)
(* Watches and decision records, which only the dashboard reads, and the   *)
(* cooldown that a stage writes last are left out.  A submission is        *)
(* abstracted to its outcome (PaperBroker), its fill to one step           *)
(* (FillWal).                                                              *)
(*                                                                         *)
(* The operators named Fault... are the seeded faults of PROJECT.json.     *)
(***************************************************************************)
EXTENDS Naturals, FiniteSets, Sequences

CONSTANTS
    Tickers,
    Exposures,  \* equity:<ticker> and option:<option id>
    Shares,     \* the exposures held in shares
    TickerOf,   \* exposure -> ticker
    MaxPlans,   \* bound on the plans ever made
    MaxOrders,  \* bound on the entry orders ever made
    Signals,    \* [horizon, lasts]: holding days and validity of a proposal
    FirstTime,
    LastTime,   \* bound on the clock
    MaxCrashes  \* bound on the crashes of a job

ASSUME BoundsAssumption ==
    /\ MaxPlans \in Nat /\ MaxOrders \in Nat /\ MaxCrashes \in Nat
    /\ FirstTime \in Nat /\ LastTime \in Nat /\ FirstTime <= LastTime
ASSUME TickerOfAssumption == TickerOf \in [Exposures -> Tickers]
ASSUME SharesAssumption == Shares \subseteq Exposures
ASSUME SignalsAssumption == Signals \subseteq [horizon : Nat, lasts : Nat]

VARIABLES
    now,       \* the clock, in parts of a trading day
    plans,     \* allocator_plans.json: plan id -> plan, in order of creation
    orders,    \* entry orders of both brokers, each with the plan of its allocation
    mandates,  \* position_mandates.json: exposure -> mandate
    positions, \* exposure -> entry orders whose fills are held
    exits,     \* exposure -> number of its exit orders in "created"
    job,       \* the running job
    crashes

vars == <<now, plans, orders, mandates, positions, exits, job, crashes>>

-----------------------------------------------------------------------------
(* The market day *)

\* UsEquityMarketClock.status, with the parts of the regular session that the
\* stages and mandates tell apart: the window of open_execution and the minutes
\* after the planned exit time.
Part(t) == CASE t % 5 = 0 -> "pre_market" [] t % 5 = 1 -> "open"
             [] t % 5 = 2 -> "midday" [] t % 5 = 3 -> "closing"
             [] OTHER -> "after_hours"

IsRegular(t) == Part(t) \in {"open", "midday", "closing"}

\* planned_exit_time: shortly before the close, horizon sessions after the entry.
PlannedExit(t, horizon) == 5 * (t \div 5 + horizon) + 3

StageAllowed(stage, t) ==
    CASE stage = "open_execution" -> Part(t) = "open"
      [] stage = "intraday" -> IsRegular(t)
      [] stage \in {"premarket_update", "preopen_revalidation"} -> Part(t) = "pre_market"
      [] stage = "overnight" -> Part(t) = "after_hours"
      [] OTHER -> FALSE

-----------------------------------------------------------------------------
(* State *)

PlanStatuses ==
    {"active", "superseded", "invalidated", "executed", "rejected", "expired", "cancelled"}
Stages ==
    {"overnight", "premarket_update", "preopen_revalidation", "open_execution", "intraday"}
Retryable == {"submitted", "open"}
OrderStatuses == Retryable \cup {"created", "filled", "rejected", "expired", "cancelled"}

PlanIds == DOMAIN plans
OrderIds == DOMAIN orders
Plan ==
    [status : PlanStatuses, ticker : Tickers, stage : Stages, signal : Signals,
     created : Nat, revalidated : Nat]
Order == [status : OrderStatuses, exposure : Exposures, plan : 1..MaxPlans]
Mandate ==
    [status : {"none", "pending_fill", "open", "closed"}, order : 0..MaxOrders, exit : Nat]
NoMandate == [status |-> "none", order |-> 0, exit |-> 0]

Steps ==
    {"idle", "recover", "cancel", "close", "mark", "process", "exits", "exit", "exit_close",
     "stage", "premarket", "preopen", "research", "save", "execute", "register",
     "submit", "settle", "reconcile_entry", "plan_status"}

\* at is the decision time of the stage, seen that of the monitor or of the
\* evidence; nav is FALSE in the recovery that follows a failed valuation; item is the
\* order, exposure, ticker or plan at hand, order the entry order just created.
Idle ==
    [step |-> "idle", stage |-> "none", at |-> 0, seen |-> 0, todo |-> {},
     item |-> 0, order |-> 0, nav |-> TRUE]

Items == Tickers \cup Exposures \cup (0..MaxPlans) \cup (0..MaxOrders)

TypeOK ==
    /\ now \in FirstTime..LastTime
    /\ plans \in Seq(Plan) /\ Len(plans) <= MaxPlans
    /\ orders \in Seq(Order) /\ Len(orders) <= MaxOrders
    /\ mandates \in [Exposures -> Mandate]
    /\ positions \in [Exposures -> SUBSET OrderIds]
    /\ exits \in [Exposures -> 0..MaxCrashes + 1]
    /\ job \in [step : Steps, stage : Stages \cup {"none", "monitor"}, at : Nat,
                seen : Nat, todo : SUBSET Items, item : Items, order : 0..MaxOrders, nav : BOOLEAN]
    /\ crashes \in 0..MaxCrashes

Init ==
    /\ now = FirstTime
    /\ plans = <<>> /\ orders = <<>>
    /\ mandates = [e \in Exposures |-> NoMandate]
    /\ positions = [e \in Exposures |-> {}]
    /\ exits = [e \in Exposures |-> 0]
    /\ job = Idle
    /\ crashes = 0

Goto(step, todo) == job' = [job EXCEPT !.step = step, !.todo = todo]
GotoWith(step, item) == job' = [job EXCEPT !.step = step, !.item = item, !.todo = @ \ {item}]
BackTo(step) == job' = [job EXCEPT !.step = step, !.item = 0]
Done(item) == job' = [job EXCEPT !.todo = @ \ {item}]

SetPlanStatus(p, status) == plans' = [plans EXCEPT ![p].status = status]
SetOrderStatus(o, status) == orders' = [orders EXCEPT ![o].status = status]
CloseMandates(keys) ==
    mandates' = [e \in Exposures |->
        IF e \in keys /\ mandates[e].status # "none"
        THEN [mandates[e] EXCEPT !.status = "closed"] ELSE mandates[e]]

ValidUntil(p) == plans[p].created + plans[p].signal.lasts
ActivePlans(t) ==
    {p \in PlanIds :
        plans[p].status = "active" /\ plans[p].created <= t /\ t <= ValidUntil(p)}

-----------------------------------------------------------------------------
(* Every job: run_stage, the monitor and the end-of-day guard *)

\* Seeded fault: an order that was not submitted is none.
FaultUnsettled ==
    {o \in OrderIds :
        \/ orders[o].status \in Retryable
        \/ orders[o].status # "created" /\ plans[orders[o].plan].status = "active"}

\* The entries that the recovery may have to touch: it passes over the others.
Unsettled ==
    {o \in OrderIds :
        orders[o].status \in Retryable \cup {"created"} \/ plans[orders[o].plan].status = "active"}

\* A stage outside its session does what the monitor does and ends.
StartJob(stage) ==
    /\ job.step = "idle"
    /\ stage = "monitor" \/ StageAllowed(stage, now)
    /\ job' = [Idle EXCEPT !.step = "recover", !.stage = stage, !.at = now, !.todo = Unsettled]
    /\ UNCHANGED <<now, plans, orders, mandates, positions, exits, crashes>>

(* _recover_allocator_entry_orders *)

\* validate_position_mandate with the order's own identity.
MandateMatches(o) ==
    LET m == mandates[orders[o].exposure]
    IN m.status \in {"pending_fill", "open"} /\ m.order = o

FailsClosed(o) ==
    \/ orders[o].status = "created"
    \/ orders[o].status \in Retryable /\ (~job.nav \/ ~MandateMatches(o))

\* First the plan, then the order, then the mandates.
RecoverPlan(o) ==
    /\ job.step = "recover" /\ o \in job.todo /\ FailsClosed(o)
    /\ SetPlanStatus(orders[o].plan, "invalidated")
    /\ GotoWith("cancel", o)
    /\ UNCHANGED <<now, orders, mandates, positions, exits, crashes>>

RecoverCancel ==
    /\ job.step = "cancel"
    /\ SetOrderStatus(job.item, "cancelled")
    /\ job' = [job EXCEPT !.step = "close"]
    /\ UNCHANGED <<now, plans, mandates, positions, exits, crashes>>

\* By exposure or by order: also a mandate that another order has registered.
RecoverClose ==
    /\ job.step = "close"
    /\ CloseMandates({e \in Exposures :
            e = orders[job.item].exposure \/ mandates[e].order = job.item})
    /\ BackTo("recover")
    /\ UNCHANGED <<now, plans, orders, positions, exits, crashes>>

PlanStatusOf(status) ==
    IF status \in Retryable \cup {"filled"} THEN "executed" ELSE status

\* Seeded fault: the recovery looks at orders only.
FaultRecoverStatus(o) ==
    /\ job.step = "recover" /\ o \in job.todo /\ ~FailsClosed(o)
    /\ Done(o)
    /\ UNCHANGED <<now, plans, orders, mandates, positions, exits, crashes>>

\* A plan whose order got further than the plan knows.
RecoverStatus(o) ==
    /\ job.step = "recover" /\ o \in job.todo /\ ~FailsClosed(o)
    /\ IF plans[orders[o].plan].status = "active"
       THEN SetPlanStatus(orders[o].plan, PlanStatusOf(orders[o].status))
       ELSE UNCHANGED plans
    /\ Done(o)
    /\ UNCHANGED <<now, orders, mandates, positions, exits, crashes>>

(* PositionMandateStore.reconcile: one write for all mandates *)

Reconciled(m) ==
    LET status == IF m.order \in OrderIds THEN orders[m.order].status ELSE "unknown"
    IN CASE m.status = "pending_fill" /\ status = "filled" -> [m EXCEPT !.status = "open"]
         [] m.status = "pending_fill" /\ status \in {"cancelled", "expired", "rejected"} ->
                [m EXCEPT !.status = "closed"]
         [] OTHER -> m

ReconcileTo(next, todo) ==
    /\ mandates' = [e \in Exposures |-> Reconciled(mandates[e])]
    /\ Goto(next, todo)
    /\ UNCHANGED <<now, plans, orders, positions, exits, crashes>>

Reconcile ==
    /\ job.step = "recover" /\ job.todo = {} /\ job.nav
    /\ ReconcileTo(IF IsRegular(job.at) THEN "mark" ELSE "stage", {})

\* Seeded fault: the exits go through the open mandates.
FaultHeld == {e \in Exposures : positions[e] # {} /\ mandates[e].status = "open"}

Held == {e \in Exposures : positions[e] # {}}

\* _account_state: with every position marked, resting orders are retried; if a
\* mark is missing the recovery runs again and cancels them.
Mark ==
    /\ job.step = "mark"
    /\ job' = [job EXCEPT !.step = "process", !.seen = now,
                          !.todo = {o \in OrderIds : orders[o].status \in Retryable}]
    /\ UNCHANGED <<now, plans, orders, mandates, positions, exits, crashes>>

MarkFails ==
    /\ job.step = "mark" /\ Held # {}
    /\ job' = [job EXCEPT !.step = "recover", !.seen = now, !.todo = Unsettled, !.nav = FALSE]
    /\ UNCHANGED <<now, plans, orders, mandates, positions, exits, crashes>>

Fill(o, status) ==
    positions' = [positions EXCEPT ![orders[o].exposure] =
        IF status = "filled" THEN @ \cup {o} ELSE @]

\* process_open_orders of both brokers.
ProcessOrder(o) ==
    /\ job.step = "process" /\ o \in job.todo
    /\ \E status \in {"open", "filled", "rejected", "expired"} :
          SetOrderStatus(o, status) /\ Fill(o, status)
    /\ Done(o)
    /\ UNCHANGED <<now, plans, mandates, exits, crashes>>

\* After a failed valuation nothing is left to process.
ReconcileFills ==
    /\ job.step = "process" \/ (job.step = "recover" /\ ~job.nav)
    /\ job.todo = {}
    /\ ReconcileTo("exits", Held)

\* evaluate_mandate_exit: no open mandate, or its planned exit is reached (the
\* thesis is valid at least as long).
ExitDue(e, t) == mandates[e].status # "open" \/ t >= mandates[e].exit

\* With a quote, a market order is created ...
CreateExit(e) ==
    /\ job.step = "exits" /\ e \in job.todo
    /\ exits' = [exits EXCEPT ![e] = @ + 1]
    /\ GotoWith("exit", e)
    /\ UNCHANGED <<now, plans, orders, mandates, positions, crashes>>

MandateExit(e) == ExitDue(e, job.seen) /\ CreateExit(e)
PriceExit(e) == ~ExitDue(e, job.seen) /\ CreateExit(e)

\* ... and submitted.  The gate rejects a sale of shares while an older one is
\* still in "created"; the gate of the options does not look.
SubmitExit ==
    /\ job.step = "exit"
    /\ exits' = [exits EXCEPT ![job.item] = @ - 1]
    /\ IF job.item \in Shares /\ exits[job.item] > 1
       THEN BackTo("exits") /\ UNCHANGED positions
       ELSE /\ positions' = [positions EXCEPT ![job.item] = {}]
            /\ job' = [job EXCEPT !.step = "exit_close"]
    /\ UNCHANGED <<now, plans, orders, mandates, crashes>>

\* The mandate is closed by a write of its own.
ExitClose ==
    /\ job.step = "exit_close"
    /\ CloseMandates({job.item})
    /\ BackTo("exits")
    /\ UNCHANGED <<now, plans, orders, positions, exits, crashes>>

\* No reason to sell, no quote, or the sale is rejected for another reason.
Hold(e) ==
    /\ job.step = "exits" /\ e \in job.todo
    /\ Done(e)
    /\ UNCHANGED <<now, plans, orders, mandates, positions, exits, crashes>>

ExitsEnd ==
    /\ job.step = "exits" /\ job.todo = {}
    /\ job' = [job EXCEPT !.step = "stage", !.seen = 0, !.nav = TRUE]
    /\ UNCHANGED <<now, plans, orders, mandates, positions, exits, crashes>>

-----------------------------------------------------------------------------
(* The stages *)

Occupied == {TickerOf[e] : e \in Held}

StageBegins ==
    /\ job.step = "stage" /\ job.stage # "monitor"
    /\ CASE job.stage = "premarket_update" -> Goto("premarket", ActivePlans(job.at))
         [] job.stage = "preopen_revalidation" -> Goto("preopen", ActivePlans(job.at))
         [] job.stage = "open_execution" -> Goto("execute", ActivePlans(job.at))
         [] OTHER -> Goto("research", Tickers \ Occupied)
    /\ UNCHANGED <<now, plans, orders, mandates, positions, exits, crashes>>

JobEnds ==
    /\ \/ job.step = "stage" /\ job.stage = "monitor"
       \/ job.step \in {"premarket", "preopen", "research"} /\ job.todo = {}
       \/ job.step = "execute" /\ job.stage = "open_execution" /\ job.todo = {}
    /\ job' = Idle
    /\ UNCHANGED <<now, plans, orders, mandates, positions, exits, crashes>>

NewPlan(ticker, signal, created) ==
    [status |-> "active", ticker |-> ticker, stage |-> job.stage, signal |-> signal,
     created |-> created, revalidated |-> 0]

\* _premarket_update: no new evidence, ...
Retain(p) ==
    /\ job.step = "premarket" /\ p \in job.todo
    /\ Done(p)
    /\ UNCHANGED <<now, plans, orders, mandates, positions, exits, crashes>>

\* ... refresh or model failed, or no proposal (here and before the open), ...
Invalidate(p) ==
    /\ job.step \in {"premarket", "preopen"} /\ p \in job.todo
    /\ SetPlanStatus(p, "invalidated")
    /\ Done(p)
    /\ UNCHANGED <<now, orders, mandates, positions, exits, crashes>>

\* ... or the plan is replaced, both in one write.
Replace(p, signal) ==
    /\ job.step = "premarket" /\ p \in job.todo /\ Len(plans) < MaxPlans
    /\ plans' = Append([plans EXCEPT ![p].status = "superseded"],
                       NewPlan(plans[p].ticker, signal, now))
    /\ Done(p)
    /\ UNCHANGED <<now, orders, mandates, positions, exits, crashes>>

\* _preopen_revalidation: the plan as it was read when the stage began is written
\* back, with the time of the decision or of the new evidence.
Revalidate(p) ==
    /\ job.step = "preopen" /\ p \in job.todo
    /\ \E t \in {job.at, now} :
          plans' = [plans EXCEPT ![p] = [@ EXCEPT !.status = "active",
                       !.stage = "preopen_revalidation", !.revalidated = t]]
    /\ Done(p)
    /\ UNCHANGED <<now, orders, mandates, positions, exits, crashes>>

\* _research_stage: the ticker fails a filter, its data or the ranking, or it is
\* in cooldown.
SkipTicker(ticker) ==
    /\ job.step = "research" /\ ticker \in job.todo
    /\ Done(ticker)
    /\ UNCHANGED <<now, plans, orders, mandates, positions, exits, crashes>>

\* Seeded fault: a plan that was revalidated stays.
FaultRetire(ticker, status) ==
    plans' = [p \in PlanIds |->
        IF p \in ActivePlans(now) /\ plans[p].ticker = ticker /\ plans[p].revalidated = 0
        THEN [plans[p] EXCEPT !.status = status] ELSE plans[p]]

Retire(ticker, status) ==
    plans' = [p \in PlanIds |->
        IF p \in ActivePlans(now) /\ plans[p].ticker = ticker
        THEN [plans[p] EXCEPT !.status = status] ELSE plans[p]]

NoProposal(ticker) ==
    /\ job.step = "research" /\ ticker \in job.todo
    /\ Retire(ticker, "invalidated")
    /\ Done(ticker)
    /\ UNCHANGED <<now, orders, mandates, positions, exits, crashes>>

Propose(ticker) ==
    /\ job.step = "research" /\ ticker \in job.todo /\ Len(plans) < MaxPlans
    /\ Retire(ticker, "superseded")
    /\ job' = [job EXCEPT !.step = "save", !.item = ticker, !.seen = now, !.todo = @ \ {ticker}]
    /\ UNCHANGED <<now, orders, mandates, positions, exits, crashes>>

\* Dated when its evidence was read.
SavePlan(signal) ==
    /\ job.step = "save"
    /\ plans' = Append(plans, NewPlan(job.item, signal, job.seen))
    /\ IF job.stage = "intraday"
       THEN job' = [job EXCEPT !.step = "execute", !.item = Len(plans) + 1]
       ELSE BackTo("research")
    /\ UNCHANGED <<now, orders, mandates, positions, exits, crashes>>

-----------------------------------------------------------------------------
(* _execute_plan *)

\* The plans read when open_execution began, or the one that intraday research
\* has just saved.
ToExecute == IF job.stage = "intraday" THEN {job.item} ELSE job.todo

Executable(p) ==
    /\ now < ValidUntil(p)
    /\ job.stage = "open_execution" =>
          /\ plans[p].stage # "intraday"
          /\ plans[p].revalidated # 0 /\ plans[p].revalidated <= now
          /\ plans[p].revalidated \div 5 = now \div 5

NextPlan(p) ==
    job' = [job EXCEPT !.step = IF job.stage = "intraday" THEN "research" ELSE "execute",
                       !.todo = @ \ {p}, !.item = 0, !.order = 0,
                       !.seen = 0]

\* Not executable, no fresh data, no instrument: the plan stays as it is.
NoTrade(p) ==
    /\ job.step = "execute" /\ p \in ToExecute
    /\ NextPlan(p)
    /\ UNCHANGED <<now, plans, orders, mandates, positions, exits, crashes>>

\* allocate_instrument selects; the allocation, which leads from the order to the
\* plan, is recorded, and the order is created.
CreateEntry(p, e) ==
    /\ job.step = "execute" /\ p \in ToExecute /\ Len(orders) < MaxOrders
    /\ Executable(p) /\ TickerOf[e] = plans[p].ticker
    /\ LET exit == PlannedExit(now, plans[p].signal.horizon)
       IN now < exit /\ exit <= ValidUntil(p)
    /\ orders' = Append(orders, [status |-> "created", exposure |-> e, plan |-> p])
    /\ job' = [job EXCEPT !.step = "register", !.item = p, !.order = Len(orders) + 1,
                          !.seen = PlannedExit(now, plans[p].signal.horizon)]
    /\ UNCHANGED <<now, plans, mandates, positions, exits, crashes>>

Covered(e) == mandates[e].status \in {"pending_fill", "open"}

\* register_order; the planned exit is the one computed for the allocation.
RegisterMandate ==
    /\ job.step = "register"
    /\ LET e == orders[job.order].exposure
       IN /\ ~Covered(e)
          /\ mandates' = [mandates EXCEPT ![e] =
                [status |-> "pending_fill", order |-> job.order, exit |-> job.seen]]
    /\ job' = [job EXCEPT !.step = "submit"]
    /\ UNCHANGED <<now, plans, orders, positions, exits, crashes>>

\* It raises, and nothing catches it: the stage ends here.
MandateExists ==
    /\ job.step = "register" /\ Covered(orders[job.order].exposure)
    /\ job' = Idle
    /\ UNCHANGED <<now, plans, orders, mandates, positions, exits, crashes>>

\* submit_order: the gate, ...
Submit ==
    /\ job.step = "submit"
    /\ \E status \in {"submitted", "rejected"} : SetOrderStatus(job.order, status)
    /\ job' = [job EXCEPT !.step = "settle"]
    /\ UNCHANGED <<now, plans, mandates, positions, exits, crashes>>

\* ... then the fill.
Settle ==
    /\ job.step = "settle"
    /\ \E status \in (IF orders[job.order].status = "submitted"
                       THEN {"open", "filled"} ELSE {"rejected"}) :
          SetOrderStatus(job.order, status) /\ Fill(job.order, status)
    /\ job' = [job EXCEPT !.step = "reconcile_entry"]
    /\ UNCHANGED <<now, plans, mandates, exits, crashes>>

ReconcileEntry == job.step = "reconcile_entry" /\ ReconcileTo("plan_status", job.todo)

MarkPlan ==
    /\ job.step = "plan_status"
    /\ SetPlanStatus(job.item,
          IF orders[job.order].status \in {"filled", "open"} THEN "executed" ELSE "rejected")
    /\ NextPlan(job.item)
    /\ UNCHANGED <<now, orders, mandates, positions, exits, crashes>>

-----------------------------------------------------------------------------
(* The environment *)

\* Time passes between jobs and while a job waits for quotes or models; the
\* writes of a job take none of it.
Waiting == {"idle", "mark", "premarket", "preopen", "research", "execute"}

Tick ==
    /\ job.step \in Waiting
    /\ now < LastTime /\ now' = now + 1
    /\ UNCHANGED <<plans, orders, mandates, positions, exits, job, crashes>>

\* The worker is killed, or an exception ends the job.
Crash ==
    /\ job.step # "idle" /\ crashes < MaxCrashes
    /\ crashes' = crashes + 1
    /\ job' = Idle
    /\ UNCHANGED <<now, plans, orders, mandates, positions, exits>>

Recover ==
    \/ \E o \in OrderIds : RecoverPlan(o) \/ RecoverStatus(o)
    \/ RecoverCancel \/ RecoverClose

Monitor ==
    \/ Recover \/ Reconcile \/ Mark \/ MarkFails \/ ReconcileFills
    \/ (\E o \in OrderIds : ProcessOrder(o))
    \/ (\E e \in Exposures : MandateExit(e) \/ PriceExit(e) \/ Hold(e))
    \/ SubmitExit \/ ExitClose \/ ExitsEnd

Research ==
    \/ \E p \in PlanIds :
          \/ Retain(p) \/ Invalidate(p) \/ Revalidate(p)
          \/ \E signal \in Signals : Replace(p, signal)
    \/ \E ticker \in Tickers : SkipTicker(ticker) \/ NoProposal(ticker) \/ Propose(ticker)
    \/ \E signal \in Signals : SavePlan(signal)

Execute ==
    \/ \E p \in PlanIds : NoTrade(p) \/ \E e \in Exposures : CreateEntry(p, e)
    \/ RegisterMandate \/ MandateExists \/ Submit \/ Settle \/ ReconcileEntry \/ MarkPlan

JobStep == Monitor \/ StageBegins \/ JobEnds \/ Research \/ Execute

Next ==
    \/ \E stage \in Stages \cup {"monitor"} : StartJob(stage)
    \/ JobStep \/ Tick \/ Crash

Spec == Init /\ [][Next]_vars

\* The scheduler runs the monitor again and again, a job that is not killed goes
\* on, the clock advances, and a due position that is looked at again and again
\* finds a quote sooner or later.
FairSpec ==
    /\ Spec
    /\ WF_vars(StartJob("monitor")) /\ WF_vars(JobStep) /\ WF_vars(Tick)
    /\ \A e \in Exposures : SF_vars(MandateExit(e))

-----------------------------------------------------------------------------
(* Properties *)

\* No plan has two entries that are at work or filled, wherever a stage was
\* interrupted: a restart finds the plan still active, and only the recovery
\* that precedes the next execution knows that its order was submitted.
OneEntryPerPlan ==
    \A o1, o2 \in OrderIds :
        /\ orders[o1].plan = orders[o2].plan
        /\ {orders[o1].status, orders[o2].status} \subseteq Retryable \cup {"filled"}
        => o1 = o2

\* A ticker has at most one plan that a stage may execute or refresh: a newer
\* analysis retires the older plan before it saves its own, in two writes.
OneActivePlanPerTicker ==
    \A p1, p2 \in ActivePlans(now) : plans[p1].ticker = plans[p2].ticker => p1 = p2

\* An entry that was created but not submitted, because the process died or its
\* mandate could not be registered, is never met by a stage: whatever runs next
\* finds it in its recovery and cancels it.
NoForgottenEntry ==
    \A o \in OrderIds : orders[o].status = "created" =>
        \/ job.step = "idle"
        \/ job.step = "recover" /\ o \in job.todo
        \/ job.step = "cancel" /\ o \in job.todo \cup {job.item}
        \/ job.step = "close" /\ o \in job.todo
        \/ job.step \in {"register", "submit"} /\ o = job.order

\* An exit order of shares that a crash left in "created", which no recovery
\* looks for.
Stranded(e) ==
    e \in Shares /\ exits[e] > (IF job.step = "exit" /\ job.item = e THEN 1 ELSE 0)

Due(e) == positions[e] # {} /\ ExitDue(e, now)

\* A position without an open mandate, or past its planned exit, is sold in the
\* end, although orders, positions and mandates are written one after the other;
\* unless a crash has stranded an exit order of it.
DuePositionsAreSold == \A e \in Exposures : Due(e) ~> ~Due(e) \/ Stranded(e)

\* "planned_exit_at is the hard maximum holding horizon"
\* (references/ai_instrument_allocator_policy.md:231): whatever is interrupted,
\* no position is held past it for good.
HardMaximumHolding == \A e \in Exposures : Due(e) ~> ~Due(e)

\* "an active pending/open mandate cannot be replaced by a different order
\* identity" (README.md:383): an entry at work keeps the mandate it registered.
LiveEntryKeepsMandate ==
    \A o \in OrderIds : orders[o].status \in Retryable => MandateMatches(o)

=============================================================================
