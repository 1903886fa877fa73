------------------------ MODULE AllocatorPlanProofs ------------------------
(***************************************************************************)
(* What the jobs of the allocator guarantee for any tickers, exposures,    *)
(* signals, numbers of plans and orders, and any number of crashes: no     *)
(* plan is entered twice, no created entry is met by a stage, and a ticker *)
(* has one plan that is valid.                                             *)
(***************************************************************************)
EXTENDS AllocatorPlan, TLAPS

Recovering == {"recover", "cancel", "close"}
BeforeStage ==
    Recovering \cup {"mark", "process", "exits", "exit", "exit_close", "stage"}
Entering == {"register", "submit", "settle", "reconcile_entry", "plan_status"}

\* What the job has at hand in each step, and in which stage.
HandTypes ==
    /\ job.step # "idle" => job.stage \in Stages \cup {"monitor"}
    /\ job.step \in Recovering \cup {"process"} => job.todo \subseteq OrderIds
    /\ job.step \in {"cancel", "close"} => job.item \in OrderIds
    /\ job.step \in {"exits", "exit", "exit_close"} => job.todo \subseteq Exposures
    /\ job.step \in {"exit", "exit_close"} => job.item \in Exposures
    /\ job.step = "premarket" => job.stage = "premarket_update"
    /\ job.step = "preopen" => job.stage = "preopen_revalidation"
    /\ job.step \in {"premarket", "preopen"} => job.todo \subseteq PlanIds
    /\ job.step \in {"research", "save"} =>
          job.stage \in {"overnight", "intraday"} /\ job.todo \subseteq Tickers
    /\ job.step = "save" => job.item \in Tickers /\ Len(plans) < MaxPlans
    /\ job.step \in Entering \cup {"execute"} =>
          \/ job.stage = "intraday" /\ job.item \in PlanIds /\ job.todo \subseteq Tickers
          \/ job.stage = "open_execution" /\ job.todo \subseteq PlanIds
    /\ job.step \in Entering =>
          job.item \in PlanIds /\ job.order \in OrderIds /\ orders[job.order].plan = job.item

\* Between two jobs, only crashes leave exit orders in "created".
ExitsCounted ==
    \A e \in Exposures :
        LET atHand == job.step = "exit" /\ job.item = e
        IN /\ exits[e] <= crashes + (IF atHand THEN 1 ELSE 0)
           /\ atHand => exits[e] > 0

\* Orders belong to plans; no plan is dated in the future, and none is made before
\* the stage proper begins.
Dated ==
    /\ \A o \in OrderIds : orders[o].plan \in PlanIds
    /\ \A p \in PlanIds : plans[p].created <= now
    /\ job.step # "idle" => job.at <= now
    /\ job.step \in BeforeStage => \A p \in PlanIds : plans[p].created <= job.at

\* A plan is entered once, whatever becomes of the order.
OneOrderPerPlan == \A o1, o2 \in OrderIds : orders[o1].plan = orders[o2].plan => o1 = o2

\* An order whose plan is still active is in the hands of the recovery or of the
\* stage that has just created it, or no job runs.
Settled ==
    \A o \in OrderIds : plans[orders[o].plan].status = "active" =>
        \/ job.step = "idle"
        \/ job.step \in Recovering /\ o \in job.todo
        \/ job.step \in Entering /\ o = job.order

\* The plans that the stage still has to refresh, to revalidate or to execute.
Ahead ==
    CASE job.step \in {"premarket", "preopen"} -> job.todo
      [] job.step = "execute" -> ToExecute
      [] job.step \in Entering /\ job.stage = "open_execution" -> job.todo \ {job.item}
      [] OTHER -> {}

\* They are active, and none of them has ever had an order.
AheadIsFresh ==
    \A p \in Ahead :
        plans[p].status = "active" /\ \A o \in OrderIds : orders[o].plan # p

\* Of two plans of a ticker that nobody retired, the older one expired before the
\* younger one was made.
Succeeds(q, p) ==
    p < q /\ plans[p].ticker = plans[q].ticker /\ plans[q].status = "active"

DisjointPlans ==
    \A p, q \in PlanIds :
        Succeeds(q, p) /\ plans[p].status = "active" => ValidUntil(p) < plans[q].created

\* The premarket update has the youngest active plan of each ticker to refresh.
RefreshIsNewest ==
    job.step = "premarket" => \A p \in job.todo, q \in PlanIds : ~Succeeds(q, p)

\* When research saves a plan, the ticker has no valid one left.
SaveIsAlone ==
    job.step = "save" =>
        /\ job.seen = now
        /\ \A p \in PlanIds :
              plans[p].ticker = job.item /\ plans[p].status = "active" => ValidUntil(p) < now

IInv ==
    /\ TypeOK /\ HandTypes /\ ExitsCounted /\ Dated
    /\ OneOrderPerPlan /\ Settled /\ AheadIsFresh
    /\ DisjointPlans /\ RefreshIsNewest /\ SaveIsAlone /\ NoForgottenEntry

-----------------------------------------------------------------------------
(* Records and sequences *)

Jobs ==
    [step : Steps, stage : Stages \cup {"none", "monitor"}, at : Nat, seen : Nat,
     todo : SUBSET Items, item : Items, order : 0..MaxOrders, nav : BOOLEAN]

\* What TypeOK says of the job.
LEMMA JobShape ==
    ASSUME TypeOK
    PROVE  /\ job \in Jobs
           /\ job = [step |-> job.step, stage |-> job.stage, at |-> job.at,
                     seen |-> job.seen, todo |-> job.todo, item |-> job.item,
                     order |-> job.order, nav |-> job.nav]
<1>1. job \in Jobs BY DEF TypeOK, Jobs
<1> QED BY <1>1 DEF Jobs

\* What TypeOK says of the plans and of the orders.
LEMMA Identifiers ==
    ASSUME TypeOK
    PROVE  /\ PlanIds = 1..Len(plans) /\ Len(plans) \in Nat
           /\ OrderIds = 1..Len(orders) /\ Len(orders) \in Nat
           /\ \A p \in PlanIds : plans[p] \in Plan /\ p \in 1..MaxPlans
           /\ \A o \in OrderIds : orders[o] \in Order /\ o \in 1..MaxOrders
<1>1. plans \in Seq(Plan) /\ Len(plans) \in Nat /\ Len(plans) <= MaxPlans BY DEF TypeOK
<1>2. orders \in Seq(Order) /\ Len(orders) \in Nat /\ Len(orders) <= MaxOrders BY DEF TypeOK
<1>3. PlanIds = 1..Len(plans) /\ \A p \in PlanIds : plans[p] \in Plan
  BY <1>1 DEF PlanIds
<1>4. OrderIds = 1..Len(orders) /\ \A o \in OrderIds : orders[o] \in Order
  BY <1>2 DEF OrderIds
<1> QED BY <1>1, <1>2, <1>3, <1>4, BoundsAssumption

\* Append extends a sequence by one element and keeps the others.
LEMMA Appended ==
    ASSUME NEW S, NEW seq \in Seq(S), NEW x \in S
    PROVE  /\ Append(seq, x) \in Seq(S)
           /\ DOMAIN seq = 1..Len(seq) /\ Len(seq) \in Nat
           /\ Len(Append(seq, x)) = Len(seq) + 1
           /\ DOMAIN Append(seq, x) = DOMAIN seq \cup {Len(seq) + 1}
           /\ Len(seq) + 1 \notin DOMAIN seq
           /\ \A i \in DOMAIN seq : Append(seq, x)[i] = seq[i]
           /\ Append(seq, x)[Len(seq) + 1] = x
OBVIOUS

\* A sequence with some elements replaced is a sequence of the same length.
LEMMA Replaced ==
    ASSUME NEW S, NEW seq \in Seq(S), NEW new, new \in [DOMAIN seq -> S]
    PROVE  new \in Seq(S) /\ Len(new) = Len(seq) /\ DOMAIN new = DOMAIN seq
OBVIOUS

\* The plans keep their number and what they are for, and none becomes active.
Retiring ==
    /\ PlanIds' = PlanIds
    /\ \A p \in PlanIds :
          /\ plans'[p].ticker = plans[p].ticker /\ plans'[p].created = plans[p].created
          /\ plans'[p].signal = plans[p].signal
          /\ plans'[p].status = "active" => plans[p].status = "active"

\* The orders keep their number and their plans.
SameOrders ==
    /\ OrderIds' = OrderIds
    /\ \A o \in OrderIds : orders'[o].plan = orders[o].plan

LEMMA PlanStatusSet ==
    ASSUME TypeOK, NEW p \in PlanIds, NEW status \in PlanStatuses \ {"active"},
           SetPlanStatus(p, status)
    PROVE  /\ plans' \in Seq(Plan) /\ Len(plans') = Len(plans) /\ Retiring
           /\ plans'[p].status = status
           /\ \A q \in PlanIds : q # p => plans'[q] = plans[q]
<1> DEFINE new == [plans[p] EXCEPT !.status = status]
<1>1. /\ new \in Plan /\ new.status = status /\ new.ticker = plans[p].ticker
      /\ new.created = plans[p].created /\ new.signal = plans[p].signal
  BY Identifiers DEF Plan
<1>2. plans' = [plans EXCEPT ![p] = new] /\ plans \in Seq(Plan)
  BY DEF SetPlanStatus, TypeOK
<1>3. \A q \in PlanIds : plans[q] \in Plan BY Identifiers
<1> HIDE DEF new
<1>4. /\ plans' \in [PlanIds -> Plan] /\ plans'[p] = new
      /\ \A q \in PlanIds : q # p => plans'[q] = plans[q]
  <2>1. plans = [q \in PlanIds |-> plans[q]] BY <1>2 DEF PlanIds
  <2>2. DOMAIN plans = PlanIds BY DEF PlanIds
  <2> QED BY <1>1, <1>2, <1>3, <2>1, <2>2
<1>5. plans' \in Seq(Plan) /\ Len(plans') = Len(plans) /\ PlanIds' = PlanIds
  BY <1>2, <1>4, Replaced DEF PlanIds
<1> QED BY <1>1, <1>4, <1>5 DEF Retiring

LEMMA OrderStatusSet ==
    ASSUME TypeOK, NEW o \in OrderIds, NEW status \in OrderStatuses, SetOrderStatus(o, status)
    PROVE  /\ orders' \in Seq(Order) /\ Len(orders') = Len(orders) /\ SameOrders
           /\ orders'[o].status = status /\ orders'[o].exposure = orders[o].exposure
           /\ \A r \in OrderIds : r # o => orders'[r] = orders[r]
<1> DEFINE new == [orders[o] EXCEPT !.status = status]
<1>1. /\ new \in Order /\ new.status = status /\ new.plan = orders[o].plan
      /\ new.exposure = orders[o].exposure
  BY Identifiers DEF Order
<1>2. orders' = [orders EXCEPT ![o] = new] /\ orders \in Seq(Order)
  BY DEF SetOrderStatus, TypeOK
<1>3. \A r \in OrderIds : orders[r] \in Order BY Identifiers
<1> HIDE DEF new
<1>4. /\ orders' \in [OrderIds -> Order] /\ orders'[o] = new
      /\ \A r \in OrderIds : r # o => orders'[r] = orders[r]
  <2>1. orders = [r \in OrderIds |-> orders[r]] BY <1>2 DEF OrderIds
  <2>2. DOMAIN orders = OrderIds BY DEF OrderIds
  <2> QED BY <1>1, <1>2, <1>3, <2>1, <2>2
<1>5. orders' \in Seq(Order) /\ Len(orders') = Len(orders) /\ OrderIds' = OrderIds
  BY <1>2, <1>4, Replaced DEF OrderIds
<1> QED BY <1>1, <1>4, <1>5 DEF SameOrders

\* Mandates keep their type when some are closed or reconciled.
LEMMA MandateTypes ==
    ASSUME TypeOK
    PROVE  /\ \A keys : CloseMandates(keys) => mandates' \in [Exposures -> Mandate]
           /\ \A next, todo : ReconcileTo(next, todo) => mandates' \in [Exposures -> Mandate]
<1>1. \A e \in Exposures : mandates[e] \in Mandate BY DEF TypeOK
<1>2. \A m \in Mandate :
         [m EXCEPT !.status = "closed"] \in Mandate /\ [m EXCEPT !.status = "open"] \in Mandate
  BY DEF Mandate
<1>3. \A m \in Mandate : Reconciled(m) \in Mandate BY <1>2 DEF Reconciled
<1> QED BY <1>1, <1>2, <1>3 DEF CloseMandates, ReconcileTo

LEMMA InitIInv == Init => IInv
<1> SUFFICES ASSUME Init PROVE IInv
    OBVIOUS
<1> USE DEF Init, Idle
<1>1. PlanIds = {} /\ OrderIds = {} BY DEF PlanIds, OrderIds
<1>2. TypeOK
  <2>1. job \in Jobs BY BoundsAssumption DEF Jobs, Steps, Items
  <2>2. NoMandate \in Mandate BY BoundsAssumption DEF NoMandate, Mandate
  <2> QED BY <2>1, <2>2, BoundsAssumption DEF TypeOK, Jobs
<1>3. HandTypes /\ Settled /\ AheadIsFresh /\ RefreshIsNewest /\ SaveIsAlone
      /\ NoForgottenEntry
  BY <1>1 DEF HandTypes, Recovering, Entering, Settled, AheadIsFresh, Ahead,
     RefreshIsNewest, SaveIsAlone, NoForgottenEntry
<1>4. ExitsCounted BY DEF ExitsCounted
<1>5. Dated /\ OneOrderPerPlan /\ DisjointPlans
  BY <1>1 DEF Dated, OneOrderPerPlan, DisjointPlans, BeforeStage, Recovering
<1> QED BY <1>2, <1>3, <1>4, <1>5 DEF IInv

-----------------------------------------------------------------------------
(* The recovery and the monitor *)

\* Outside the recovery and the entry of a plan every order is settled.
LEMMA AtRest ==
    ASSUME IInv,
           \/ job.step \notin Recovering \cup Entering \cup {"idle"}
           \/ job.step = "recover" /\ job.todo = {}
    PROVE  \A o \in OrderIds :
              plans[orders[o].plan].status # "active" /\ orders[o].status # "created"
BY DEF IInv, Settled, NoForgottenEntry, Recovering, Entering

\* A step of the monitor that writes neither plans nor orders.
LEMMA MonitorStep ==
    ASSUME IInv, UNCHANGED <<now, plans, orders, crashes>>,
           \/ job.step \in {"mark", "process", "exits", "exit", "exit_close"}
           \/ job.step = "recover" /\ job.todo = {},
           job' \in Jobs, job'.stage = job.stage, job'.at = job.at,
           job'.step \in {"mark", "process", "exits", "exit", "exit_close", "stage"},
           job'.step = "process" => job'.todo \subseteq OrderIds,
           job'.step \in {"exits", "exit", "exit_close"} => job'.todo \subseteq Exposures,
           job'.step \in {"exit", "exit_close"} => job'.item \in Exposures,
           mandates' \in [Exposures -> Mandate],
           positions' \in [Exposures -> SUBSET OrderIds],
           exits' \in [Exposures -> 0..MaxCrashes + 1], ExitsCounted'
    PROVE  IInv'
<1>1. /\ TypeOK /\ HandTypes /\ Dated /\ OneOrderPerPlan /\ DisjointPlans
      /\ \A o \in OrderIds :
            plans[orders[o].plan].status # "active" /\ orders[o].status # "created"
  BY AtRest DEF IInv, Recovering, Entering
<1>2. PlanIds' = PlanIds /\ OrderIds' = OrderIds BY DEF PlanIds, OrderIds
<1>3. TypeOK' BY <1>1, <1>2 DEF TypeOK, Jobs
<1>4. HandTypes' BY <1>1, <1>2 DEF HandTypes, Recovering, Entering
<1>5. Dated' BY <1>1, <1>2 DEF Dated, BeforeStage, Recovering
<1>6. OneOrderPerPlan' /\ DisjointPlans' /\ Settled' /\ NoForgottenEntry'
  BY <1>1, <1>2 DEF OneOrderPerPlan, DisjointPlans, Succeeds, ValidUntil, Settled,
     NoForgottenEntry
<1>7. AheadIsFresh' /\ RefreshIsNewest' /\ SaveIsAlone'
  BY DEF AheadIsFresh, Ahead, RefreshIsNewest, SaveIsAlone, Entering
<1> QED BY <1>3, <1>4, <1>5, <1>6, <1>7 DEF IInv

\* Elements of one of the sets that a job may have at hand.
LEMMA ItemTypes ==
    ASSUME TypeOK
    PROVE  /\ Tickers \subseteq Items /\ Exposures \subseteq Items /\ 0 \in Items
           /\ PlanIds \subseteq Items /\ OrderIds \subseteq Items
BY Identifiers, BoundsAssumption DEF Items

\* Reconcile, Mark, ReconcileFills, ExitClose and ExitsEnd.
LEMMA MonitorMoves ==
    ASSUME IInv, Reconcile \/ Mark \/ ReconcileFills \/ ExitClose \/ ExitsEnd
    PROVE  IInv'
<1>1. TypeOK /\ HandTypes /\ ExitsCounted BY DEF IInv
<1> USE JobShape, ItemTypes, <1>1 DEF Jobs, Steps
<1>2. CASE Reconcile
  <2>1. PICK next \in {"mark", "stage"} : ReconcileTo(next, {})
    BY <1>2 DEF Reconcile
  <2>2. UNCHANGED <<now, plans, orders, crashes, positions, exits>>
        /\ job' = [job EXCEPT !.step = next, !.todo = {}]
        /\ job.step = "recover" /\ job.todo = {}
    BY <1>2, <2>1 DEF Reconcile, ReconcileTo, Goto
  <2>3. job' \in Jobs /\ job'.stage = job.stage /\ job'.at = job.at /\ job'.step = next
    BY <2>2
  <2>4. ExitsCounted' BY <2>2, <2>3 DEF ExitsCounted
  <2>5. mandates' \in [Exposures -> Mandate] BY <2>1, MandateTypes
  <2>6. positions' \in [Exposures -> SUBSET OrderIds] BY <2>2 DEF TypeOK
  <2>7. exits' \in [Exposures -> 0..MaxCrashes + 1] BY <2>2 DEF TypeOK
  <2> QED BY <2>2, <2>3, <2>4, <2>5, <2>6, <2>7, MonitorStep
<1>3. CASE Mark
  <2>1. UNCHANGED <<now, plans, orders, crashes, mandates, positions, exits>>
        /\ job' = [job EXCEPT !.step = "process", !.seen = now,
                              !.todo = {o \in OrderIds : orders[o].status \in Retryable}]
        /\ job.step = "mark"
    BY <1>3 DEF Mark
  <2>2. now \in Nat BY BoundsAssumption DEF TypeOK
  <2>3. job' \in Jobs /\ job'.stage = job.stage /\ job'.at = job.at /\ job'.step = "process"
        /\ job'.todo \subseteq OrderIds
    BY <2>1, <2>2
  <2>4. ExitsCounted' BY <2>1, <2>3 DEF ExitsCounted
  <2> QED BY <2>1, <2>3, <2>4, MonitorStep DEF TypeOK
<1>4. CASE ReconcileFills
  <2>1. ReconcileTo("exits", Held) BY <1>4 DEF ReconcileFills
  <2>2. UNCHANGED <<now, plans, orders, crashes, positions, exits>>
        /\ job' = [job EXCEPT !.step = "exits", !.todo = Held]
        /\ (job.step = "process" \/ (job.step = "recover" /\ job.todo = {}))
    BY <1>4, <2>1 DEF ReconcileFills, ReconcileTo, Goto
  <2>3. Held \subseteq Exposures BY DEF Held
  <2>4. job' \in Jobs /\ job'.stage = job.stage /\ job'.at = job.at /\ job'.step = "exits"
        /\ job'.todo = Held
    BY <2>2, <2>3
  <2>5. ExitsCounted' BY <2>2, <2>4 DEF ExitsCounted
  <2>6. mandates' \in [Exposures -> Mandate] BY <2>1, MandateTypes
  <2>7. positions' \in [Exposures -> SUBSET OrderIds] BY <2>2 DEF TypeOK
  <2>8. exits' \in [Exposures -> 0..MaxCrashes + 1] BY <2>2 DEF TypeOK
  <2> QED BY <2>2, <2>3, <2>4, <2>5, <2>6, <2>7, <2>8, MonitorStep
<1>5. CASE ExitClose
  <2>1. UNCHANGED <<now, plans, orders, crashes, positions, exits>>
        /\ job' = [job EXCEPT !.step = "exits", !.item = 0]
        /\ job.step = "exit_close" /\ CloseMandates({job.item})
    BY <1>5 DEF ExitClose, BackTo
  <2>2. job' \in Jobs /\ job'.stage = job.stage /\ job'.at = job.at /\ job'.step = "exits"
        /\ job'.todo = job.todo
    BY <2>1
  <2>3. ExitsCounted' BY <2>1, <2>2 DEF ExitsCounted
  <2>4. mandates' \in [Exposures -> Mandate] BY <2>1, MandateTypes
  <2>5. job.todo \subseteq Exposures BY <2>1 DEF HandTypes
  <2>6. positions' \in [Exposures -> SUBSET OrderIds] BY <2>1 DEF TypeOK
  <2>7. exits' \in [Exposures -> 0..MaxCrashes + 1] BY <2>1 DEF TypeOK
  <2> QED BY <2>1, <2>2, <2>3, <2>4, <2>5, <2>6, <2>7, MonitorStep
<1>6. CASE ExitsEnd
  <2>1. UNCHANGED <<now, plans, orders, crashes, mandates, positions, exits>>
        /\ job' = [job EXCEPT !.step = "stage", !.seen = 0, !.nav = TRUE]
        /\ job.step = "exits"
    BY <1>6 DEF ExitsEnd
  <2>2. job' \in Jobs /\ job'.stage = job.stage /\ job'.at = job.at /\ job'.step = "stage"
    BY <2>1
  <2>3. ExitsCounted' BY <2>1, <2>2 DEF ExitsCounted
  <2> QED BY <2>1, <2>2, <2>3, MonitorStep DEF TypeOK
<1> QED BY <1>2, <1>3, <1>4, <1>5, <1>6

\* MandateExit, PriceExit and Hold.
LEMMA ExitStep ==
    ASSUME IInv, NEW e \in Exposures, CreateExit(e) \/ Hold(e)
    PROVE  IInv'
<1>1. TypeOK /\ HandTypes /\ ExitsCounted BY DEF IInv
<1> USE JobShape, ItemTypes, <1>1 DEF Jobs, Steps
<1>2. job.step = "exits" /\ job.todo \subseteq Exposures /\ e \in job.todo
  BY DEF CreateExit, Hold, HandTypes
<1>3. CASE CreateExit(e)
  <2>1. UNCHANGED <<now, plans, orders, crashes, mandates, positions>>
        /\ exits' = [exits EXCEPT ![e] = @ + 1]
        /\ job' = [job EXCEPT !.step = "exit", !.item = e, !.todo = @ \ {e}]
    BY <1>3 DEF CreateExit, GotoWith
  <2>2. job' \in Jobs /\ job'.stage = job.stage /\ job'.at = job.at /\ job'.step = "exit"
        /\ job'.item = e /\ job'.todo = job.todo \ {e}
    BY <2>1
  <2>3. \A f \in Exposures : exits[f] \in Nat /\ exits[f] <= crashes
    BY <1>2 DEF ExitsCounted, TypeOK
  <2>4. crashes \in 0..MaxCrashes BY DEF TypeOK
  <2>5. exits' = [f \in Exposures |-> IF f = e THEN exits[f] + 1 ELSE exits[f]]
    BY <2>1 DEF TypeOK
  <2>6. ExitsCounted'
    <3> SUFFICES ASSUME NEW f \in Exposures
                 PROVE  /\ exits'[f] <= crashes + (IF f = e THEN 1 ELSE 0)
                        /\ f = e => exits'[f] > 0
      BY <2>1, <2>2 DEF ExitsCounted
    <3> QED BY <2>3, <2>4, <2>5
  <2>7. exits' \in [Exposures -> 0..MaxCrashes + 1]
    BY <2>3, <2>4, <2>5, BoundsAssumption
  <2>8. mandates' \in [Exposures -> Mandate] /\ positions' \in [Exposures -> SUBSET OrderIds]
    BY <2>1 DEF TypeOK
  <2> QED BY <1>2, <2>1, <2>2, <2>6, <2>7, <2>8, MonitorStep
<1>4. CASE Hold(e)
  <2>1. UNCHANGED <<now, plans, orders, crashes, mandates, positions, exits>>
        /\ job' = [job EXCEPT !.todo = @ \ {e}]
    BY <1>4 DEF Hold, Done
  <2>2. job' \in Jobs /\ job'.stage = job.stage /\ job'.at = job.at /\ job'.step = "exits"
        /\ job'.todo = job.todo \ {e}
    BY <1>2, <2>1
  <2>3. ExitsCounted' BY <1>2, <2>1, <2>2 DEF ExitsCounted
  <2>4. mandates' \in [Exposures -> Mandate] /\ positions' \in [Exposures -> SUBSET OrderIds]
        /\ exits' \in [Exposures -> 0..MaxCrashes + 1]
    BY <2>1 DEF TypeOK
  <2> QED BY <1>2, <2>1, <2>2, <2>3, <2>4, MonitorStep
<1> QED BY <1>3, <1>4

LEMMA SubmitExitStep == ASSUME IInv, SubmitExit PROVE IInv'
<1>1. TypeOK /\ HandTypes /\ ExitsCounted BY DEF IInv
<1> USE JobShape, ItemTypes, <1>1 DEF Jobs, Steps
<1> DEFINE e == job.item
<1>2. job.step = "exit" /\ job.todo \subseteq Exposures /\ e \in Exposures
  BY DEF SubmitExit, HandTypes
<1>3. UNCHANGED <<now, plans, orders, crashes, mandates>>
      /\ exits' = [exits EXCEPT ![e] = @ - 1]
  BY DEF SubmitExit
<1>4. /\ job' \in Jobs /\ job'.stage = job.stage /\ job'.at = job.at
      /\ (job'.step = "exits" \/ (job'.step = "exit_close" /\ job'.item = e))
      /\ job'.todo = job.todo
      /\ positions' \in [Exposures -> SUBSET OrderIds]
  <2>1. CASE e \in Shares /\ exits[e] > 1
    <3>1. job' = [job EXCEPT !.step = "exits", !.item = 0] /\ UNCHANGED positions
      BY <2>1 DEF SubmitExit, BackTo
    <3>2. positions' \in [Exposures -> SUBSET OrderIds] BY <3>1 DEF TypeOK
    <3> QED BY <3>1, <3>2
  <2>2. CASE ~(e \in Shares /\ exits[e] > 1)
    <3>1. job' = [job EXCEPT !.step = "exit_close"]
          /\ positions' = [positions EXCEPT ![e] = {}]
      BY <2>2 DEF SubmitExit
    <3>2. positions' \in [Exposures -> SUBSET OrderIds] BY <3>1 DEF TypeOK
    <3> QED BY <3>1, <3>2
  <2> QED BY <2>1, <2>2
<1> HIDE DEF e
<1>5. /\ crashes \in 0..MaxCrashes
      /\ \A f \in Exposures :
            /\ exits[f] \in Nat /\ exits[f] <= crashes + (IF f = e THEN 1 ELSE 0)
            /\ f = e => exits[f] > 0
  BY <1>2 DEF ExitsCounted, TypeOK, e
<1>6. exits' = [f \in Exposures |-> IF f = e THEN exits[f] - 1 ELSE exits[f]]
  BY <1>3 DEF TypeOK
<1>7. \A f \in Exposures : exits'[f] \in Nat /\ exits'[f] <= crashes BY <1>5, <1>6
<1>8. ExitsCounted'
  <2>1. job'.step # "exit" /\ crashes' = crashes BY <1>3, <1>4
  <2> QED BY <1>5, <1>7, <2>1 DEF ExitsCounted
<1>9. exits' \in [Exposures -> 0..MaxCrashes + 1]
  BY <1>5, <1>6, <1>7, BoundsAssumption
<1>10. mandates' \in [Exposures -> Mandate] BY <1>3 DEF TypeOK
<1> QED BY <1>2, <1>3, <1>4, <1>8, <1>9, <1>10, MonitorStep

\* Retiring plans and writing the status of orders keeps what plans and orders are.
LEMMA RetiringKeeps ==
    ASSUME IInv, Retiring, SameOrders, now' = now
    PROVE  /\ OneOrderPerPlan' /\ DisjointPlans'
           /\ \A o \in OrderIds' : orders'[o].plan \in PlanIds'
           /\ \A p \in PlanIds' : plans'[p].created <= now'
BY DEF IInv, Dated, Retiring, SameOrders, OneOrderPerPlan, DisjointPlans, Succeeds, ValidUntil

\* A step into or of the recovery.
LEMMA RecoveryStep ==
    ASSUME IInv, UNCHANGED <<now, exits, crashes>>,
           plans' \in Seq(Plan), Len(plans') = Len(plans), Retiring,
           orders' \in Seq(Order), Len(orders') = Len(orders), SameOrders,
           mandates' \in [Exposures -> Mandate],
           positions' \in [Exposures -> SUBSET OrderIds],
           job.step \in Recovering \cup {"idle", "mark"},
           job' \in Jobs, job'.step \in Recovering,
           job'.stage \in Stages \cup {"monitor"},
           job'.todo \subseteq OrderIds,
           job'.step \in {"cancel", "close"} => job'.item \in OrderIds,
           job'.at <= now, \A p \in PlanIds : plans[p].created <= job'.at,
           Settled', NoForgottenEntry'
    PROVE  IInv'
<1>1. TypeOK /\ ExitsCounted BY DEF IInv
<1>2. PlanIds' = PlanIds /\ OrderIds' = OrderIds BY DEF Retiring, SameOrders
<1>3. TypeOK' BY <1>1, <1>2 DEF TypeOK, Jobs
<1>4. HandTypes' BY <1>2 DEF HandTypes, Recovering, Entering
<1>5. Dated' /\ OneOrderPerPlan' /\ DisjointPlans'
  BY <1>2, RetiringKeeps DEF Dated, Retiring
<1>6. AheadIsFresh' /\ RefreshIsNewest' /\ SaveIsAlone'
  BY DEF AheadIsFresh, Ahead, RefreshIsNewest, SaveIsAlone, Entering, Recovering
<1>7. ExitsCounted'
  BY <1>1 DEF ExitsCounted, Recovering
<1> QED BY <1>3, <1>4, <1>5, <1>6, <1>7 DEF IInv

\* The recovery takes up every order that is not settled.
LEMMA RecoveryBegins ==
    ASSUME IInv, MarkFails \/ \E stage \in Stages \cup {"monitor"} : StartJob(stage)
    PROVE  IInv'
<1>1. TypeOK /\ HandTypes /\ Dated BY DEF IInv
<1> USE JobShape, ItemTypes, <1>1 DEF Jobs, Steps
<1>2. UNCHANGED <<now, plans, orders, mandates, positions, exits, crashes>>
  BY DEF MarkFails, StartJob
<1>3. PlanIds' = PlanIds /\ OrderIds' = OrderIds /\ Retiring /\ SameOrders
      /\ plans' \in Seq(Plan) /\ orders' \in Seq(Order)
      /\ mandates' \in [Exposures -> Mandate]
      /\ positions' \in [Exposures -> SUBSET OrderIds]
  BY <1>2 DEF PlanIds, OrderIds, Retiring, SameOrders, TypeOK
<1>4. now \in Nat BY BoundsAssumption DEF TypeOK
<1>5. Unsettled \subseteq OrderIds BY DEF Unsettled
<1>6. /\ job' \in Jobs /\ job'.step = "recover" /\ job'.stage \in Stages \cup {"monitor"}
      /\ job'.todo = Unsettled /\ job'.at <= now
      /\ \A p \in PlanIds : plans[p].created <= job'.at
      /\ job.step \in {"idle", "mark"}
  <2>1. CASE MarkFails
    <3>1. job' = [job EXCEPT !.step = "recover", !.seen = now, !.todo = Unsettled,
                             !.nav = FALSE]
          /\ job.step = "mark"
      BY <2>1 DEF MarkFails
    <3>2. /\ job' \in Jobs /\ job'.step = "recover" /\ job'.stage = job.stage
          /\ job'.todo = Unsettled /\ job'.at = job.at
      BY <1>4, <1>5, <3>1
    <3> QED BY <3>1, <3>2 DEF HandTypes, Dated, BeforeStage
  <2>2. ASSUME NEW stage \in Stages \cup {"monitor"}, StartJob(stage)
        PROVE  /\ job' \in Jobs /\ job'.step = "recover" /\ job'.stage = stage
               /\ job'.todo = Unsettled /\ job'.at = now /\ job.step = "idle"
    <3>1. job' = [Idle EXCEPT !.step = "recover", !.stage = stage, !.at = now,
                              !.todo = Unsettled]
          /\ job.step = "idle"
      BY <2>2 DEF StartJob
    <3>2. 0 \in 0..MaxOrders BY BoundsAssumption
    <3>3. Unsettled \in SUBSET Items BY <1>5
    <3> HIDE DEF Unsettled
    <3> QED BY <1>4, <3>1, <3>2, <3>3 DEF Idle
  <2> QED BY <1>4, <2>1, <2>2 DEF Dated
<1>7. Settled' /\ NoForgottenEntry'
  BY <1>2, <1>3, <1>6 DEF Settled, NoForgottenEntry, Unsettled, Recovering
<1> QED BY <1>2, <1>3, <1>5, <1>6, <1>7, RecoveryStep DEF Recovering

\* What fails closed is taken from the plan to the order to its mandates.
LEMMA RecoverClosedStep ==
    ASSUME IInv, RecoverCancel \/ RecoverClose \/ \E o \in OrderIds : RecoverPlan(o)
    PROVE  IInv'
<1>1. TypeOK /\ HandTypes /\ Dated /\ Settled /\ NoForgottenEntry BY DEF IInv
<1> USE JobShape, ItemTypes, <1>1 DEF Jobs, Steps
<1>2. UNCHANGED <<now, positions, exits, crashes>> /\ job.step \in Recovering
  BY DEF RecoverCancel, RecoverClose, RecoverPlan, Recovering
<1>3. /\ job.stage \in Stages \cup {"monitor"} /\ job.todo \subseteq OrderIds /\ job.at <= now
      /\ \A p \in PlanIds : plans[p].created <= job.at
      /\ positions' \in [Exposures -> SUBSET OrderIds]
      /\ mandates \in [Exposures -> Mandate]
      /\ plans \in Seq(Plan) /\ orders \in Seq(Order)
  BY <1>2 DEF HandTypes, Dated, BeforeStage, TypeOK, Recovering
<1>4. CASE RecoverCancel
  <2> DEFINE o == job.item
  <2>1. job.step = "cancel" /\ o \in OrderIds BY <1>4 DEF RecoverCancel, HandTypes
  <2>2. UNCHANGED <<plans, mandates>> /\ SetOrderStatus(o, "cancelled")
        /\ job' = [job EXCEPT !.step = "close"]
    BY <1>4 DEF RecoverCancel
  <2>3. /\ job' \in Jobs /\ job'.step = "close" /\ job'.stage = job.stage
        /\ job'.todo = job.todo /\ job'.item = o /\ job'.at = job.at
    BY <2>2
  <2> HIDE DEF o
  <2>4. /\ orders' \in Seq(Order) /\ Len(orders') = Len(orders) /\ SameOrders
        /\ orders'[o].status = "cancelled"
        /\ \A r \in OrderIds : r # o => orders'[r] = orders[r]
    BY <2>1, <2>2, OrderStatusSet DEF OrderStatuses, Retryable
  <2>5. Retiring /\ OrderIds' = OrderIds /\ PlanIds' = PlanIds
    BY <2>2, <2>4 DEF Retiring, PlanIds, SameOrders
  <2>6. Settled' BY <1>2, <2>2, <2>3, <2>4 DEF Settled, SameOrders, Recovering, Entering
  <2>7. NoForgottenEntry'
    BY <2>1, <2>3, <2>4, <2>5 DEF NoForgottenEntry, o
  <2> QED
    BY <1>2, <1>3, <2>1, <2>2, <2>3, <2>4, <2>5, <2>6, <2>7, RecoveryStep DEF Recovering
<1>5. CASE RecoverClose
  <2>1. PICK keys : CloseMandates(keys) BY <1>5 DEF RecoverClose
  <2>2. UNCHANGED <<plans, orders>> /\ job.step = "close"
        /\ job' = [job EXCEPT !.step = "recover", !.item = 0]
    BY <1>5 DEF RecoverClose, BackTo
  <2>3. /\ job' \in Jobs /\ job'.step = "recover" /\ job'.stage = job.stage
        /\ job'.todo = job.todo /\ job'.at = job.at
    BY <2>2
  <2>4. Retiring /\ SameOrders /\ OrderIds' = OrderIds
    BY <2>2 DEF Retiring, SameOrders, PlanIds, OrderIds
  <2>5. Settled' /\ NoForgottenEntry'
    BY <2>2, <2>3, <2>4 DEF Settled, NoForgottenEntry, Recovering, Entering
  <2>6. mandates' \in [Exposures -> Mandate] BY <2>1, MandateTypes
  <2> QED
    BY <1>2, <1>3, <2>2, <2>3, <2>4, <2>5, <2>6, RecoveryStep DEF Recovering
<1>6. ASSUME NEW o \in OrderIds, RecoverPlan(o) PROVE IInv'
  <2> DEFINE p == orders[o].plan
  <2>1. job.step = "recover" /\ o \in job.todo /\ p \in PlanIds
    BY <1>6 DEF RecoverPlan, Dated
  <2>2. UNCHANGED <<orders, mandates>> /\ SetPlanStatus(p, "invalidated")
        /\ job' = [job EXCEPT !.step = "cancel", !.item = o, !.todo = @ \ {o}]
    BY <1>6 DEF RecoverPlan, GotoWith
  <2>3. /\ job' \in Jobs /\ job'.step = "cancel" /\ job'.stage = job.stage
        /\ job'.todo = job.todo \ {o} /\ job'.item = o /\ job'.at = job.at
    BY <2>2
  <2> HIDE DEF p
  <2>4. /\ plans' \in Seq(Plan) /\ Len(plans') = Len(plans) /\ Retiring
        /\ plans'[p].status = "invalidated"
    BY <2>1, <2>2, PlanStatusSet DEF PlanStatuses
  <2>5. SameOrders /\ OrderIds' = OrderIds BY <2>2 DEF SameOrders, OrderIds
  <2>6. Settled'
    <3> SUFFICES ASSUME NEW r \in OrderIds, plans'[orders[r].plan].status = "active"
                 PROVE  r \in job'.todo
      BY <2>2, <2>3, <2>5 DEF Settled, Recovering
    <3>1. orders[r].plan \in PlanIds /\ r # o BY <2>4 DEF Dated, p
    <3> QED BY <2>1, <2>3, <2>4, <3>1 DEF Settled, Retiring, Recovering, Entering
  <2>7. NoForgottenEntry' BY <2>1, <2>2, <2>3, <2>5 DEF NoForgottenEntry
  <2> QED
    BY <1>2, <1>3, <2>1, <2>2, <2>3, <2>4, <2>5, <2>6, <2>7, RecoveryStep DEF Recovering
<1> QED BY <1>4, <1>5, <1>6

\* A plan whose order got further than the plan knows is active no more.
LEMMA RecoverStatusStep == ASSUME IInv, NEW o \in OrderIds, RecoverStatus(o) PROVE IInv'
<1>1. TypeOK /\ HandTypes /\ Dated /\ Settled /\ NoForgottenEntry BY DEF IInv
<1> USE JobShape, ItemTypes, <1>1 DEF Jobs, Steps
<1> DEFINE p == orders[o].plan
<1>2. /\ UNCHANGED <<now, orders, mandates, positions, exits, crashes>>
      /\ job.step = "recover" /\ o \in job.todo /\ p \in PlanIds
      /\ orders[o].status # "created"
      /\ job' = [job EXCEPT !.todo = @ \ {o}]
  BY DEF RecoverStatus, FailsClosed, Done, Dated
<1>3. /\ job.stage \in Stages \cup {"monitor"} /\ job.todo \subseteq OrderIds /\ job.at <= now
      /\ \A q \in PlanIds : plans[q].created <= job.at
      /\ positions' \in [Exposures -> SUBSET OrderIds]
      /\ mandates' \in [Exposures -> Mandate]
      /\ plans \in Seq(Plan) /\ orders \in Seq(Order)
  BY <1>2 DEF HandTypes, Dated, BeforeStage, TypeOK, Recovering
<1>4. /\ job' \in Jobs /\ job'.step = "recover" /\ job'.stage = job.stage
      /\ job'.todo = job.todo \ {o} /\ job'.at = job.at
  BY <1>2
<1>5. /\ plans' \in Seq(Plan) /\ Len(plans') = Len(plans) /\ Retiring
      /\ plans'[p].status # "active"
  <2>1. CASE plans[p].status = "active"
    <3>1. orders[o].status \in OrderStatuses \ {"created"} BY <1>2, Identifiers DEF Order
    <3>2. PlanStatusOf(orders[o].status) \in PlanStatuses \ {"active"}
      BY <3>1 DEF PlanStatusOf, PlanStatuses, OrderStatuses, Retryable
    <3>3. SetPlanStatus(p, PlanStatusOf(orders[o].status)) BY <2>1 DEF RecoverStatus
    <3> QED BY <1>2, <3>2, <3>3, PlanStatusSet
  <2>2. CASE plans[p].status # "active"
    <3>1. plans' = plans BY <2>2 DEF RecoverStatus
    <3> QED BY <1>3, <2>2, <3>1 DEF Retiring, PlanIds
  <2> QED BY <2>1, <2>2
<1>6. SameOrders /\ OrderIds' = OrderIds BY <1>2 DEF SameOrders, OrderIds
<1>7. Settled'
  <2> SUFFICES ASSUME NEW r \in OrderIds, plans'[orders[r].plan].status = "active"
               PROVE  r \in job'.todo
    BY <1>2, <1>4, <1>6 DEF Settled, Recovering
  <2>1. orders[r].plan \in PlanIds /\ r # o BY <1>5 DEF Dated
  <2> QED BY <1>2, <1>4, <1>5, <2>1 DEF Settled, Retiring, Recovering, Entering
<1>8. NoForgottenEntry' BY <1>2, <1>4, <1>6 DEF NoForgottenEntry
<1> QED BY <1>2, <1>3, <1>4, <1>5, <1>6, <1>7, <1>8, RecoveryStep DEF Recovering

\* What a fill adds to the positions is an order.
LEMMA FillTypes ==
    ASSUME TypeOK, NEW o \in OrderIds, NEW status, Fill(o, status), OrderIds' = OrderIds
    PROVE  positions' \in [Exposures -> SUBSET OrderIds]
<1>1. orders[o].exposure \in Exposures BY Identifiers DEF Order
<1>2. positions \in [Exposures -> SUBSET OrderIds] BY DEF TypeOK
<1> QED BY <1>1, <1>2 DEF Fill

\* A resting order is retried: no status that the recovery would look for.
LEMMA ProcessOrderStep == ASSUME IInv, NEW o \in OrderIds, ProcessOrder(o) PROVE IInv'
<1>1. TypeOK /\ HandTypes /\ Dated /\ ExitsCounted BY DEF IInv
<1> USE JobShape, ItemTypes, <1>1 DEF Jobs, Steps
<1>2. /\ UNCHANGED <<now, plans, mandates, exits, crashes>>
      /\ job.step = "process" /\ job.todo \subseteq OrderIds
      /\ job' = [job EXCEPT !.todo = @ \ {o}]
  BY DEF ProcessOrder, Done, HandTypes
<1>3. PICK status \in {"open", "filled", "rejected", "expired"} :
         SetOrderStatus(o, status) /\ Fill(o, status)
  BY DEF ProcessOrder
<1>4. /\ job' \in Jobs /\ job'.step = "process" /\ job'.stage = job.stage
      /\ job'.todo = job.todo \ {o} /\ job'.at = job.at
  BY <1>2
<1>5. /\ orders' \in Seq(Order) /\ Len(orders') = Len(orders) /\ SameOrders
      /\ OrderIds' = OrderIds /\ orders'[o].status = status
      /\ \A r \in OrderIds : r # o => orders'[r] = orders[r]
  BY <1>3, OrderStatusSet DEF OrderStatuses, Retryable, SameOrders
<1>6. \A r \in OrderIds :
         plans[orders[r].plan].status # "active" /\ orders[r].status # "created"
  BY <1>2, AtRest DEF Recovering, Entering
<1>7. PlanIds' = PlanIds /\ Retiring BY <1>2 DEF PlanIds, Retiring
<1>8. TypeOK'
  <2>1. positions' \in [Exposures -> SUBSET OrderIds] BY <1>3, <1>5, FillTypes
  <2> QED BY <1>2, <1>4, <1>5, <2>1 DEF TypeOK
<1>9. HandTypes' BY <1>2, <1>4, <1>5 DEF HandTypes, Recovering, Entering
<1>10. Dated' /\ OneOrderPerPlan' /\ DisjointPlans'
  BY <1>2, <1>4, <1>5, <1>7, RetiringKeeps DEF Dated, BeforeStage
<1>11. Settled' /\ NoForgottenEntry'
  BY <1>2, <1>3, <1>5, <1>6 DEF Settled, NoForgottenEntry, SameOrders
<1>12. AheadIsFresh' /\ RefreshIsNewest' /\ SaveIsAlone'
  BY <1>4 DEF AheadIsFresh, Ahead, RefreshIsNewest, SaveIsAlone, Entering
<1>13. ExitsCounted' BY <1>2, <1>4 DEF ExitsCounted
<1> QED BY <1>8, <1>9, <1>10, <1>11, <1>12, <1>13 DEF IInv

-----------------------------------------------------------------------------
(* The stages *)

\* A step of research, refresh or revalidation, or into them: no order is touched,
\* and every order is settled.
LEMMA StageStep ==
    ASSUME IInv, UNCHANGED <<now, orders, mandates, positions, exits, crashes>>,
           job.step \in {"stage", "premarket", "preopen", "research", "save", "execute"},
           plans' \in Seq(Plan), Len(plans') = Len(plans), Retiring,
           job' \in Jobs, HandTypes', job'.at = job.at,
           job'.step \in {"premarket", "preopen", "research", "save", "execute"},
           AheadIsFresh', RefreshIsNewest', SaveIsAlone'
    PROVE  IInv'
<1>1. TypeOK /\ ExitsCounted /\ Dated BY DEF IInv
<1>2. SameOrders /\ OrderIds' = OrderIds /\ PlanIds' = PlanIds
  BY DEF SameOrders, OrderIds, Retiring
<1>3. \A r \in OrderIds :
         plans[orders[r].plan].status # "active" /\ orders[r].status # "created"
  BY AtRest DEF Recovering, Entering
<1>4. TypeOK' BY <1>1, <1>2 DEF TypeOK, Jobs
<1>5. Dated' /\ OneOrderPerPlan' /\ DisjointPlans'
  BY <1>1, <1>2, RetiringKeeps DEF Dated, BeforeStage, Recovering
<1>6. Settled' /\ NoForgottenEntry'
  BY <1>1, <1>2, <1>3 DEF Settled, NoForgottenEntry, Retiring, Dated
<1>7. ExitsCounted' BY <1>1 DEF ExitsCounted
<1> QED BY <1>4, <1>5, <1>6, <1>7 DEF IInv

\* The plans that are valid at the decision time of the stage: none has an order,
\* and no younger one has been made for the same ticker.
LEMMA StageBeginsStep == ASSUME IInv, StageBegins PROVE IInv'
<1>1. TypeOK /\ HandTypes /\ Dated /\ DisjointPlans BY DEF IInv
<1> USE JobShape, ItemTypes, <1>1 DEF Jobs, Steps
<1>2. /\ UNCHANGED <<now, plans, orders, mandates, positions, exits, crashes>>
      /\ job.step = "stage" /\ job.stage \in Stages
  BY DEF StageBegins, HandTypes
<1>3. PICK step, todo :
         /\ step \in {"premarket", "preopen", "execute", "research"}
         /\ Goto(step, todo)
         /\ step = "premarket" => job.stage = "premarket_update"
         /\ step = "preopen" => job.stage = "preopen_revalidation"
         /\ step = "execute" => job.stage = "open_execution"
         /\ step = "research" => job.stage \in {"overnight", "intraday"}
         /\ todo = IF step = "research" THEN Tickers \ Occupied ELSE ActivePlans(job.at)
  BY <1>2 DEF StageBegins, Stages
<1>4. ActivePlans(job.at) \subseteq PlanIds /\ Tickers \ Occupied \subseteq Tickers
  BY DEF ActivePlans
<1>5. /\ job' \in Jobs /\ job'.step = step /\ job'.todo = todo /\ job'.at = job.at
      /\ job'.stage = job.stage
  <2>1. job' = [job EXCEPT !.step = step, !.todo = todo] BY <1>3 DEF Goto
  <2>2. todo \in SUBSET Items BY <1>3, <1>4
  <2> QED BY <1>3, <2>1, <2>2
<1>6. PlanIds' = PlanIds /\ OrderIds' = OrderIds /\ Retiring /\ plans' \in Seq(Plan)
  BY <1>2 DEF PlanIds, OrderIds, Retiring, TypeOK
<1>7. HandTypes' BY <1>3, <1>4, <1>5, <1>6 DEF HandTypes, Recovering, Entering
<1>8. AheadIsFresh'
  <2>1. \A o \in OrderIds : plans[orders[o].plan].status # "active"
    BY <1>2, AtRest DEF Recovering, Entering
  <2>2. \A p \in ActivePlans(job.at) : plans[p].status = "active" BY DEF ActivePlans
  <2>3. Ahead' \subseteq ActivePlans(job.at)
    BY <1>3, <1>5 DEF Ahead, ToExecute, Entering
  <2> QED BY <1>2, <1>6, <2>1, <2>2, <2>3 DEF AheadIsFresh
<1>9. RefreshIsNewest'
  <2> SUFFICES ASSUME NEW p \in ActivePlans(job.at), NEW q \in PlanIds, Succeeds(q, p)
               PROVE  FALSE
    BY <1>2, <1>3, <1>5, <1>6 DEF RefreshIsNewest, Succeeds
  <2>1. /\ p \in PlanIds /\ plans[p].status = "active" /\ job.at <= ValidUntil(p)
        /\ plans[q].created <= job.at
    BY <1>2 DEF ActivePlans, Dated, BeforeStage
  <2>2. ValidUntil(p) < plans[q].created BY <2>1 DEF DisjointPlans
  <2>3. job.at \in Nat /\ plans[q].created \in Nat /\ ValidUntil(p) \in Nat
    <3>1. plans[p] \in Plan /\ plans[q] \in Plan BY <2>1, Identifiers
    <3> QED BY <3>1, SignalsAssumption DEF Plan, ValidUntil
  <2> QED BY <2>1, <2>2, <2>3
<1>10. SaveIsAlone' BY <1>3, <1>5 DEF SaveIsAlone
<1> QED BY <1>2, <1>3, <1>5, <1>6, <1>7, <1>8, <1>9, <1>10, StageStep

\* One plan, ticker or entry less to deal with, or the next step for the same ones.
LEMMA StageMoves ==
    ASSUME IInv,
           \/ \E p \in PlanIds : Retain(p) \/ Invalidate(p) \/ Revalidate(p) \/ NoTrade(p)
           \/ \E ticker \in Tickers : SkipTicker(ticker)
    PROVE  IInv'
<1>1. TypeOK /\ HandTypes /\ AheadIsFresh /\ RefreshIsNewest BY DEF IInv
<1> USE JobShape, ItemTypes, <1>1 DEF Jobs, Steps
<1>2. UNCHANGED <<now, orders, mandates, positions, exits, crashes>>
  BY DEF Retain, Invalidate, Revalidate, NoTrade, SkipTicker
<1>3. plans \in Seq(Plan) /\ OrderIds' = OrderIds BY <1>2 DEF TypeOK, OrderIds
<1>4. ASSUME NEW p \in PlanIds, Retain(p) \/ Invalidate(p) \/ Revalidate(p) PROVE IInv'
  <2>1. /\ job' = [job EXCEPT !.todo = @ \ {p}] /\ job.step \in {"premarket", "preopen"}
        /\ p \in job.todo
    BY <1>4 DEF Retain, Invalidate, Revalidate, Done
  <2>2. /\ job' \in Jobs /\ job'.step = job.step /\ job'.stage = job.stage
        /\ job'.todo = job.todo \ {p} /\ job'.at = job.at
    BY <2>1
  <2>3. /\ plans' \in Seq(Plan) /\ Len(plans') = Len(plans) /\ Retiring
        /\ \A q \in PlanIds : q # p => plans'[q] = plans[q]
    <3>1. CASE Retain(p) BY <1>3, <3>1 DEF Retain, Retiring, PlanIds
    <3>2. CASE Invalidate(p)
      <4>1. SetPlanStatus(p, "invalidated") BY <3>2 DEF Invalidate
      <4> QED BY <4>1, PlanStatusSet DEF PlanStatuses
    <3>3. CASE Revalidate(p)
      <4>1. PICK t \in {job.at, now} :
               plans' = [plans EXCEPT ![p] = [@ EXCEPT !.status = "active",
                            !.stage = "preopen_revalidation", !.revalidated = t]]
        BY <3>3 DEF Revalidate
      <4> DEFINE new == [plans[p] EXCEPT !.status = "active",
                            !.stage = "preopen_revalidation", !.revalidated = t]
      <4>2. t \in Nat BY BoundsAssumption DEF TypeOK
      <4>3. plans[p].status = "active"
        <5>1. job.step = "preopen" /\ p \in Ahead BY <3>3 DEF Revalidate, Ahead, Entering
        <5> QED BY <5>1 DEF AheadIsFresh
      <4>4. /\ new \in Plan /\ new.ticker = plans[p].ticker
            /\ new.created = plans[p].created /\ new.signal = plans[p].signal
        BY <4>2, Identifiers DEF Plan, PlanStatuses, Stages
      <4>5. plans' = [plans EXCEPT ![p] = new] BY <4>1
      <4>6. \A q \in PlanIds : plans[q] \in Plan BY Identifiers
      <4> HIDE DEF new
      <4>7. /\ plans' \in [PlanIds -> Plan] /\ plans'[p] = new
            /\ \A q \in PlanIds : q # p => plans'[q] = plans[q]
        <5>1. plans = [q \in PlanIds |-> plans[q]] BY <1>3 DEF PlanIds
        <5>2. DOMAIN plans = PlanIds BY DEF PlanIds
        <5> QED BY <4>4, <4>5, <4>6, <5>1, <5>2
      <4>8. plans' \in Seq(Plan) /\ Len(plans') = Len(plans) /\ PlanIds' = PlanIds
        BY <1>3, <4>7, Replaced DEF PlanIds
      <4> QED BY <4>3, <4>4, <4>7, <4>8 DEF Retiring
    <3> QED BY <1>4, <3>1, <3>2, <3>3
  <2>4. HandTypes' BY <1>3, <2>1, <2>2, <2>3 DEF HandTypes, Recovering, Entering, Retiring
  <2>5. AheadIsFresh'
    <3>1. Ahead = job.todo /\ Ahead' = job.todo \ {p}
      BY <2>1, <2>2 DEF Ahead, Entering
    <3>2. job.todo \subseteq PlanIds BY <2>1 DEF HandTypes
    <3> QED BY <1>2, <1>3, <2>3, <3>1, <3>2 DEF AheadIsFresh
  <2>6. RefreshIsNewest'
    <3>1. job.todo \subseteq PlanIds BY <2>1 DEF HandTypes
    <3> QED BY <2>2, <2>3, <3>1 DEF RefreshIsNewest, Succeeds, Retiring
  <2>7. SaveIsAlone' BY <2>1, <2>2 DEF SaveIsAlone
  <2> QED BY <1>2, <2>1, <2>2, <2>3, <2>4, <2>5, <2>6, <2>7, StageStep
<1>5. ASSUME NEW x, NEW p, NoTrade(p) \/ (x \in Tickers /\ SkipTicker(x)) PROVE IInv'
  <2>1. UNCHANGED plans /\ job.step \in {"execute", "research"}
    BY <1>5 DEF NoTrade, SkipTicker
  <2>2. PlanIds' = PlanIds /\ Retiring BY <2>1 DEF PlanIds, Retiring
  <2>3. /\ job' \in Jobs /\ job'.stage = job.stage /\ job'.at = job.at
        /\ job'.todo \subseteq job.todo
        /\ \/ job'.step = job.step /\ (job.step = "execute" => job.stage # "intraday")
           \/ job.stage = "intraday" /\ job'.step = "research"
    <3>1. CASE NoTrade(p)
      <4>1. job' = [job EXCEPT !.step = IF job.stage = "intraday" THEN "research" ELSE "execute",
                               !.todo = @ \ {p}, !.item = 0, !.order = 0, !.seen = 0]
            /\ job.step = "execute"
        BY <3>1 DEF NoTrade, NextPlan
      <4>2. 0 \in 0..MaxOrders BY BoundsAssumption
      <4> QED BY <4>1, <4>2
    <3>2. CASE SkipTicker(x)
      <4>1. job' = [job EXCEPT !.todo = @ \ {x}] /\ job.step = "research"
        BY <3>2 DEF SkipTicker, Done
      <4> QED BY <4>1
    <3> QED BY <1>5, <3>1, <3>2
  <2>4. HandTypes' BY <1>3, <2>1, <2>2, <2>3 DEF HandTypes, Recovering, Entering
  <2>5. AheadIsFresh'
    <3>1. Ahead' \subseteq Ahead BY <2>1, <2>3 DEF Ahead, ToExecute, Entering
    <3> QED BY <1>2, <1>3, <2>1, <3>1 DEF AheadIsFresh
  <2>6. RefreshIsNewest' /\ SaveIsAlone' BY <2>1, <2>3 DEF RefreshIsNewest, SaveIsAlone
  <2> QED BY <1>2, <1>3, <2>1, <2>2, <2>3, <2>4, <2>5, <2>6, StageStep
<1> QED BY <1>4, <1>5

\* The job is over, or is killed: a kill may leave an exit order in "created".
LEMMA IdleStep == ASSUME IInv, JobEnds \/ MandateExists \/ Crash PROVE IInv'
<1>1. TypeOK /\ ExitsCounted /\ Dated /\ OneOrderPerPlan /\ DisjointPlans BY DEF IInv
<1>2. /\ UNCHANGED <<now, plans, orders, mandates, positions, exits>> /\ job' = Idle
      /\ \/ crashes' = crashes /\ job.step # "exit"
         \/ crashes' = crashes + 1 /\ crashes < MaxCrashes
  BY DEF JobEnds, MandateExists, Crash
<1>3. PlanIds' = PlanIds /\ OrderIds' = OrderIds BY <1>2 DEF PlanIds, OrderIds
<1>4. job'.step = "idle" BY <1>2 DEF Idle
<1>5. crashes \in 0..MaxCrashes /\ crashes' \in 0..MaxCrashes
  BY <1>1, <1>2, BoundsAssumption DEF TypeOK
<1>6. TypeOK'
  <2>1. Idle \in Jobs BY BoundsAssumption DEF Idle, Jobs, Steps, Items
  <2> QED BY <1>1, <1>2, <1>3, <1>5, <2>1 DEF TypeOK, Jobs
<1>7. HandTypes' /\ AheadIsFresh' /\ RefreshIsNewest' /\ SaveIsAlone'
      /\ Settled' /\ NoForgottenEntry'
  BY <1>4 DEF HandTypes, AheadIsFresh, Ahead, RefreshIsNewest, SaveIsAlone, Settled,
     NoForgottenEntry, Recovering, Entering
<1>8. ExitsCounted'
  <2> SUFFICES ASSUME NEW e \in Exposures PROVE exits[e] <= crashes'
    BY <1>2, <1>4, <1>5 DEF ExitsCounted
  <2>1. exits[e] \in Nat BY <1>1 DEF TypeOK
  <2>2. exits[e] <= crashes + (IF job.step = "exit" /\ job.item = e THEN 1 ELSE 0)
    BY <1>1 DEF ExitsCounted
  <2> QED BY <1>2, <1>5, <2>1, <2>2
<1>9. Dated' /\ OneOrderPerPlan' /\ DisjointPlans'
  BY <1>1, <1>2, <1>3, <1>4 DEF Dated, OneOrderPerPlan, DisjointPlans, Succeeds, ValidUntil,
     BeforeStage, Recovering
<1> QED BY <1>6, <1>7, <1>8, <1>9 DEF IInv

LEMMA TickStep == ASSUME IInv, Tick PROVE IInv'
<1>1. TypeOK /\ HandTypes /\ ExitsCounted /\ Dated /\ OneOrderPerPlan /\ Settled
      /\ AheadIsFresh /\ DisjointPlans /\ RefreshIsNewest /\ NoForgottenEntry
  BY DEF IInv
<1>2. /\ UNCHANGED <<plans, orders, mandates, positions, exits, job, crashes>>
      /\ now' = now + 1 /\ now < LastTime /\ job.step \in Waiting
  BY DEF Tick
<1>3. PlanIds' = PlanIds /\ OrderIds' = OrderIds /\ Ahead' = Ahead
  BY <1>2 DEF PlanIds, OrderIds, Ahead, ToExecute
<1>4. now \in FirstTime..LastTime BY <1>1 DEF TypeOK
<1>5. TypeOK' BY <1>1, <1>2, <1>3, <1>4, BoundsAssumption DEF TypeOK
<1>6. Dated'
  <2>1. now \in Nat /\ now' \in Nat /\ now <= now' BY <1>2, <1>4, BoundsAssumption
  <2>2. \A p \in PlanIds : plans[p].created \in Nat BY <1>1, Identifiers DEF Plan
  <2>3. job.at \in Nat BY <1>1, JobShape DEF Jobs
  <2> QED BY <1>1, <1>2, <1>3, <2>1, <2>2, <2>3 DEF Dated
<1>7. HandTypes' /\ ExitsCounted' BY <1>1, <1>2, <1>3 DEF HandTypes, ExitsCounted
<1>8. OneOrderPerPlan' /\ Settled' /\ DisjointPlans' /\ NoForgottenEntry'
  BY <1>1, <1>2, <1>3 DEF OneOrderPerPlan, Settled, DisjointPlans, Succeeds, ValidUntil,
     NoForgottenEntry
<1>9. AheadIsFresh' /\ RefreshIsNewest' /\ SaveIsAlone'
  BY <1>1, <1>2, <1>3 DEF AheadIsFresh, RefreshIsNewest, Succeeds, SaveIsAlone, Waiting
<1> QED BY <1>5, <1>6, <1>7, <1>8, <1>9 DEF IInv

\* Of the plans of a ticker, those that are valid now become active no more.
LEMMA RetireKeeps ==
    ASSUME TypeOK, NEW ticker, NEW status \in PlanStatuses \ {"active"}, Retire(ticker, status)
    PROVE  /\ plans' \in Seq(Plan) /\ Len(plans') = Len(plans) /\ Retiring
           /\ \A p \in PlanIds :
                 plans'[p].ticker = ticker /\ plans'[p].status = "active" =>
                 p \notin ActivePlans(now)
<1> DEFINE retired(p) == [plans[p] EXCEPT !.status = status]
<1>1. \A p \in PlanIds :
         /\ plans[p] \in Plan /\ retired(p) \in Plan /\ retired(p).status = status
         /\ retired(p).ticker = plans[p].ticker /\ retired(p).created = plans[p].created
         /\ retired(p).signal = plans[p].signal
  BY Identifiers DEF Plan
<1>2. plans' = [p \in PlanIds |->
                   IF p \in ActivePlans(now) /\ plans[p].ticker = ticker
                   THEN retired(p) ELSE plans[p]]
  BY DEF Retire
<1> HIDE DEF retired
<1>3. plans' \in [PlanIds -> Plan] BY <1>1, <1>2
<1>4. plans' \in Seq(Plan) /\ Len(plans') = Len(plans) /\ PlanIds' = PlanIds
  BY <1>3, Replaced DEF PlanIds, TypeOK
<1>5. \A p \in PlanIds :
         plans'[p] = IF p \in ActivePlans(now) /\ plans[p].ticker = ticker
                     THEN retired(p) ELSE plans[p]
  BY <1>2
<1>6. \A p \in PlanIds :
         plans'[p].ticker = ticker /\ plans'[p].status = "active" => p \notin ActivePlans(now)
  BY <1>1, <1>5
<1>7. Retiring BY <1>1, <1>4, <1>5 DEF Retiring
<1> QED BY <1>4, <1>6, <1>7

LEMMA RetireStep ==
    ASSUME IInv, NEW ticker \in Tickers, NoProposal(ticker) \/ Propose(ticker)
    PROVE  IInv'
<1>1. TypeOK /\ HandTypes /\ Dated BY DEF IInv
<1> USE JobShape, ItemTypes, <1>1 DEF Jobs, Steps
<1>2. /\ UNCHANGED <<now, orders, mandates, positions, exits, crashes>>
      /\ job.step = "research" /\ job.todo \subseteq Tickers
      /\ job.stage \in {"overnight", "intraday"}
  BY DEF NoProposal, Propose, HandTypes
<1>3. PICK status \in PlanStatuses \ {"active"} : Retire(ticker, status)
  BY DEF NoProposal, Propose, PlanStatuses
<1>4. /\ plans' \in Seq(Plan) /\ Len(plans') = Len(plans) /\ Retiring
      /\ \A p \in PlanIds :
            plans'[p].ticker = ticker /\ plans'[p].status = "active" => p \notin ActivePlans(now)
  BY <1>3, RetireKeeps
<1>5. now \in Nat BY BoundsAssumption DEF TypeOK
<1>6. /\ job' \in Jobs /\ job'.stage = job.stage /\ job'.at = job.at
      /\ job'.todo = job.todo \ {ticker}
      /\ \/ job'.step = "research"
         \/ /\ job'.step = "save" /\ job'.item = ticker /\ job'.seen = now
            /\ Len(plans) < MaxPlans
  <2>1. CASE NoProposal(ticker)
    <3>1. job' = [job EXCEPT !.todo = @ \ {ticker}] BY <2>1 DEF NoProposal, Done
    <3> QED BY <1>2, <3>1
  <2>2. CASE Propose(ticker)
    <3>1. job' = [job EXCEPT !.step = "save", !.item = ticker, !.seen = now,
                             !.todo = @ \ {ticker}]
          /\ Len(plans) < MaxPlans
      BY <2>2 DEF Propose
    <3> QED BY <1>5, <3>1
  <2> QED BY <2>1, <2>2
<1>7. HandTypes' BY <1>2, <1>4, <1>6 DEF HandTypes, Recovering, Entering
<1>8. AheadIsFresh' /\ RefreshIsNewest'
  BY <1>6 DEF AheadIsFresh, Ahead, RefreshIsNewest, Entering
<1>9. SaveIsAlone'
  <2> SUFFICES ASSUME NEW p \in PlanIds, plans'[p].ticker = ticker,
                      plans'[p].status = "active"
               PROVE  ValidUntil(p) < now
    BY <1>2, <1>4, <1>6 DEF SaveIsAlone, Retiring, ValidUntil
  <2>1. p \notin ActivePlans(now) /\ plans[p].status = "active" BY <1>4 DEF Retiring
  <2>2. plans[p].created <= now BY DEF Dated
  <2>3. ~(now <= ValidUntil(p)) BY <2>1, <2>2 DEF ActivePlans
  <2>4. ValidUntil(p) \in Nat
    <3>1. plans[p] \in Plan BY Identifiers
    <3> QED BY <3>1, SignalsAssumption DEF Plan, ValidUntil
  <2> QED BY <1>5, <2>3, <2>4
<1> QED BY <1>2, <1>4, <1>6, <1>7, <1>8, <1>9, StageStep

\* A plan is made when the ticker has no valid one left: the older plans are retired
\* or have expired.
LEMMA NewPlanStep ==
    ASSUME IInv, UNCHANGED <<now, orders, mandates, positions, exits, crashes>>,
           job.step \in {"premarket", "save"}, Len(plans) < MaxPlans,
           NEW base, base \in Seq(Plan), DOMAIN base = PlanIds, Len(base) = Len(plans),
           NEW new \in Plan, new.created = now, plans' = Append(base, new),
           \A p \in PlanIds :
              /\ base[p].ticker = plans[p].ticker /\ base[p].created = plans[p].created
              /\ base[p].signal = plans[p].signal
              /\ base[p].status = "active" => plans[p].status = "active"
              /\ base[p].status = "active" /\ plans[p].ticker = new.ticker =>
                    ValidUntil(p) < now,
           job' \in Jobs, HandTypes', job'.at = job.at,
           job'.step \in {"premarket", "research", "execute"},
           AheadIsFresh', RefreshIsNewest'
    PROVE  IInv'
<1>1. TypeOK /\ ExitsCounted /\ Dated /\ OneOrderPerPlan /\ DisjointPlans BY DEF IInv
<1> DEFINE n == Len(plans) + 1
<1>2. /\ plans' \in Seq(Plan) /\ Len(plans') = Len(plans) + 1
      /\ PlanIds' = PlanIds \cup {n} /\ n \notin PlanIds
      /\ \A p \in PlanIds : plans'[p] = base[p]
      /\ plans'[n] = new
  BY Appended DEF PlanIds
<1>3. PlanIds = 1..Len(plans) /\ Len(plans) \in Nat /\ n = Len(plans) + 1
  BY <1>1, Identifiers
<1>4. \A p \in PlanIds : p < n BY <1>3
<1> HIDE DEF n
<1>5. OrderIds' = OrderIds BY DEF OrderIds
<1>6. \A r \in OrderIds : orders[r].plan \in PlanIds
         /\ plans[orders[r].plan].status # "active" /\ orders[r].status # "created"
  BY <1>1, AtRest DEF Recovering, Entering, Dated
<1>7. TypeOK'
  <2>1. Len(plans') <= MaxPlans BY <1>2, <1>3, BoundsAssumption
  <2> QED BY <1>1, <1>2, <1>5, <2>1 DEF TypeOK, Jobs
<1>8. ExitsCounted' BY <1>1 DEF ExitsCounted
<1>9. Dated'
  <2>1. now <= now BY <1>1, BoundsAssumption DEF TypeOK
  <2> QED BY <1>1, <1>2, <1>5, <1>6, <2>1 DEF Dated, BeforeStage, Recovering
<1>10. OneOrderPerPlan' BY <1>1, <1>5 DEF OneOrderPerPlan
<1>11. Settled' /\ NoForgottenEntry'
  BY <1>2, <1>5, <1>6 DEF Settled, NoForgottenEntry
<1>12. DisjointPlans'
  <2> SUFFICES ASSUME NEW p \in PlanIds', NEW q \in PlanIds', Succeeds(q, p)',
                      plans'[p].status = "active"
               PROVE  ValidUntil(p)' < plans'[q].created
    BY DEF DisjointPlans
  <2>1. p < q /\ plans'[p].ticker = plans'[q].ticker /\ plans'[q].status = "active"
    BY DEF Succeeds
  <2>2. CASE p \in PlanIds /\ q \in PlanIds
    BY <1>1, <1>2, <2>1, <2>2 DEF DisjointPlans, Succeeds, ValidUntil
  <2>3. CASE p \in PlanIds /\ q = n
    <3>1. plans'[p] = base[p] /\ plans'[q] = new BY <1>2, <2>3
    <3>2. base[p].status = "active" /\ plans[p].ticker = new.ticker BY <2>1, <2>3, <3>1
    <3>3. ValidUntil(p) < now BY <2>3, <3>2
    <3>4. ValidUntil(p)' = ValidUntil(p) BY <2>3, <3>1 DEF ValidUntil
    <3> QED BY <3>1, <3>3, <3>4
  <2>4. p # n
    <3>1. p = n => p \in Nat /\ q \in Nat /\ (q < n \/ q = n) BY <1>2, <1>3, <1>4
    <3> QED BY <2>1, <3>1
  <2>5. (p \in PlanIds \/ p = n) /\ (q \in PlanIds \/ q = n) BY <1>2
  <2> QED BY <2>2, <2>3, <2>4, <2>5
<1>13. SaveIsAlone' BY DEF SaveIsAlone
<1> QED BY <1>7, <1>8, <1>9, <1>10, <1>11, <1>12, <1>13 DEF IInv

\* The plan that research saves is the first for its order.
LEMMA SavePlanStep == ASSUME IInv, NEW signal \in Signals, SavePlan(signal) PROVE IInv'
<1>1. TypeOK /\ HandTypes /\ Dated /\ SaveIsAlone BY DEF IInv
<1> USE JobShape, ItemTypes, <1>1 DEF Jobs, Steps
<1> DEFINE n == Len(plans) + 1
           new == NewPlan(job.item, signal, job.seen)
<1>2. /\ UNCHANGED <<now, orders, mandates, positions, exits, crashes>>
      /\ job.step = "save" /\ job.todo \subseteq Tickers /\ job.item \in Tickers
      /\ job.stage \in {"overnight", "intraday"} /\ job.seen = now
      /\ plans' = Append(plans, new)
  BY DEF SavePlan, HandTypes, SaveIsAlone
<1>3. now \in Nat BY BoundsAssumption DEF TypeOK
<1>4. /\ new \in Plan /\ new.created = now /\ new.status = "active"
      /\ new.ticker = job.item
  BY <1>2, <1>3 DEF NewPlan, Plan, PlanStatuses, Stages
<1> HIDE DEF new
<1>5. /\ DOMAIN plans = PlanIds /\ n \in Nat /\ plans \in Seq(Plan)
      /\ PlanIds' = PlanIds \cup {n} /\ n \notin PlanIds /\ plans'[n] = new
      /\ \A p \in PlanIds : plans'[p] = plans[p]
      /\ plans' \in Seq(Plan)
  <2>1. plans \in Seq(Plan) BY DEF TypeOK
  <2> QED BY <1>2, <1>4, <2>1, Appended DEF PlanIds
<1>6. Len(plans) < MaxPlans /\ n \in 0..MaxPlans
  BY <1>2, <1>5, BoundsAssumption, Identifiers DEF HandTypes
<1>7. /\ job' \in Jobs /\ job'.stage = job.stage /\ job'.at = job.at /\ job'.todo = job.todo
      /\ \/ job'.step = "execute" /\ job'.item = n /\ job.stage = "intraday"
         \/ job'.step = "research"
  <2>1. n \in Items BY <1>6 DEF Items
  <2> HIDE DEF n
  <2>2. CASE job.stage = "intraday"
    <3>1. job' = [job EXCEPT !.step = "execute", !.item = n] BY <2>2 DEF SavePlan, n
    <3> QED BY <2>1, <2>2, <3>1
  <2>3. CASE job.stage # "intraday"
    <3>1. job' = [job EXCEPT !.step = "research", !.item = 0] BY <2>3 DEF SavePlan, BackTo
    <3> QED BY <3>1
  <2> QED BY <2>2, <2>3
<1> HIDE DEF n
<1>8. OrderIds' = OrderIds BY <1>2 DEF OrderIds
<1>9. HandTypes' BY <1>2, <1>5, <1>7 DEF HandTypes, Recovering, Entering
<1>10. AheadIsFresh'
  <2>1. Ahead' \subseteq {n} BY <1>7 DEF Ahead, ToExecute, Entering
  <2>2. \A o \in OrderIds : orders'[o].plan # n BY <1>2, <1>5 DEF Dated
  <2> QED BY <1>4, <1>5, <1>8, <2>1, <2>2 DEF AheadIsFresh
<1>11. RefreshIsNewest' BY <1>7 DEF RefreshIsNewest
<1>12. \A p \in PlanIds :
          plans[p].status = "active" /\ plans[p].ticker = new.ticker => ValidUntil(p) < now
  BY <1>2, <1>4 DEF SaveIsAlone
<1> QED
  BY <1>2, <1>4, <1>5, <1>6, <1>7, <1>9, <1>10, <1>11, <1>12, NewPlanStep

\* A plan is replaced by one that is dated later than the end of every other plan
\* of the ticker: they are older than the one replaced.
LEMMA ReplaceStep ==
    ASSUME IInv, NEW p \in PlanIds, NEW signal \in Signals, Replace(p, signal)
    PROVE  IInv'
<1>1. TypeOK /\ HandTypes /\ Dated /\ AheadIsFresh /\ DisjointPlans /\ RefreshIsNewest
  BY DEF IInv
<1> USE JobShape, ItemTypes, <1>1 DEF Jobs, Steps
<1> DEFINE n == Len(plans) + 1
           old == [plans[p] EXCEPT !.status = "superseded"]
           base == [plans EXCEPT ![p] = old]
           new == NewPlan(plans[p].ticker, signal, now)
<1>2. /\ UNCHANGED <<now, orders, mandates, positions, exits, crashes>>
      /\ job.step = "premarket" /\ job.todo \subseteq PlanIds /\ p \in job.todo
      /\ job.stage = "premarket_update" /\ Len(plans) < MaxPlans
      /\ plans' = Append(base, new)
      /\ job' = [job EXCEPT !.todo = @ \ {p}]
  BY DEF Replace, HandTypes, Done
<1>3. /\ job' \in Jobs /\ job'.step = "premarket" /\ job'.stage = job.stage
      /\ job'.at = job.at /\ job'.todo = job.todo \ {p}
  BY <1>2
<1>4. now \in Nat BY BoundsAssumption DEF TypeOK
<1>5. /\ new \in Plan /\ new.created = now /\ new.status = "active"
      /\ new.ticker = plans[p].ticker
  BY <1>2, <1>4, Identifiers DEF NewPlan, Plan, PlanStatuses, Stages
<1>6. /\ old \in Plan /\ old.status = "superseded" /\ old.ticker = plans[p].ticker
      /\ old.created = plans[p].created /\ old.signal = plans[p].signal
  BY Identifiers DEF Plan, PlanStatuses
<1>7. /\ base \in Seq(Plan) /\ Len(base) = Len(plans) /\ DOMAIN base = PlanIds
      /\ base[p] = old /\ \A q \in PlanIds : q # p => base[q] = plans[q]
  <2>1. plans \in Seq(Plan) /\ DOMAIN plans = PlanIds
        /\ \A q \in PlanIds : plans[q] \in Plan
    BY Identifiers DEF TypeOK, PlanIds
  <2>2. plans = [q \in PlanIds |-> plans[q]] BY <2>1
  <2> HIDE DEF old
  <2>3. base \in [PlanIds -> Plan] /\ base[p] = old
        /\ \A q \in PlanIds : q # p => base[q] = plans[q]
    BY <1>6, <2>1, <2>2
  <2> HIDE DEF base
  <2> QED BY <2>1, <2>3, Replaced
<1> HIDE DEF base, new, old
<1>8. /\ PlanIds' = PlanIds \cup {n} /\ n \notin PlanIds /\ plans'[n] = new
      /\ \A q \in PlanIds : plans'[q] = base[q]
  <2>1. n = Len(base) + 1 BY <1>7
  <2> HIDE DEF n
  <2> QED BY <1>2, <1>5, <1>7, <2>1, Appended DEF PlanIds
<1> HIDE DEF n
<1>9. OrderIds' = OrderIds BY <1>2 DEF OrderIds
<1>10. HandTypes' BY <1>2, <1>3, <1>8 DEF HandTypes, Recovering, Entering
<1>11. Ahead = job.todo /\ Ahead' = job.todo \ {p} BY <1>2, <1>3 DEF Ahead, Entering
<1>12. \A q \in job.todo : plans[q].status = "active" BY <1>11 DEF AheadIsFresh
<1>13. AheadIsFresh'
  <2>1. \A q \in Ahead' : q \in PlanIds /\ q # p /\ plans'[q] = plans[q]
    BY <1>2, <1>7, <1>8, <1>11
  <2> QED BY <1>2, <1>9, <1>11, <2>1 DEF AheadIsFresh
<1>14. \A q \in PlanIds : plans[q].status = "active" /\ plans[q].ticker = plans[p].ticker
                           /\ q # p => q < p
  <2> SUFFICES ASSUME NEW q \in PlanIds, plans[q].status = "active", q # p,
                      plans[q].ticker = plans[p].ticker
               PROVE  q < p
    OBVIOUS
  <2>1. ~(p < q) BY <1>2 DEF RefreshIsNewest, Succeeds
  <2>2. p \in Nat /\ q \in Nat BY Identifiers
  <2> QED BY <2>1, <2>2
<1>15. \A q \in PlanIds :
          base[q].status = "active" /\ plans[q].ticker = new.ticker => ValidUntil(q) < now
  <2> SUFFICES ASSUME NEW q \in PlanIds, base[q].status = "active",
                      plans[q].ticker = plans[p].ticker
               PROVE  ValidUntil(q) < now
    BY <1>5
  <2>1. q # p BY <1>6, <1>7
  <2>2. plans[q].status = "active" /\ q < p BY <1>7, <1>14, <2>1
  <2>3. ValidUntil(q) < plans[p].created
    BY <1>2, <1>12, <2>2 DEF DisjointPlans, Succeeds
  <2>4. plans[p].created <= now BY DEF Dated
  <2>5. ValidUntil(q) \in Nat /\ plans[p].created \in Nat
    <3>1. plans[p] \in Plan /\ plans[q] \in Plan BY Identifiers
    <3> QED BY <3>1, SignalsAssumption DEF Plan, ValidUntil
  <2> QED BY <1>4, <2>3, <2>4, <2>5
<1>16. RefreshIsNewest'
  <2> SUFFICES ASSUME NEW r \in job.todo \ {p}, NEW q \in PlanIds', Succeeds(q, r)'
               PROVE  FALSE
    BY <1>3 DEF RefreshIsNewest
  <2>1. r \in PlanIds /\ plans'[r] = plans[r] BY <1>2, <1>7, <1>8
  <2>2. r < q /\ plans'[r].ticker = plans'[q].ticker /\ plans'[q].status = "active"
    BY DEF Succeeds
  <2>3. CASE q = n
    <3>1. plans[r].ticker = plans[p].ticker BY <1>5, <1>8, <2>1, <2>2, <2>3
    <3>2. plans[r].status = "active" /\ plans[p].status = "active" BY <1>2, <1>12
    <3>3. r < p BY <1>14, <2>1, <3>1, <3>2
    <3>4. Succeeds(p, r) BY <3>1, <3>2, <3>3 DEF Succeeds
    <3> QED BY <1>2, <3>4 DEF RefreshIsNewest
  <2>4. CASE q \in PlanIds
    <3>1. q # p BY <1>6, <1>7, <1>8, <2>2
    <3>2. plans'[q] = plans[q] BY <1>7, <1>8, <2>4, <3>1
    <3>3. Succeeds(q, r) BY <2>1, <2>2, <3>2 DEF Succeeds
    <3> QED BY <1>2, <2>4, <3>3 DEF RefreshIsNewest
  <2> QED BY <1>8, <2>3, <2>4
<1>17. \A q \in PlanIds :
          /\ base[q].ticker = plans[q].ticker /\ base[q].created = plans[q].created
          /\ base[q].signal = plans[q].signal
          /\ base[q].status = "active" => plans[q].status = "active"
          /\ base[q].status = "active" /\ plans[q].ticker = new.ticker => ValidUntil(q) < now
  BY <1>6, <1>7, <1>15
<1>18. job.step \in {"premarket", "save"} /\ job'.step \in {"premarket", "research", "execute"}
  BY <1>2, <1>3
<1>19. IInv /\ UNCHANGED <<now, orders, mandates, positions, exits, crashes>>
       /\ Len(plans) < MaxPlans /\ plans' = Append(base, new) /\ new \in Plan
       /\ base \in Seq(Plan) /\ DOMAIN base = PlanIds /\ Len(base) = Len(plans)
       /\ new.created = now /\ job' \in Jobs /\ job'.at = job.at
  BY <1>2, <1>3, <1>5, <1>7
<1> QED
  BY ONLY <1>10, <1>13, <1>16, <1>17, <1>18, <1>19, NewPlanStep

-----------------------------------------------------------------------------
(* The entry of a plan *)

\* The first order of a plan that the stage still had to execute.
LEMMA CreateEntryStep ==
    ASSUME IInv, NEW p \in PlanIds, NEW e \in Exposures, CreateEntry(p, e)
    PROVE  IInv'
<1>1. TypeOK /\ HandTypes /\ ExitsCounted /\ Dated /\ OneOrderPerPlan /\ AheadIsFresh
      /\ DisjointPlans
  BY DEF IInv
<1> USE JobShape, ItemTypes, <1>1 DEF Jobs, Steps
<1> DEFINE n == Len(orders) + 1
           exit == PlannedExit(now, plans[p].signal.horizon)
           new == [status |-> "created", exposure |-> e, plan |-> p]
<1>2. /\ UNCHANGED <<now, plans, mandates, positions, exits, crashes>>
      /\ job.step = "execute" /\ p \in ToExecute /\ Len(orders) < MaxOrders
      /\ orders' = Append(orders, new)
      /\ job' = [job EXCEPT !.step = "register", !.item = p, !.order = n, !.seen = exit]
  BY DEF CreateEntry
<1>3. /\ plans[p].status = "active" /\ p \in 1..MaxPlans
      /\ \A o \in OrderIds : orders[o].plan # p
  <2>1. p \in Ahead BY <1>2 DEF Ahead, Entering
  <2> QED BY <2>1, Identifiers DEF AheadIsFresh
<1>4. exit \in Nat
  <2>1. now \in Nat BY BoundsAssumption DEF TypeOK
  <2>2. plans[p].signal.horizon \in Nat BY Identifiers, SignalsAssumption DEF Plan
  <2>3. now \div 5 \in Nat BY <2>1
  <2> QED BY <2>2, <2>3 DEF PlannedExit
<1>5. new \in Order /\ new.plan = p
  BY <1>3 DEF Order, OrderStatuses
<1> HIDE DEF new, exit
<1>6. /\ orders' \in Seq(Order) /\ Len(orders') = n /\ n \in 1..MaxOrders
      /\ OrderIds' = OrderIds \cup {n} /\ n \notin OrderIds
      /\ \A o \in OrderIds : orders'[o] = orders[o]
      /\ orders'[n] = new
  <2>1. orders \in Seq(Order) /\ Len(orders) \in Nat BY DEF TypeOK
  <2> QED BY <1>2, <1>5, <2>1, Appended, BoundsAssumption DEF OrderIds
<1> HIDE DEF n
<1>7. /\ job' \in Jobs /\ job'.step = "register" /\ job'.item = p /\ job'.order = n
      /\ job'.stage = job.stage /\ job'.at = job.at /\ job'.todo = job.todo
  <2>1. n \in 0..MaxOrders BY <1>6
  <2> QED BY <1>2, <1>4, <2>1
<1>8. PlanIds' = PlanIds BY <1>2 DEF PlanIds
<1>9. \A o \in OrderIds :
         plans[orders[o].plan].status # "active" /\ orders[o].status # "created"
  BY <1>2, AtRest DEF Recovering, Entering
<1>10. TypeOK'
  <2>1. positions' \in [Exposures -> SUBSET OrderIds'] BY <1>2, <1>6 DEF TypeOK
  <2>2. Len(orders') <= MaxOrders BY <1>6
  <2> QED BY <1>2, <1>6, <1>7, <2>1, <2>2 DEF TypeOK
<1>11. HandTypes'
  BY <1>2, <1>5, <1>6, <1>7, <1>8 DEF HandTypes, Recovering, Entering
<1>12. ExitsCounted' BY <1>2, <1>7 DEF ExitsCounted
<1>13. Dated' BY <1>2, <1>5, <1>6, <1>7, <1>8 DEF Dated, BeforeStage, Recovering
<1>14. OneOrderPerPlan' BY <1>3, <1>5, <1>6 DEF OneOrderPerPlan
<1>15. DisjointPlans' BY <1>2, <1>8 DEF DisjointPlans, Succeeds, ValidUntil
<1>16. Settled' /\ NoForgottenEntry'
  <2>1. \A o \in OrderIds' : o = n \/ o \in OrderIds BY <1>6
  <2>2. \A o \in OrderIds :
           plans'[orders'[o].plan].status # "active" /\ orders'[o].status # "created"
    BY <1>2, <1>6, <1>9
  <2> QED BY ONLY <1>7, <2>1, <2>2 DEF Settled, NoForgottenEntry, Entering
<1>17. AheadIsFresh'
  <2>1. Ahead' \subseteq Ahead \ {p}
    BY <1>2, <1>7 DEF Ahead, ToExecute, Entering
  <2> SUFFICES ASSUME NEW q \in Ahead'
               PROVE  plans'[q].status = "active" /\ \A o \in OrderIds' : orders'[o].plan # q
    BY DEF AheadIsFresh
  <2>2. plans'[q].status = "active" /\ \A o \in OrderIds : orders[o].plan # q
    BY <1>2, <2>1 DEF AheadIsFresh
  <2>3. \A o \in OrderIds : orders'[o].plan # q BY <1>6, <2>2
  <2>4. orders'[n].plan # q BY <1>5, <1>6, <2>1
  <2> QED BY <1>6, <2>2, <2>3, <2>4
<1>18. RefreshIsNewest' /\ SaveIsAlone' BY <1>7 DEF RefreshIsNewest, SaveIsAlone
<1> QED
  BY <1>10, <1>11, <1>12, <1>13, <1>14, <1>15, <1>16, <1>17, <1>18 DEF IInv

\* The order at hand is taken through the mandate, the gate, the fill and the
\* reconciliation; it is left in "created" by none of them but the first.
LEMMA EntryStep ==
    ASSUME IInv, UNCHANGED <<now, plans, exits, crashes>>,
           job.step \in Entering,
           NEW next \in Entering \ {"register"}, job' = [job EXCEPT !.step = next],
           next = "submit" => job.step = "register",
           orders' \in Seq(Order), Len(orders') = Len(orders), SameOrders,
           \A o \in OrderIds : o # job.order => orders'[o] = orders[o],
           next # "submit" => orders'[job.order].status # "created",
           mandates' \in [Exposures -> Mandate],
           positions' \in [Exposures -> SUBSET OrderIds]
    PROVE  IInv'
<1>1. TypeOK /\ HandTypes /\ ExitsCounted /\ Dated /\ Settled /\ AheadIsFresh
      /\ NoForgottenEntry
  BY DEF IInv
<1>2. /\ job' \in Jobs /\ job'.step = next /\ job'.stage = job.stage /\ job'.at = job.at
      /\ job'.todo = job.todo /\ job'.item = job.item /\ job'.order = job.order
  BY <1>1, JobShape DEF Jobs, Steps, Entering
<1>3. PlanIds' = PlanIds /\ OrderIds' = OrderIds /\ Retiring
  BY DEF PlanIds, SameOrders, Retiring
<1>4. TypeOK' BY <1>1, <1>2, <1>3 DEF TypeOK, Jobs
<1>5. HandTypes'
  BY <1>1, <1>2, <1>3 DEF HandTypes, Recovering, Entering, SameOrders
<1>6. ExitsCounted' BY <1>1, <1>2 DEF ExitsCounted, Entering
<1>7. Dated' /\ OneOrderPerPlan' /\ DisjointPlans'
  BY <1>1, <1>2, <1>3, RetiringKeeps DEF Dated, BeforeStage, Recovering, Entering
<1>8. Settled'
  BY <1>1, <1>2, <1>3 DEF Settled, SameOrders, Entering, Recovering
<1>9. NoForgottenEntry'
  <2> SUFFICES ASSUME NEW o \in OrderIds, orders'[o].status = "created"
               PROVE  next = "submit" /\ o = job.order
    BY <1>2, <1>3 DEF NoForgottenEntry
  <2>1. CASE o = job.order BY <2>1
  <2>2. CASE o # job.order BY <1>1, <2>2 DEF NoForgottenEntry, Entering
  <2> QED BY <2>1, <2>2
<1>10. AheadIsFresh'
  <2>1. Ahead' = Ahead BY <1>2 DEF Ahead, Entering
  <2> QED BY <1>1, <1>3, <2>1 DEF AheadIsFresh, SameOrders
<1>11. RefreshIsNewest' /\ SaveIsAlone'
  BY <1>2 DEF RefreshIsNewest, SaveIsAlone, Entering
<1> QED BY <1>4, <1>5, <1>6, <1>7, <1>8, <1>9, <1>10, <1>11 DEF IInv

\* RegisterMandate, Submit, Settle and ReconcileEntry.
LEMMA EntryMoves ==
    ASSUME IInv, RegisterMandate \/ Submit \/ Settle \/ ReconcileEntry
    PROVE  IInv'
<1>1. TypeOK /\ HandTypes BY DEF IInv
<1>2. UNCHANGED <<now, plans, exits, crashes>> /\ job.step \in Entering
  BY DEF RegisterMandate, Submit, Settle, ReconcileEntry, ReconcileTo, Entering
<1>3. job.order \in OrderIds /\ mandates \in [Exposures -> Mandate]
      /\ positions \in [Exposures -> SUBSET OrderIds] /\ orders \in Seq(Order)
  BY <1>1, <1>2 DEF HandTypes, TypeOK
<1>s. ASSUME UNCHANGED orders PROVE SameOrders /\ OrderIds' = OrderIds
  BY <1>s DEF SameOrders, OrderIds
<1>o. ASSUME NEW status \in OrderStatuses \ {"created"}, SetOrderStatus(job.order, status)
      PROVE  /\ orders' \in Seq(Order) /\ Len(orders') = Len(orders) /\ SameOrders
             /\ OrderIds' = OrderIds /\ orders'[job.order].status # "created"
             /\ \A r \in OrderIds : r # job.order => orders'[r] = orders[r]
  BY <1>1, <1>3, <1>o, OrderStatusSet DEF SameOrders
<1>4. CASE RegisterMandate
  <2> DEFINE e == orders[job.order].exposure
             new == [status |-> "pending_fill", order |-> job.order, exit |-> job.seen]
  <2>1. /\ UNCHANGED <<orders, positions>> /\ job.step = "register"
        /\ job' = [job EXCEPT !.step = "submit"]
        /\ mandates' = [mandates EXCEPT ![e] = new]
    BY <1>4 DEF RegisterMandate
  <2>2. new \in Mandate BY <1>1, JobShape DEF Jobs, Mandate
  <2> HIDE DEF e, new
  <2>3. mandates' \in [Exposures -> Mandate] BY <1>3, <2>1, <2>2
  <2> QED BY <1>2, <1>3, <1>s, <2>1, <2>3, EntryStep DEF Entering
<1>5. CASE Submit
  <2>1. PICK status \in {"submitted", "rejected"} : SetOrderStatus(job.order, status)
    BY <1>5 DEF Submit
  <2>2. UNCHANGED <<mandates, positions>> /\ job' = [job EXCEPT !.step = "settle"]
    BY <1>5 DEF Submit
  <2>3. status \in OrderStatuses \ {"created"} BY DEF OrderStatuses, Retryable
  <2> QED BY <1>2, <1>3, <1>o, <2>1, <2>2, <2>3, EntryStep DEF Entering
<1>6. CASE Settle
  <2>1. PICK status \in {"open", "filled", "rejected"} :
           SetOrderStatus(job.order, status) /\ Fill(job.order, status)
    BY <1>6 DEF Settle
  <2>2. UNCHANGED <<mandates>> /\ job' = [job EXCEPT !.step = "reconcile_entry"]
    BY <1>6 DEF Settle
  <2>3. status \in OrderStatuses \ {"created"} BY DEF OrderStatuses, Retryable
  <2>4. OrderIds' = OrderIds BY <1>o, <2>1, <2>3
  <2>5. positions' \in [Exposures -> SUBSET OrderIds] BY <1>1, <1>3, <2>1, <2>4, FillTypes
  <2> QED BY <1>2, <1>3, <1>o, <2>1, <2>2, <2>3, <2>5, EntryStep DEF Entering
<1>7. CASE ReconcileEntry
  <2>1. ReconcileTo("plan_status", job.todo) /\ job.step = "reconcile_entry"
    BY <1>7 DEF ReconcileEntry
  <2>2. UNCHANGED <<orders, positions>>
        /\ job' = [job EXCEPT !.step = "plan_status", !.todo = job.todo]
    BY <2>1 DEF ReconcileTo, Goto
  <2>3. job' = [job EXCEPT !.step = "plan_status"]
    <3>1. job = [step |-> job.step, stage |-> job.stage, at |-> job.at,
                 seen |-> job.seen, todo |-> job.todo, item |-> job.item,
                 order |-> job.order, nav |-> job.nav]
      BY <1>1, JobShape
    <3> QED BY <2>2, <3>1
  <2>4. mandates' \in [Exposures -> Mandate] BY <1>1, <2>1, MandateTypes
  <2>5. \A o \in OrderIds : orders[o].status # "created"
    BY <2>1 DEF IInv, NoForgottenEntry
  <2> QED BY <1>2, <1>3, <1>s, <2>2, <2>3, <2>4, <2>5, EntryStep DEF Entering
<1> QED BY <1>4, <1>5, <1>6, <1>7

\* The plan learns what became of its order.
LEMMA MarkPlanStep == ASSUME IInv, MarkPlan PROVE IInv'
<1>1. TypeOK /\ HandTypes /\ ExitsCounted /\ Dated /\ Settled /\ AheadIsFresh
      /\ NoForgottenEntry
  BY DEF IInv
<1> DEFINE p == job.item
<1>2. /\ UNCHANGED <<now, orders, mandates, positions, exits, crashes>>
      /\ job.step = "plan_status" /\ p \in PlanIds /\ orders[job.order].plan = p
      /\ job.order \in OrderIds
      /\ \/ job.stage = "intraday" /\ job.todo \subseteq Tickers
         \/ job.stage = "open_execution" /\ job.todo \subseteq PlanIds
      /\ job' = [job EXCEPT !.step = IF job.stage = "intraday" THEN "research" ELSE "execute",
                            !.todo = @ \ {p}, !.item = 0, !.order = 0, !.seen = 0]
  BY <1>1 DEF MarkPlan, NextPlan, HandTypes, Entering
<1>3. PICK status \in {"executed", "rejected"} : SetPlanStatus(p, status)
  BY DEF MarkPlan
<1>4. /\ plans' \in Seq(Plan) /\ Len(plans') = Len(plans) /\ Retiring
      /\ PlanIds' = PlanIds /\ plans'[p].status # "active"
      /\ \A q \in PlanIds : q # p => plans'[q] = plans[q]
  <2>1. status \in PlanStatuses \ {"active"} BY DEF PlanStatuses
  <2> HIDE DEF p
  <2> QED BY <1>1, <1>2, <1>3, <2>1, PlanStatusSet DEF Retiring
<1>5. /\ job' \in Jobs /\ job'.stage = job.stage /\ job'.at = job.at
      /\ job'.todo = job.todo \ {p}
      /\ \/ job'.step = "research" /\ job.stage = "intraday"
         \/ job'.step = "execute" /\ job.stage = "open_execution"
  <2>1. 0 \in 0..MaxOrders BY BoundsAssumption
  <2> QED BY <1>1, <1>2, <2>1, JobShape, ItemTypes DEF Jobs, Steps
<1>6. OrderIds' = OrderIds /\ SameOrders BY <1>2 DEF OrderIds, SameOrders
<1>7. TypeOK' BY <1>1, <1>2, <1>4, <1>5, <1>6 DEF TypeOK, Jobs
<1>8. HandTypes'
  <2>1. \/ job'.step = "research" /\ job'.stage = "intraday" /\ job'.todo \subseteq Tickers
        \/ job'.step = "execute" /\ job'.stage = "open_execution" /\ job'.todo \subseteq PlanIds'
    BY <1>2, <1>4, <1>5
  <2>2. job'.stage \in Stages BY <2>1 DEF Stages
  <2> QED BY ONLY <2>1, <2>2 DEF HandTypes, Recovering, Entering
<1>9. ExitsCounted' BY <1>1, <1>2, <1>5 DEF ExitsCounted
<1>10. Dated' /\ OneOrderPerPlan' /\ DisjointPlans'
  BY <1>1, <1>2, <1>4, <1>5, <1>6, RetiringKeeps DEF Dated, BeforeStage, Recovering
<1>11. Settled'
  <2> SUFFICES ASSUME NEW o \in OrderIds PROVE plans'[orders[o].plan].status # "active"
    BY <1>2, <1>6 DEF Settled
  <2>1. CASE orders[o].plan = p BY <1>4, <2>1
  <2>2. CASE orders[o].plan # p
    <3>1. o # job.order BY <1>2, <2>2
    <3>2. plans[orders[o].plan].status # "active"
      BY <1>1, <1>2, <3>1 DEF Settled, Recovering
    <3> QED BY <1>1, <1>4, <3>2 DEF Retiring, Dated
  <2> QED BY <2>1, <2>2
<1>12. NoForgottenEntry' BY <1>1, <1>2, <1>6 DEF NoForgottenEntry
<1>13. AheadIsFresh'
  <2>1. CASE job.stage = "intraday"
    <3>1. Ahead' = {} BY <1>5, <2>1 DEF Ahead, Entering
    <3> QED BY <3>1 DEF AheadIsFresh
  <2>2. CASE job.stage = "open_execution"
    <3>1. Ahead' = job.todo \ {p} BY <1>5, <2>2 DEF Ahead, ToExecute, Entering
    <3>2. Ahead = job.todo \ {p} BY <1>2, <2>2 DEF Ahead, Entering
    <3>3. job.todo \subseteq PlanIds BY <1>2, <2>2
    <3> QED BY <1>1, <1>2, <1>4, <1>6, <3>1, <3>2, <3>3 DEF AheadIsFresh
  <2> QED BY <1>2, <2>1, <2>2
<1>14. RefreshIsNewest' /\ SaveIsAlone' BY <1>5 DEF RefreshIsNewest, SaveIsAlone
<1> QED BY <1>7, <1>8, <1>9, <1>10, <1>11, <1>12, <1>13, <1>14 DEF IInv

-----------------------------------------------------------------------------
(* What the jobs guarantee *)

LEMMA StutterStep == ASSUME IInv, UNCHANGED vars PROVE IInv'
<1>1. PlanIds' = PlanIds /\ OrderIds' = OrderIds BY DEF vars, PlanIds, OrderIds
<1>2. (TypeOK /\ HandTypes /\ ExitsCounted /\ Dated)'
  BY <1>1 DEF IInv, vars, TypeOK, HandTypes, ExitsCounted, Dated
<1>3. (OneOrderPerPlan /\ Settled /\ AheadIsFresh /\ DisjointPlans)'
  BY <1>1 DEF IInv, vars, OneOrderPerPlan, Settled, AheadIsFresh, Ahead, ToExecute,
     DisjointPlans, Succeeds, ValidUntil
<1>4. (RefreshIsNewest /\ SaveIsAlone /\ NoForgottenEntry)'
  BY <1>1 DEF IInv, vars, RefreshIsNewest, SaveIsAlone, Succeeds, ValidUntil, NoForgottenEntry
<1> QED BY <1>2, <1>3, <1>4 DEF IInv

\* The inductive invariant is preserved by every step.
LEMMA StepIInv == IInv /\ [Next]_vars => IInv'
<1> SUFFICES ASSUME IInv, [Next]_vars PROVE IInv'
    OBVIOUS
<1>1. CASE Monitor
  <2>1. CASE Recover BY <2>1, RecoverClosedStep, RecoverStatusStep DEF Recover
  <2>2. CASE \E e \in Exposures : MandateExit(e) \/ PriceExit(e) \/ Hold(e)
    BY <2>2, ExitStep DEF MandateExit, PriceExit
  <2> QED
    BY <1>1, <2>1, <2>2, MonitorMoves, RecoveryBegins, ProcessOrderStep, SubmitExitStep
       DEF Monitor
<1>2. CASE Research
  BY <1>2, StageMoves, ReplaceStep, RetireStep, SavePlanStep DEF Research
<1>3. CASE Execute
  BY <1>3, StageMoves, CreateEntryStep, EntryMoves, IdleStep, MarkPlanStep DEF Execute
<1>4. CASE UNCHANGED vars BY <1>4, StutterStep
<1> QED
  BY <1>1, <1>2, <1>3, <1>4, RecoveryBegins, StageBeginsStep, IdleStep, TickStep
     DEF Next, JobStep

\* The inductive invariant of the sleeve: wherever jobs were killed, what the running
\* job still has to do is as fresh as when it was read.
THEOREM IInvHolds == Spec => []IInv
BY InitIInv, StepIInv, PTL DEF Spec

\* No plan ever has a second entry that is at work or filled: the recovery that
\* precedes every stage knows of the first one, whatever the plan says.
THEOREM OneEntryPerPlanHolds == Spec => []OneEntryPerPlan
<1>1. IInv => OneEntryPerPlan BY DEF IInv, OneOrderPerPlan, OneEntryPerPlan
<1> QED BY <1>1, IInvHolds, PTL

\* An entry that was created and not submitted is met by no stage.
THEOREM NoForgottenEntryHolds == Spec => []NoForgottenEntry
<1>1. IInv => NoForgottenEntry BY DEF IInv
<1> QED BY <1>1, IInvHolds, PTL

\* Of the plans of a ticker at most one is valid: the younger one was made after
\* the older one was retired or had expired, although these are two writes.
THEOREM OneActivePlanPerTickerHolds == Spec => []OneActivePlanPerTicker
<1>1. ASSUME IInv, NEW p \in ActivePlans(now), NEW q \in ActivePlans(now), p < q,
             plans[p].ticker = plans[q].ticker
      PROVE  FALSE
  <2>1. /\ p \in PlanIds /\ q \in PlanIds /\ now <= ValidUntil(p)
        /\ plans[p].status = "active" /\ plans[q].status = "active"
        /\ plans[q].created <= now
    BY DEF ActivePlans
  <2>2. ValidUntil(p) < plans[q].created
    BY <1>1, <2>1 DEF IInv, DisjointPlans, Succeeds
  <2>3. now \in Nat /\ plans[q].created \in Nat /\ ValidUntil(p) \in Nat
    <3>1. plans[p] \in Plan /\ plans[q] \in Plan /\ now \in Nat
      BY <1>1, <2>1, Identifiers, BoundsAssumption DEF IInv, TypeOK
    <3> QED BY <3>1, SignalsAssumption DEF Plan, ValidUntil
  <2> QED BY <2>1, <2>2, <2>3
<1>2. IInv => OneActivePlanPerTicker
  <2> SUFFICES ASSUME IInv, NEW p \in ActivePlans(now), NEW q \in ActivePlans(now),
                      plans[p].ticker = plans[q].ticker
               PROVE  p = q
    BY DEF OneActivePlanPerTicker
  <2>1. p \in Nat /\ q \in Nat BY Identifiers DEF IInv, ActivePlans
  <2> QED BY <1>1, <2>1
<1> QED BY <1>2, IInvHolds, PTL
=============================================================================
