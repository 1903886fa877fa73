------------------------ MODULE InstrumentAllocation ------------------------
(***************************************************************************)
(* How much of which instrument: scripts/decision/instrument_allocator.py  *)
(* sizes the shares and one option for a plan's forecast and takes the one *)
(* with the better score, and _account_state of                            *)
(* ai_instrument_allocator_pipeline.py says what is deployed already.  The *)
(* forecast is the model's distribution over signed return buckets, made   *)
(* at a reference price; by the time of the allocation the price may have  *)
(* moved, other orders may rest and positions may have lost value.         *)
(*                                                                         *)
(* Money is counted in whole units and shares in increments.  The buckets  *)
(* hold integer masses that add up to Mass.  What an option would be worth *)
(* in its conservative scenario is an input: the repricing is left out.    *)
(* The broker, modelled in PaperBroker, is reduced to its effect on an     *)
(* order that rests: a fill within the limit, or the end of the order.     *)
(*                                                                         *)
(* The operators named Fault... are the seeded faults of PROJECT.json.     *)
(***************************************************************************)
EXTENDS Integers, FiniteSets, FiniteSetsExt

CONSTANTS
    Stocks,
    SharePrices,       \* of one share increment
    HalfSpread,
    ShareSlippage,
    Premium,      \* of one option contract, paid
    OptionExits,  \* what the conservative scenario may leave of a premium
    Mass,         \* the buckets of a forecast add up to it
    InitialFunds,
    EntryPct, OptionEntryPct, \* per entry: 25 and 3 percent of NAV
    SharePct, OptionPct,   \* per line: 50 and 8 percent
    BothPct,                 \* both lines: 60 percent
    StopPct, RiskPct,         \* equity_planned_stop_pct and the 1 percent at risk
    OptionHurdle, \* option_minimum_scenario_return_pct
    MinMass, MinMargin,       \* minimum_direction_mass and _margin, in percent
    MaxAllocations            \* bound on the orders of a behaviour

SizingConstantsOK ==
    /\ IsFiniteSet(Stocks) /\ 0 \notin Stocks
    /\ SharePrices \subseteq Nat \ {0} /\ OptionExits \subseteq Nat
    /\ HalfSpread \in Nat /\ ShareSlippage \in Nat /\ Premium \in Nat
    /\ \A p \in SharePrices : p > HalfSpread + ShareSlippage
    /\ Premium > HalfSpread
    /\ Mass \in Nat \ {0} /\ InitialFunds \in Nat /\ MaxAllocations \in Nat
    /\ EntryPct \in Nat /\ OptionEntryPct \in Nat
    /\ SharePct \in Nat /\ OptionPct \in Nat /\ BothPct \in Nat
    /\ StopPct \in Nat \ {0} /\ RiskPct \in Nat /\ OptionHurdle \in Nat
    /\ MinMass \in Nat /\ MinMargin \in Nat

VARIABLES
    funds,
    price,  \* ticker -> the last price
    lots,   \* ticker -> what rests or is held
    proposal,   \* the plan to execute, with its forecast
    placed  \* the orders created so far

sizingVars == <<funds, price, lots, proposal, placed>>

Kinds == {"equity", "option"}
Lot == [status : {"resting", "held"}, kind : Kinds, quantity : Nat, paid : Nat]
NoLot == [status |-> "none", kind |-> "equity", quantity |-> 0, paid |-> 0]
NoProposal == [ticker |-> 0]

\* A distribution over the signed buckets, seen from the direction of the larger
\* mass: three buckets on its side, the neutral one, and the other side.
Forecast ==
    [sign : {1, -1}, near : 0..Mass, middle : 0..Mass, far : 0..Mass,
     neutral : 0..Mass, against : 0..Mass]

SizingTypeOK ==
    /\ funds \in Nat /\ price \in [Stocks -> SharePrices] /\ placed \in 0..MaxAllocations
    /\ lots \in [Stocks -> Lot \cup {NoLot}]
    /\ proposal = NoProposal \/ (proposal.ticker \in Stocks /\ proposal.forecast \in Forecast)

SizingInit ==
    /\ funds = InitialFunds /\ placed = 0
    /\ \E p \in SharePrices : price = [t \in Stocks |-> p]
    /\ lots = [t \in Stocks |-> NoLot] /\ proposal = NoProposal

-----------------------------------------------------------------------------
(* derive_signal_summary *)

MassOf(b) == b.near + b.middle + b.far

\* A tie of the two directions is bearish; allocate_instrument turns it down.
WellFormed(b) ==
    /\ MassOf(b) + b.neutral + b.against = Mass
    /\ MassOf(b) > b.against \/ (MassOf(b) = b.against /\ b.sign = -1)

\* The largest mass, by what is needed, and ahead of the two others.
Dominant(b) ==
    /\ MassOf(b) * 100 >= MinMass * Mass
    /\ \A m \in {b.neutral, b.against} :
          MassOf(b) > m /\ (MassOf(b) - m) * 100 >= MinMargin * Mass

Least(x, y) == IF x < y THEN x ELSE y
AtLeast0(x) == IF x < 0 THEN 0 ELSE x

\* Seeded fault: the half of the mass is filled from the bucket of the largest move.
FaultWeightedMove(b) ==
    LET third == Least(2 * b.far, MassOf(b))
        second == Least(2 * b.middle, MassOf(b) - third)
    IN (MassOf(b) - third - second) * 1 + second * 4 + third * 10

\* The lower half of the mass, counted twice and filled from the bucket of the
\* smallest move; the moves of _DIRECTIONAL_SCENARIOS in half percents.
WeightedMove(b) ==
    LET first == Least(2 * b.near, MassOf(b))
        second == Least(2 * b.middle, MassOf(b) - first)
    IN first * 1 + second * 4 + (MassOf(b) - first - second) * 10

\* The target price of a plan, times Scale.
Scale(p) == 200 * MassOf(p.forecast)
TargetPrice(p) == p.reference * (Scale(p) + p.forecast.sign * WeightedMove(p.forecast))

-----------------------------------------------------------------------------
(* _account_state *)

Ask(t) == price[t] + HalfSpread + ShareSlippage
Bid(t) == price[t] - HalfSpread

SumOf(f) == MapThenSumSet(LAMBDA t : f[t], DOMAIN f)

\* An order that rests is worth nothing; a position what its bid brings.
Worth(t) ==
    IF lots[t].status # "held" THEN 0
    ELSE lots[t].quantity * (IF lots[t].kind = "equity" THEN Bid(t) ELSE Premium - HalfSpread)
NetValue == funds + SumOf([t \in Stocks |-> Worth(t)])

\* Positions at cost and orders that rest at their limit.
Claim(lines, kind) ==
    SumOf([t \in Stocks |->
              IF lines[t].kind = kind THEN lines[t].quantity * lines[t].paid ELSE 0])

\* Seeded fault: orders that rest are not reserved.
FaultDeployedIn(kind) ==
    Claim([t \in Stocks |-> IF lots[t].status = "held" THEN lots[t] ELSE NoLot], kind)

\* shared_deployment
DeployedIn(kind) == Claim(lots, kind)

TotalDeployed == DeployedIn("equity") + DeployedIn("option")

-----------------------------------------------------------------------------
(* allocate_instrument *)

\* The capacity reads the cash that an order at rest will need as well.
Capacity(nav, entryPct, linePct, kind) ==
    LET free(pct, used) == AtLeast0((nav * pct) \div 100 - used) IN
    Least(Least(funds, free(entryPct, 0)),
          Least(free(linePct, DeployedIn(kind)), free(BothPct, TotalDeployed)))

\* _equity_candidate: capacity and the loss at the planned stop bound it.
Shares(t, nav) ==
    Least(Capacity(nav, EntryPct, SharePct, "equity") \div Ask(t),
          (RiskPct * nav) \div (Ask(t) * StopPct))

\* The profit per share when the target is reached, times Scale.
ShareProfit(t) ==
    AtLeast0(TargetPrice(proposal) - (HalfSpread + ShareSlippage) * Scale(proposal))
        - Ask(t) * Scale(proposal)

\* The hurdle is the default of the code, no loss.
ShareEligible(t, nav) ==
    /\ proposal.forecast.sign = 1
    /\ ShareProfit(t) >= 0
    /\ Shares(t, nav) > 0

\* _option_candidate: one contract or none.
OptionEligible(exit, nav) ==
    /\ exit * 100 >= Premium * (100 + OptionHurdle)
    /\ Premium <= Capacity(nav, OptionEntryPct, OptionPct, "option")

\* _risk_adjusted_metrics: profit per unit of risk, compared between the share,
\* with StopPct of its price at risk, and the option, with all of its premium.
ShareScore(t) == ShareProfit(t) * 100 * Premium
OptionScore(t, exit) == (exit - Premium) * Scale(proposal) * Ask(t) * StopPct

\* The better score; with equal scores and the tie-breaks, either.
Selected(t, exit, nav) ==
    {k \in Kinds :
        IF k = "equity"
        THEN /\ ShareEligible(t, nav)
             /\ OptionEligible(exit, nav) => ShareScore(t) >= OptionScore(t, exit)
        ELSE /\ OptionEligible(exit, nav)
             /\ ShareEligible(t, nav) => OptionScore(t, exit) >= ShareScore(t)}

NewLot(t, kind, nav) ==
    [status |-> "resting", kind |-> kind,
     quantity |-> IF kind = "equity" THEN Shares(t, nav) ELSE 1,
     paid |-> IF kind = "equity" THEN Ask(t) ELSE Premium]

\* The order is created at the entry price of the allocation and rests.
Allocate ==
    LET t == proposal.ticker
        nav == NetValue
    IN /\ proposal # NoProposal /\ placed < MaxAllocations
       /\ Dominant(proposal.forecast)
       /\ \E exit \in OptionExits : \E kind \in Selected(t, exit, nav) :
             lots' = [lots EXCEPT ![t] = NewLot(t, kind, nav)]
       /\ proposal' = NoProposal /\ placed' = placed + 1
       /\ UNCHANGED <<funds, price>>

\* _no_trade_allocation, or nothing is eligible.
NoTrade ==
    /\ proposal # NoProposal
    /\ \/ ~Dominant(proposal.forecast)
       \/ \E exit \in OptionExits : Selected(proposal.ticker, exit, NetValue) = {}
    /\ proposal' = NoProposal
    /\ UNCHANGED <<funds, price, lots, placed>>

-----------------------------------------------------------------------------
(* The plan, the market and the broker *)

\* A plan for a ticker without position or order; the price is the reference.
Research(t, b) ==
    /\ proposal = NoProposal /\ lots[t] = NoLot /\ placed < MaxAllocations
    /\ WellFormed(b)
    /\ proposal' = [ticker |-> t, forecast |-> b, reference |-> price[t]]
    /\ UNCHANGED <<funds, price, lots, placed>>

AnyResearch ==
    \E t \in Stocks, sign \in {1, -1}, near \in 0..Mass, middle \in 0..Mass :
    \E far \in 0..(Mass - near - middle) :
    \E neutral \in 0..(Mass - near - middle - far) :
        Research(t, [sign |-> sign, near |-> near, middle |-> middle, far |-> far,
                     neutral |-> neutral,
                     against |-> Mass - near - middle - far - neutral])

Quote(t, p) ==
    /\ p # price[t]
    /\ price' = [price EXCEPT ![t] = p]
    /\ UNCHANGED <<funds, lots, proposal, placed>>

FillLot(t) ==
    LET now == IF lots[t].kind = "equity" THEN Ask(t) ELSE Premium IN
    /\ lots[t].status = "resting"
    /\ now <= lots[t].paid /\ now * lots[t].quantity <= funds
    /\ lots' = [lots EXCEPT ![t].status = "held", ![t].paid = now]
    /\ funds' = funds - now * lots[t].quantity
    /\ UNCHANGED <<price, proposal, placed>>

\* The order expires, is rejected or cancelled; or the position is sold.
Close(t) ==
    /\ lots[t] # NoLot
    /\ funds' = funds + Worth(t)
    /\ lots' = [lots EXCEPT ![t] = NoLot]
    /\ UNCHANGED <<price, proposal, placed>>

SizingNext ==
    \/ Allocate \/ NoTrade \/ AnyResearch
    \/ \E t \in Stocks, p \in SharePrices : Quote(t, p)
    \/ \E t \in Stocks : FillLot(t) \/ Close(t)

SizingSpec == SizingInit /\ [][SizingNext]_sizingVars

-----------------------------------------------------------------------------
(* Properties *)

IsOrdered(t) == lots[t] = NoLot /\ lots'[t] # NoLot
Within(claim, pct) == claim * 100 <= pct * NetValue

\* However orders rest, fill and end and prices move between two
\* allocations, a new order together with everything that is held or rests
\* stays within the caps of its line and of the account at the NAV of that
\* moment (_account_state, _equity_candidate and _option_candidate).
CapsHold ==
    [][\A t \in Stocks : IsOrdered(t) =>
        /\ Within(Claim(lots', "equity") + Claim(lots', "option"), BothPct)
        /\ lots'[t].kind = "equity" => Within(Claim(lots', "equity"), SharePct)
        /\ lots'[t].kind = "option" => Within(Claim(lots', "option"), OptionPct)]_sizingVars

\* Shares are never bought after the move: the mean of what the forecast
\* expects in its own direction, measured from the price at which it was
\* made, still covers what a share costs now and the spread on the way out
\* (derive_signal_summary, and the remaining move of allocate_instrument).
NoChase ==
    [][\A t \in Stocks : IsOrdered(t) /\ lots'[t].kind = "equity" =>
        LET b == proposal.forecast IN
        proposal.reference * (200 * MassOf(b) + b.near + 4 * b.middle + 10 * b.far)
            >= (Ask(t) + HalfSpread + ShareSlippage) * 200 * MassOf(b)]_sizingVars
=============================================================================
