---------------------------- MODULE PaperBroker ----------------------------
(***************************************************************************)
(* One paper account: the equity broker scripts/simulation/paper_broker.py *)
(* and the option broker scripts/options/paper_broker.py over one cash     *)
(* balance, with their risk gates (risk/risk_gate.py, options/risk_gate.py,*)
(* risk/shared_portfolio_risk.py) and fill models.                         *)
(*                                                                         *)
(* Workers are processes at work on the account.  What a broker does under *)
(* the fill lock is one action: FillWal shows that the lock and the log    *)
(* make it atomic.  What it does outside the lock is not: the order it     *)
(* created earlier, the snapshot of the orders that process_open_orders    *)
(* walks through, the counters a pipeline reads before it enters.          *)
(*                                                                         *)
(* Amounts are integers.  A position is one lot, because every caller buys *)
(* once (adding is blocked) and sells the whole quantity.  Bid and ask     *)
(* coincide; NAV is taken at cost.  Whether quote, session and universe    *)
(* rules admit an order is a choice made at each submission.               *)
(*                                                                         *)
(* The operators named Fault... are the seeded faults of PROJECT.json.     *)
(***************************************************************************)
EXTENDS Integers, FiniteSets, FiniteSetsExt

CONSTANTS
    Workers,
    OrderIds,
    Equities,       \* equity symbols, which are their own underlying
    Contracts,      \* option contracts
    UnderlyingOf,   \* contract -> equity symbol
    Prices,         \* quotes explored, for one lot
    Limits,         \* limit prices explored
    Slippage,       \* adverse slippage of a fill
    InitialCash,
    Expiry,         \* line -> open_order_expiry_seconds
    MaxTotalPositions, \* max_total_open_positions
    MaxDailyEntries,   \* max_total_daily_entry_trades
    LineEntries,    \* line -> max_daily_trades, max_daily_entry_trades
    LinePositions,  \* line -> max_open_positions
    OrderPct,       \* line -> cap of one entry, percent of NAV
    LinePct,        \* line -> cap of a line, percent of NAV
    TotalPct,       \* max_total_deployed_pct_of_equity
    MaxDailyLoss,
    DayLength, MaxTime \* bounds of the clock

Lines == {"equity", "options"}
Instruments == Equities \cup Contracts
Line(i) == IF i \in Contracts THEN "options" ELSE "equity"
Underlying(i) == IF i \in Contracts THEN UnderlyingOf[i] ELSE i

ASSUME FiniteAssumption ==
    IsFiniteSet(OrderIds) /\ IsFiniteSet(Equities) /\ IsFiniteSet(Contracts)
ASSUME InstrumentsAssumption ==
    /\ Equities \cap Contracts = {}
    /\ UnderlyingOf \in [Contracts -> Equities]
ASSUME AmountsAssumption ==
    /\ Prices \subseteq Nat \ {0} /\ Limits \subseteq Nat \ {0}
    /\ Slippage \in Nat /\ InitialCash \in Nat \ {0} /\ MaxDailyLoss \in Nat
    /\ MaxTotalPositions \in Nat /\ MaxDailyEntries \in Nat /\ TotalPct \in Nat
    /\ Expiry \in [Lines -> Nat] /\ LineEntries \in [Lines -> Nat]
    /\ LinePositions \in [Lines -> Nat]
    /\ OrderPct \in [Lines -> Nat] /\ LinePct \in [Lines -> Nat]
ASSUME ClockAssumption == DayLength \in Nat \ {0} /\ MaxTime \in Nat

VARIABLES
    cash, realized, \* paper_account.json
    positions,      \* instrument -> price paid for the lot held, 0 if none
    orders,         \* order id -> order record
    counters,       \* daily_counters.json
    now,            \* the clock that the workers read
    mem,            \* worker -> what it remembers from outside the lock
    firstSubmitted, \* history: when an order was first submitted
    filledLate,     \* history: orders filled after their expiry
    entriesOn       \* history: day -> entries filled on it

account == <<cash, realized, positions>>
history == <<firstSubmitted, filledLate, entriesOn>>
vars == <<account, orders, counters, now, mem, history>>

Market == 0      \* the limit of a market order
Never == -1      \* submitted_at is None
Terminal == {"filled", "cancelled", "rejected", "expired"}
Retryable == {"submitted", "open"}   \* "submitted_to_paper_broker", "open"
Live == Retryable \cup {"created"}   \* _OPEN_STATUSES
Statuses == Live \cup Terminal

OrderRecords ==
    [inst : Instruments, side : {"buy", "sell"}, limit : Limits \cup {Market},
     status : Statuses, submitted : -1..MaxTime]
NoOrder == [status |-> "none"]

Day(t) == t \div DayLength
EmptyCounters(d) == [day |-> d, entries |-> [l \in Lines |-> 0], pnl |-> 0]

\* A worker is idle, between create_order and submit_order, in the middle of
\* process_open_orders (the orders still to do, as it read them, and the time
\* it started with), or between the read and the write of daily_counters.
Idle == [job |-> "idle"]
Memories ==
    {Idle} \cup [job : {"order"}, id : OrderIds]
    \cup [job : {"pass"}, at : 0..MaxTime,
          seen : UNION {[S -> 0..MaxTime] : S \in SUBSET OrderIds}]
    \cup [job : {"rollover"}, day : 0..Day(MaxTime)]

TypeOK ==
    /\ cash \in Nat /\ realized \in Int
    /\ positions \in [Instruments -> Nat]
    /\ orders \in [OrderIds -> OrderRecords \cup {NoOrder}]
    /\ counters \in [day : 0..Day(MaxTime), entries : [Lines -> Nat], pnl : Int]
    /\ now \in 0..MaxTime
    /\ mem \in [Workers -> Memories]
    /\ firstSubmitted \in [OrderIds -> -1..MaxTime]
    /\ filledLate \subseteq OrderIds
    /\ entriesOn \in [0..Day(MaxTime) -> Nat]

Init ==
    /\ cash = InitialCash /\ realized = 0
    /\ positions = [i \in Instruments |-> 0]
    /\ orders = [id \in OrderIds |-> NoOrder]
    /\ counters = EmptyCounters(0)
    /\ now = 0
    /\ mem = [w \in Workers |-> Idle]
    /\ firstSubmitted = [id \in OrderIds |-> Never]
    /\ filledLate = {}
    /\ entriesOn = [d \in 0..Day(MaxTime) |-> 0]

-----------------------------------------------------------------------------
(* What the gates compute: risk_gate.py, options/risk_gate.py,              *)
(* shared_portfolio_risk.py                                                 *)

LiveOthers(id) == {o \in OrderIds \ {id} : orders[o].status \in Live}
Held == {i \in Instruments : positions[i] # 0}
OfLine(line, insts) == {i \in insts : Line(i) = line}

\* Entries of both lines that are still live, created ones included.
PendingEntries(id) == {o \in LiveOthers(id) : orders[o].side = "buy"}

\* Seeded fault: entries still resting at the broker are not exposure.
FaultExposedByHeld(id) == Held

\* What the account has, or may soon have, besides the order.
ExposedBy(id) == Held \cup {orders[o].inst : o \in PendingEntries(id)}

\* shared_deployment: cost of the positions, plus live entries at their limit
\* (a market order reserves nothing).
Deployed(insts) == MapThenSumSet(LAMBDA i : positions[i], Held \cap insts)
Reserved(id, insts) ==
    MapThenSumSet(LAMBDA o : orders[o].limit,
                  {o \in PendingEntries(id) : orders[o].inst \in insts})

Nav(line) == cash + Deployed(IF line = "options" THEN Instruments ELSE Equities)

\* simulate_fill, simulate_option_fill: a limit that the adverse price misses rests.
FillPrice(side, quote) ==
    IF side = "buy" THEN quote + Slippage ELSE Max({0, quote - Slippage})

Rests(o, quote) ==
    /\ o.limit # Market
    /\ IF o.side = "buy" THEN FillPrice("buy", quote) > o.limit
                         ELSE FillPrice("sell", quote) < o.limit

\* Seeded fault: the option gate leaves slippage out, as the equity gate does.
FaultCostAtQuote(o, quote) == quote

\* The equity gate counts an entry at the ask, the option gate at the price of
\* the simulated fill, or at the limit if the order would rest.
EntryCost(o, quote) ==
    IF Line(o.inst) = "equity" THEN quote
    ELSE IF Rests(o, quote) THEN Max({o.limit, quote})
    ELSE FillPrice("buy", quote)

\* Seeded fault: the entries of the other line are not counted.
FaultEquityEntriesOnly(c) == c.entries["equity"]

EntriesToday(c) == c.entries["equity"] + c.entries["options"]

EntryAllowed(id, quote, c) ==
    LET o == orders[id]
        line == Line(o.inst)
        cost == EntryCost(o, quote)
        nav == Nav(line)
        lineInsts == OfLine(line, Instruments)
    IN
    /\ c.entries[line] < LineEntries[line] /\ EntriesToday(c) < MaxDailyEntries
    /\ line = "equity" => c.pnl > -MaxDailyLoss
    /\ o.inst \notin Held
    /\ Cardinality(OfLine(line, Held)) < LinePositions[line]
    /\ \A q \in PendingEntries(id) : orders[q].inst # o.inst
    /\ \A i \in ExposedBy(id) : Underlying(i) # Underlying(o.inst)
    /\ Cardinality(ExposedBy(id)) < MaxTotalPositions
    /\ cost <= cash /\ cost < nav /\ 100 * cost <= OrderPct[line] * nav
    /\ 100 * (Deployed(Instruments) + Reserved(id, Instruments) + cost) <= TotalPct * nav
    /\ 100 * (Deployed(lineInsts) + Reserved(id, lineInsts) + cost) <= LinePct[line] * nav

\* The option gate approves a close before it looks for duplicates.
ExitAllowed(id) ==
    LET o == orders[id] IN
    /\ o.inst \in Held
    /\ Line(o.inst) = "equity" =>
          \A q \in LiveOthers(id) : orders[q].inst = o.inst => orders[q].side = "buy"

Allowed(id, quote, c) ==
    IF orders[id].side = "buy" THEN EntryAllowed(id, quote, c) ELSE ExitAllowed(id)

-----------------------------------------------------------------------------
(* _submit_order_locked of the two brokers                                  *)

\* daily_counters: a new date starts from nothing.
CountersAt(t) == IF counters.day = Day(t) THEN counters ELSE EmptyCounters(Day(t))

\* Seeded fault: the option broker stamps every submission too.
FaultStampAgain(id, known, t) == t

\* Seeded fault: the order keeps its deadline instead of its submission.
FaultStampDeadline(id, known, t) == t + Expiry[Line(orders[id].inst)]

\* The equity broker stamps every submission, the option broker the first.
SubmittedAt(id, known, t) ==
    IF Line(orders[id].inst) = "options" /\ known # Never THEN known ELSE t

NoteFirst(id, t) ==
    firstSubmitted' = [firstSubmitted EXCEPT ![id] = IF @ = Never THEN t ELSE @]

Stamp(id, known, t, status) ==
    orders' = [orders EXCEPT ![id].status = status,
                             ![id].submitted = SubmittedAt(id, known, t)]

\* Seeded fault: slippage taken off twice.
FaultProfit(inst, price) == price - Slippage - positions[inst]

Profit(inst, price) == price - positions[inst]

\* apply_fill, apply_option_fill, counters_after_fill; all in one transaction.
Fill(id, price, t) ==
    LET o == orders[id]
        c == CountersAt(t)
        pnl == Profit(o.inst, price)
    IN
    /\ IF o.side = "buy"
       THEN /\ cash' = cash - price
            /\ positions' = [positions EXCEPT ![o.inst] = price]
            /\ counters' = [c EXCEPT !.entries[Line(o.inst)] = @ + 1]
            /\ entriesOn' = [entriesOn EXCEPT ![Day(t)] = @ + 1]
            /\ UNCHANGED realized
       ELSE /\ cash' = cash + price
            /\ positions' = [positions EXCEPT ![o.inst] = 0]
            /\ counters' = [c EXCEPT !.pnl = @ + pnl]
            /\ realized' = realized + pnl
            /\ UNCHANGED entriesOn
    /\ filledLate' = IF t - firstSubmitted'[id] >= Expiry[Line(o.inst)]
                     THEN filledLate \cup {id} ELSE filledLate

NotFilled(t) ==
    /\ counters' = CountersAt(t)
    /\ UNCHANGED <<account, filledLate, entriesOn>>

\* known is the submitted_at of the caller's copy of the order, t its time;
\* admitted tells if quote, session and universe rules let the order through.
Submit(id, known, t, quote, admitted) ==
    LET o == orders[id]
        price == FillPrice(o.side, quote)
        approved == admitted /\ Allowed(id, quote, CountersAt(t))
    IN
    IF o.status \in Terminal
    THEN UNCHANGED <<account, orders, counters, history>>
    ELSE /\ NoteFirst(id, t)
         /\ \/ ~approved /\ Stamp(id, known, t, "rejected") /\ NotFilled(t)
            \/ approved /\ Rests(o, quote)
                 /\ Stamp(id, known, t, "open") /\ NotFilled(t)
            \/ approved /\ ~Rests(o, quote) /\ o.side = "buy" /\ price > cash
                 /\ Stamp(id, known, t, "rejected") /\ NotFilled(t)
            \/ approved /\ ~Rests(o, quote) /\ (o.side = "buy" => price <= cash)
                 /\ Stamp(id, known, t, "filled") /\ Fill(id, price, t)

-----------------------------------------------------------------------------
(* The operations of a worker                                               *)

\* create_order; an exit is created for a position the worker sees.
Create(w, id, inst, side, limit) ==
    /\ mem[w] = Idle /\ orders[id] = NoOrder
    /\ side = "sell" => inst \in Held
    /\ orders' = [orders EXCEPT ![id] = [inst |-> inst, side |-> side, limit |-> limit,
                                         status |-> "created", submitted |-> Never]]
    /\ mem' = [mem EXCEPT ![w] = [job |-> "order", id |-> id]]
    /\ UNCHANGED <<account, counters, now, history>>

\* submit_order of the order just created.
SubmitCreated(w, quote, admitted) ==
    /\ mem[w].job = "order"
    /\ Submit(mem[w].id, Never, now, quote, admitted)
    /\ mem' = [mem EXCEPT ![w] = Idle]
    /\ UNCHANGED now

\* process_open_orders reads the orders once, without the lock, ...
BeginPass(w, line) ==
    LET todo == {id \in OrderIds : /\ orders[id].status \in Retryable
                                   /\ Line(orders[id].inst) = line}
    IN
    /\ mem[w] = Idle /\ todo # {}
    /\ mem' = [mem EXCEPT ![w] = [job |-> "pass", at |-> now,
                                  seen |-> [id \in todo |-> orders[id].submitted]]]
    /\ UNCHANGED <<account, orders, counters, now, history>>

InPass(w, id) == mem[w].job = "pass" /\ id \in DOMAIN mem[w].seen

Expired(w, id) ==
    mem[w].at - mem[w].seen[id] >= Expiry[Line(orders[id].inst)]

PassOver(w, id) ==
    LET rest == DOMAIN mem[w].seen \ {id} IN
    mem' = [mem EXCEPT ![w] = IF rest = {} THEN Idle ELSE
              [job |-> "pass", at |-> @.at, seen |-> [o \in rest |-> @.seen[o]]]]

\* Seeded fault: the status is not read again under the lock.
FaultPassExpire(w, id) ==
    /\ InPass(w, id) /\ Expired(w, id)
    /\ orders' = [orders EXCEPT ![id].status = "expired"]
    /\ PassOver(w, id)
    /\ UNCHANGED <<account, counters, now, history>>

\* ... then expires each of them, unless it has ended in the meantime, ...
PassExpire(w, id) ==
    /\ InPass(w, id) /\ Expired(w, id)
    /\ orders' = IF orders[id].status \in Retryable
                 THEN [orders EXCEPT ![id].status = "expired"] ELSE orders
    /\ PassOver(w, id)
    /\ UNCHANGED <<account, counters, now, history>>

\* ... or submits it again with the time the pass started at.
PassSubmit(w, id, quote, admitted) ==
    /\ InPass(w, id) /\ ~Expired(w, id)
    /\ Submit(id, mem[w].seen[id], mem[w].at, quote, admitted)
    /\ PassOver(w, id)
    /\ UNCHANGED now

\* cancel_order, by the EOD guard or by the allocator's recovery.
Cancel(w, id) ==
    /\ mem[w] = Idle
    /\ orders[id].status \in Live
    /\ orders' = [orders EXCEPT ![id].status = "cancelled"]
    /\ UNCHANGED <<account, counters, now, mem, history>>

\* A pipeline that asks for daily_counters itself reads and, on a new date,
\* rewrites them without the fill lock.
RolloverRead(w) ==
    /\ mem[w] = Idle /\ counters.day # Day(now)
    /\ mem' = [mem EXCEPT ![w] = [job |-> "rollover", day |-> Day(now)]]
    /\ UNCHANGED <<account, orders, counters, now, history>>

RolloverWrite(w) ==
    /\ mem[w].job = "rollover"
    /\ counters' = EmptyCounters(mem[w].day)
    /\ mem' = [mem EXCEPT ![w] = Idle]
    /\ UNCHANGED <<account, orders, now, history>>

\* The process is killed between two operations, ...
Crash(w) ==
    /\ mem[w] # Idle
    /\ mem' = [mem EXCEPT ![w] = Idle]
    /\ UNCHANGED <<account, orders, counters, now, history>>

\* ... or in a submission, after the order was saved as submitted.
CrashInSubmit(w, id, known, t) ==
    /\ orders[id].status \notin Terminal
    /\ NoteFirst(id, t)
    /\ Stamp(id, known, t, "submitted")
    /\ NotFilled(t)
    /\ mem' = [mem EXCEPT ![w] = Idle]
    /\ UNCHANGED now

SubmitKilled(w) ==
    \/ mem[w].job = "order" /\ CrashInSubmit(w, mem[w].id, Never, now)
    \/ \E id \in OrderIds : InPass(w, id) /\ ~Expired(w, id)
          /\ CrashInSubmit(w, id, mem[w].seen[id], mem[w].at)

\* No worker is alive when the (UTC) date changes: the market has been closed
\* for hours and a job is killed after ten minutes.
Tick ==
    /\ now < MaxTime
    /\ Day(now + 1) # Day(now) => \A w \in Workers : mem[w] = Idle
    /\ now' = now + 1
    /\ UNCHANGED <<account, orders, counters, mem, history>>

Next ==
    \/ Tick
    \/ \E w \in Workers :
          \/ RolloverRead(w) \/ RolloverWrite(w) \/ Crash(w) \/ SubmitKilled(w)
          \/ \E line \in Lines : BeginPass(w, line)
          \/ \E id \in OrderIds : PassExpire(w, id) \/ Cancel(w, id)
          \/ \E id \in OrderIds, inst \in Instruments, side \in {"buy", "sell"},
                limit \in Limits \cup {Market} : Create(w, id, inst, side, limit)
          \/ \E quote \in Prices, admitted \in BOOLEAN :
                \/ SubmitCreated(w, quote, admitted)
                \/ \E id \in OrderIds : PassSubmit(w, id, quote, admitted)

Spec == Init /\ [][Next]_vars

-----------------------------------------------------------------------------
(* Properties *)

\* An entry that has passed the gate: a position, or a resting buy order.
OpenEntries == {id \in OrderIds : orders[id].status = "open" /\ orders[id].side = "buy"}

\* "one exposure per underlying across equity and options": whatever the two
\* brokers, retries and crashes interleave, no two of the entries that passed
\* the gate are on the same underlying.
OneExposurePerUnderlying ==
    /\ \A i, j \in Held : Underlying(i) = Underlying(j) => i = j
    /\ \A o \in OpenEntries : \A i \in Held : Underlying(orders[o].inst) # Underlying(i)
    /\ \A o, q \in OpenEntries :
          Underlying(orders[o].inst) = Underlying(orders[q].inst) => o = q

\* "three total executable positions": counted over both lines, resting entries
\* included, so that they may all fill.
TotalPositionsBounded ==
    Cardinality(Held) + Cardinality(OpenEntries) <= MaxTotalPositions

\* "three daily entries": no day sees more fills of entries, on both lines
\* together, than allowed.
DailyEntryLimit == \A d \in DOMAIN entriesOn : entriesOn[d] <= MaxDailyEntries

\* Cash, realised profit and cost of the positions account for every cent.
BooksBalance == cash = InitialCash + realized - Deployed(Instruments)

\* A terminal order stays as it is: neither a late expiry or cancellation nor
\* the retry from a stale snapshot of the orders brings it back.
TerminalOrdersFinal ==
    [][\A id \in OrderIds : orders[id].status \in Terminal => orders'[id] = orders[id]]_vars

\* An entry that fills leaves the account within the deployment caps, up to the
\* slippage that the equity gate does not count.
Bought(id) == orders[id].side = "buy" /\ orders[id].status # "filled"
              /\ orders'[id].status = "filled"
EntriesWithinCaps ==
    [][\A id \in OrderIds : orders[id] # NoOrder /\ Bought(id) =>
          LET line == Line(orders[id].inst) IN
          100 * (Deployed(Instruments)' - IF line = "equity" THEN Slippage ELSE 0)
             <= TotalPct * Nav(line)]_vars

\* An option order fills only within its expiry from the first submission.
OptionsFillBeforeExpiry ==
    \A id \in filledLate : Line(orders[id].inst) # "options"

\* The same of an equity order (paper_broker.py:295, "paper order expired before
\* fill"): what the tests and the configuration call the expiry of an order.
EquitiesFillBeforeExpiry ==
    \A id \in filledLate : Line(orders[id].inst) # "equity"
=============================================================================
