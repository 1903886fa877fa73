------------------------- MODULE PaperBrokerProofs -------------------------
(***************************************************************************)
(* What the two brokers guarantee for any number of workers, orders,       *)
(* instruments and days, whatever the limits and prices.  The critical     *)
(* sections are atomic here (FillWalProofs shows why); what is proved is   *)
(* that the reads and the memory outside of them do no harm.               *)
(***************************************************************************)
EXTENDS PaperBroker, FiniteSetTheorems, TLAPS

Ordered(w) == mem[w].job = "order"
Passing(w) == mem[w].job = "pass"

\* What a worker remembers outside the lock: an order that nobody else has
\* created, and orders that have been submitted at least once.
WorkersSeeOrders ==
    \A w \in Workers :
        /\ Ordered(w) =>
              /\ orders[mem[w].id] # NoOrder
              /\ orders[mem[w].id].status \in {"created", "cancelled"}
              /\ \A v \in Workers \ {w} : Ordered(v) => mem[v].id # mem[w].id
        /\ Passing(w) =>
              \A id \in DOMAIN mem[w].seen :
                  orders[id] # NoOrder /\ orders[id].status # "created"

\* An order has a submission time once it may be retried, and none before.
StampedWhenSubmitted ==
    \A id \in OrderIds :
        /\ orders[id].status = "created" => orders[id].submitted = Never
        /\ orders[id].status \in Retryable => orders[id].submitted # Never

OrdersKnown == TypeOK /\ WorkersSeeOrders /\ StampedWhenSubmitted

-----------------------------------------------------------------------------
(* Facts about the operators of the model *)

\* A day counter never passes that of the last instant of the clock.
LEMMA DivMonotone ==
    ASSUME NEW a \in Nat, NEW b \in Nat, NEW d \in Nat \ {0}, a <= b
    PROVE  a \div d \in 0..(b \div d)
<1> DEFINE x == a \div d
           y == b \div d
<1>1. a = d * x + (a % d) /\ a % d \in 0..(d-1) /\ x \in Int OBVIOUS
<1>2. b = d * y + (b % d) /\ b % d \in 0..(d-1) /\ y \in Int OBVIOUS
<1> HIDE DEF x, y
<1>3. x >= 0
  <2>1. SUFFICES ASSUME x <= -1 PROVE FALSE BY <1>1
  <2>2. d * x <= -d BY <2>1, <1>1
  <2> QED BY <2>2, <1>1
<1>4. x <= y
  <2>1. SUFFICES ASSUME x >= y + 1 PROVE FALSE BY <1>1, <1>2
  <2>2. d * x >= d * y + d BY <2>1, <1>1, <1>2
  <2> QED BY <2>2, <1>1, <1>2
<1>5. x \in 0..y BY <1>1, <1>2, <1>3, <1>4
<1> QED BY <1>5 DEF x, y

LEMMA DayType == \A t \in 0..MaxTime : Day(t) \in 0..Day(MaxTime)
BY DivMonotone, ClockAssumption DEF Day

LEMMA OrderType ==
    ASSUME TypeOK, NEW id \in OrderIds, orders[id] # NoOrder
    PROVE  /\ orders[id] \in OrderRecords
           /\ orders[id].inst \in Instruments
           /\ orders[id].status \in Statuses
           /\ orders[id].submitted \in -1..MaxTime
BY DEF TypeOK, OrderRecords

\* A status other than that of a record of no order belongs to an order.
LEMMA OrderExists ==
    ASSUME TypeOK, NEW id \in OrderIds, orders[id].status \in Statuses
    PROVE  orders[id] # NoOrder
BY DEF TypeOK, NoOrder, Statuses, Live, Retryable, Terminal

LEMMA LineType == \A i \in Instruments : Line(i) \in Lines
BY DEF Line, Lines

LEMMA SubmittedAtType ==
    ASSUME TypeOK, NEW id \in OrderIds, orders[id] # NoOrder,
           NEW known \in -1..MaxTime, NEW t \in 0..MaxTime
    PROVE  SubmittedAt(id, known, t) \in 0..MaxTime
BY ClockAssumption DEF SubmittedAt, Never

\* The effect of Stamp on the orders: status and submission time of one.
LEMMA StampEffect ==
    ASSUME TypeOK, NEW id \in OrderIds, orders[id] # NoOrder,
           NEW known \in -1..MaxTime, NEW t \in 0..MaxTime,
           NEW status \in Statuses, Stamp(id, known, t, status)
    PROVE  /\ orders' \in [OrderIds -> OrderRecords \cup {NoOrder}]
           /\ orders'[id] \in OrderRecords
           /\ orders'[id].inst = orders[id].inst
           /\ orders'[id].side = orders[id].side
           /\ orders'[id].status = status
           /\ orders'[id].submitted = SubmittedAt(id, known, t)
           /\ \A o \in OrderIds \ {id} : orders'[o] = orders[o]
<1> DEFINE new == [orders[id] EXCEPT !.status = status,
                                     !.submitted = SubmittedAt(id, known, t)]
<1>1. orders' = [orders EXCEPT ![id] = new] BY DEF Stamp, TypeOK
<1>2. /\ new \in OrderRecords
      /\ new.inst = orders[id].inst /\ new.side = orders[id].side
      /\ new.status = status /\ new.submitted = SubmittedAt(id, known, t)
  <2>1. SubmittedAt(id, known, t) \in -1..MaxTime BY SubmittedAtType, ClockAssumption
  <2>2. orders[id] \in OrderRecords BY OrderType
  <2> QED BY <2>1, <2>2 DEF OrderRecords
<1> HIDE DEF new
<1> QED BY <1>1, <1>2 DEF TypeOK

\* What a submission does to the orders: nothing to one that has ended,
\* otherwise it leaves it rejected, resting or filled.
LEMMA SubmitOrders ==
    ASSUME TypeOK, NEW id \in OrderIds, orders[id] # NoOrder,
           NEW known \in -1..MaxTime, NEW t \in 0..MaxTime,
           NEW quote \in Prices, NEW admitted \in BOOLEAN,
           Submit(id, known, t, quote, admitted),
           orders[id].status \notin Terminal
    PROVE  \E status \in {"rejected", "open", "filled"} :
               /\ NoteFirst(id, t) /\ Stamp(id, known, t, status)
               /\ status = "filled" =>
                    /\ Allowed(id, quote, CountersAt(t))
                    /\ orders[id].side = "buy" => FillPrice("buy", quote) <= cash
                    /\ Fill(id, FillPrice(orders[id].side, quote), t)
               /\ status = "open" => Allowed(id, quote, CountersAt(t))
               /\ status # "filled" => NotFilled(t)
<1> DEFINE price == FillPrice(orders[id].side, quote)
           approved == admitted /\ Allowed(id, quote, CountersAt(t))
<1> HIDE DEF price, approved
<1>1. /\ NoteFirst(id, t)
      /\ \/ ~approved /\ Stamp(id, known, t, "rejected") /\ NotFilled(t)
         \/ approved /\ Rests(orders[id], quote)
              /\ Stamp(id, known, t, "open") /\ NotFilled(t)
         \/ approved /\ ~Rests(orders[id], quote) /\ orders[id].side = "buy" /\ price > cash
              /\ Stamp(id, known, t, "rejected") /\ NotFilled(t)
         \/ approved /\ ~Rests(orders[id], quote) /\ (orders[id].side = "buy" => price <= cash)
              /\ Stamp(id, known, t, "filled") /\ Fill(id, price, t)
  BY Zenon DEF Submit, price, approved
<1>2. approved => Allowed(id, quote, CountersAt(t)) BY DEF approved
<1> QED BY <1>1, <1>2, Zenon DEF price

LEMMA CountersType ==
    ASSUME TypeOK, NEW t \in 0..MaxTime
    PROVE  CountersAt(t) \in [day : 0..Day(MaxTime), entries : [Lines -> Nat], pnl : Int]
BY DayType DEF CountersAt, EmptyCounters, TypeOK

LEMMA NotFilledTypes ==
    ASSUME TypeOK, NEW t \in 0..MaxTime, NotFilled(t)
    PROVE  /\ cash' \in Nat /\ realized' \in Int
           /\ positions' \in [Instruments -> Nat]
           /\ counters' \in [day : 0..Day(MaxTime), entries : [Lines -> Nat], pnl : Int]
           /\ filledLate' \subseteq OrderIds
           /\ entriesOn' \in [0..Day(MaxTime) -> Nat]
BY CountersType DEF NotFilled, account, TypeOK

\* A buy that the account can pay for leaves it with money of the right type.
LEMMA FillTypes ==
    ASSUME TypeOK, NEW id \in OrderIds, orders[id] # NoOrder,
           NEW t \in 0..MaxTime, NEW price \in Nat,
           orders[id].side = "buy" => price <= cash,
           Fill(id, price, t)
    PROVE  /\ cash' \in Nat /\ realized' \in Int
           /\ positions' \in [Instruments -> Nat]
           /\ counters' \in [day : 0..Day(MaxTime), entries : [Lines -> Nat], pnl : Int]
           /\ filledLate' \subseteq OrderIds
           /\ entriesOn' \in [0..Day(MaxTime) -> Nat]
<1> DEFINE o == orders[id]
           c == CountersAt(t)
           pnl == Profit(o.inst, price)
<1>1. /\ o.inst \in Instruments /\ Line(o.inst) \in Lines
  BY OrderType, LineType
<1>2. c \in [day : 0..Day(MaxTime), entries : [Lines -> Nat], pnl : Int]
  BY CountersType
<1>3. pnl \in Int BY <1>1 DEF Profit, TypeOK
<1>4. filledLate' \subseteq OrderIds BY DEF Fill, TypeOK
<1>5. Day(t) \in 0..Day(MaxTime) BY DayType
<1> HIDE DEF c, pnl
<1>6. CASE o.side = "buy"
  <2>1. /\ cash' = cash - price /\ positions' = [positions EXCEPT ![o.inst] = price]
        /\ counters' = [c EXCEPT !.entries[Line(o.inst)] = @ + 1]
        /\ entriesOn' = [entriesOn EXCEPT ![Day(t)] = @ + 1] /\ UNCHANGED realized
    BY <1>6 DEF Fill, c
  <2>2. counters' \in [day : 0..Day(MaxTime), entries : [Lines -> Nat], pnl : Int]
    <3>1. c.entries \in [Lines -> Nat] BY <1>2
    <3>2. [c.entries EXCEPT ![Line(o.inst)] = @ + 1] \in [Lines -> Nat] BY <3>1, <1>1
    <3>3. counters' = [c EXCEPT !.entries = [c.entries EXCEPT ![Line(o.inst)] = @ + 1]]
      BY <2>1
    <3> QED BY <3>2, <3>3, <1>2
  <2>3. cash' \in Nat BY <2>1, <1>6 DEF TypeOK
  <2>4. entriesOn' \in [0..Day(MaxTime) -> Nat] BY <2>1, <1>5 DEF TypeOK
  <2> QED BY <2>1, <2>2, <2>3, <2>4, <1>1, <1>4 DEF TypeOK
<1>7. CASE o.side # "buy"
  <2>1. /\ cash' = cash + price /\ positions' = [positions EXCEPT ![o.inst] = 0]
        /\ counters' = [c EXCEPT !.pnl = @ + pnl]
        /\ realized' = realized + pnl /\ UNCHANGED entriesOn
    BY <1>7 DEF Fill, c, pnl
  <2>2. counters' \in [day : 0..Day(MaxTime), entries : [Lines -> Nat], pnl : Int]
    BY <2>1, <1>2, <1>3
  <2>3. cash' \in Nat BY <2>1 DEF TypeOK
  <2>4. realized' \in Int BY <2>1, <1>3 DEF TypeOK
  <2>5. positions' \in [Instruments -> Nat] BY <2>1, <1>1 DEF TypeOK
  <2>6. entriesOn' \in [0..Day(MaxTime) -> Nat] BY <2>1 DEF TypeOK
  <2> QED BY <2>2, <2>3, <2>4, <2>5, <2>6, <1>4
<1> QED BY <1>6, <1>7

LEMMA FillPriceType ==
    \A side \in {"buy", "sell"} : \A quote \in Prices : FillPrice(side, quote) \in Nat
<1> SUFFICES ASSUME NEW side \in {"buy", "sell"}, NEW quote \in Prices
             PROVE FillPrice(side, quote) \in Nat
    OBVIOUS
<1>1. quote \in Nat /\ Slippage \in Nat BY AmountsAssumption
<1>2. Max({0, quote - Slippage}) \in Nat
  <2> DEFINE S == {0, quote - Slippage}
  <2>1. \E x \in S : \A y \in S : x >= y BY <1>1
  <2>2. Max(S) = CHOOSE x \in S : \A y \in S : x >= y BY DEF Max
  <2>3. Max(S) \in S /\ \A y \in S : Max(S) >= y BY <2>1, <2>2
  <2> QED BY <2>3, <1>1
<1> QED BY <1>1, <1>2 DEF FillPrice

LEMMA NoteFirstType ==
    ASSUME TypeOK, NEW id \in OrderIds, NEW t \in 0..MaxTime, NoteFirst(id, t)
    PROVE  firstSubmitted' \in [OrderIds -> -1..MaxTime]
BY ClockAssumption DEF NoteFirst, TypeOK

\* A submission keeps the types of everything but the clock and the memories.
LEMMA SubmitTypes ==
    ASSUME TypeOK, NEW id \in OrderIds, orders[id] # NoOrder,
           NEW known \in -1..MaxTime, NEW t \in 0..MaxTime,
           NEW quote \in Prices, NEW admitted \in BOOLEAN,
           Submit(id, known, t, quote, admitted)
    PROVE  /\ cash' \in Nat /\ realized' \in Int
           /\ positions' \in [Instruments -> Nat]
           /\ orders' \in [OrderIds -> OrderRecords \cup {NoOrder}]
           /\ counters' \in [day : 0..Day(MaxTime), entries : [Lines -> Nat], pnl : Int]
           /\ firstSubmitted' \in [OrderIds -> -1..MaxTime]
           /\ filledLate' \subseteq OrderIds
           /\ entriesOn' \in [0..Day(MaxTime) -> Nat]
<1>1. CASE orders[id].status \in Terminal
  BY <1>1 DEF Submit, account, history, TypeOK
<1>2. CASE orders[id].status \notin Terminal
  <2>1. PICK status \in {"rejected", "open", "filled"} :
               /\ NoteFirst(id, t) /\ Stamp(id, known, t, status)
               /\ status = "filled" =>
                    /\ orders[id].side = "buy" => FillPrice("buy", quote) <= cash
                    /\ Fill(id, FillPrice(orders[id].side, quote), t)
               /\ status # "filled" => NotFilled(t)
    BY <1>2, SubmitOrders
  <2>2. status \in Statuses BY DEF Statuses, Live, Retryable, Terminal
  <2>3. orders' \in [OrderIds -> OrderRecords \cup {NoOrder}]
    BY <2>1, <2>2, StampEffect
  <2>4. firstSubmitted' \in [OrderIds -> -1..MaxTime] BY <2>1, NoteFirstType
  <2>5. orders[id].side \in {"buy", "sell"} BY OrderType DEF OrderRecords
  <2>6. FillPrice(orders[id].side, quote) \in Nat BY <2>5, FillPriceType
  <2>7. CASE status = "filled" BY <2>1, <2>3, <2>4, <2>6, <2>7, FillTypes
  <2>8. CASE status # "filled" BY <2>1, <2>3, <2>4, <2>8, NotFilledTypes
  <2> QED BY <2>7, <2>8
<1> QED BY <1>1, <1>2

-----------------------------------------------------------------------------
(* What the workers remember *)

LEMMA SubmitTypeOK ==
    ASSUME TypeOK, NEW id \in OrderIds, orders[id] # NoOrder,
           NEW known \in -1..MaxTime, NEW t \in 0..MaxTime,
           NEW quote \in Prices, NEW admitted \in BOOLEAN,
           Submit(id, known, t, quote, admitted),
           now' = now, mem' \in [Workers -> Memories]
    PROVE  TypeOK'
<1>1. now' \in 0..MaxTime BY DEF TypeOK
<1>2. /\ cash' \in Nat /\ realized' \in Int
      /\ positions' \in [Instruments -> Nat]
      /\ orders' \in [OrderIds -> OrderRecords \cup {NoOrder}]
      /\ counters' \in [day : 0..Day(MaxTime), entries : [Lines -> Nat], pnl : Int]
      /\ firstSubmitted' \in [OrderIds -> -1..MaxTime]
      /\ filledLate' \subseteq OrderIds
      /\ entriesOn' \in [0..Day(MaxTime) -> Nat]
  BY SubmitTypes
<1> QED BY <1>1, <1>2, Zenon DEF TypeOK

LEMMA MemoryTypes ==
    /\ Idle \in Memories /\ Idle.job = "idle"
    /\ \A id \in OrderIds : [job |-> "order", id |-> id] \in Memories
    /\ \A d \in 0..Day(MaxTime) : [job |-> "rollover", day |-> d] \in Memories
    /\ \A at \in 0..MaxTime, S \in SUBSET OrderIds : \A seen \in [S -> 0..MaxTime] :
          [job |-> "pass", at |-> at, seen |-> seen] \in Memories
BY DEF Memories, Idle

LEMMA PassType ==
    ASSUME TypeOK, NEW w \in Workers, Passing(w)
    PROVE  /\ mem[w].at \in 0..MaxTime
           /\ DOMAIN mem[w].seen \in SUBSET OrderIds
           /\ mem[w].seen \in [DOMAIN mem[w].seen -> 0..MaxTime]
<1>1. mem[w] \in Memories BY DEF TypeOK
<1>2. mem[w] \in [job : {"pass"}, at : 0..MaxTime,
                  seen : UNION {[S -> 0..MaxTime] : S \in SUBSET OrderIds}]
  BY <1>1 DEF Memories, Idle, Passing
<1>3. PICK S \in SUBSET OrderIds : mem[w].seen \in [S -> 0..MaxTime] BY <1>2
<1> QED BY <1>2, <1>3

LEMMA OrderedType ==
    ASSUME TypeOK, NEW w \in Workers, Ordered(w)
    PROVE  mem[w].id \in OrderIds
BY DEF TypeOK, Memories, Idle, Ordered

\* The memory of w is as it was, or idle, or a pass with less left to do.
Forgets(w) ==
    \/ mem'[w] = mem[w]
    \/ mem'[w] = Idle
    \/ /\ Passing(w) /\ mem'[w].job = "pass" /\ mem'[w].at = mem[w].at
       /\ DOMAIN mem'[w].seen \subseteq DOMAIN mem[w].seen
       /\ \A id \in DOMAIN mem'[w].seen : mem'[w].seen[id] = mem[w].seen[id]

LEMMA PassOverForgets ==
    ASSUME TypeOK, NEW w \in Workers, NEW id \in OrderIds, InPass(w, id), PassOver(w, id)
    PROVE  /\ mem' \in [Workers -> Memories]
           /\ \A v \in Workers : Forgets(v)
<1> DEFINE rest == DOMAIN mem[w].seen \ {id}
           left == [o \in rest |-> mem[w].seen[o]]
           next == [job |-> "pass", at |-> mem[w].at, seen |-> left]
<1>1. Passing(w) BY DEF InPass, Passing
<1>2. /\ rest \in SUBSET OrderIds /\ left \in [rest -> 0..MaxTime]
      /\ mem[w].at \in 0..MaxTime
  BY <1>1, PassType
<1>3. next \in Memories BY <1>2, MemoryTypes
<1>4. /\ next.job = "pass" /\ next.at = mem[w].at
      /\ DOMAIN next.seen = rest
      /\ \A o \in rest : next.seen[o] = mem[w].seen[o]
  OBVIOUS
<1>5. mem' = [mem EXCEPT ![w] = IF rest = {} THEN Idle ELSE next]
  BY DEF PassOver, TypeOK
<1> HIDE DEF next
<1>6. mem' \in [Workers -> Memories] BY <1>3, <1>5, MemoryTypes DEF TypeOK
<1>7. \A v \in Workers \ {w} : mem'[v] = mem[v] BY <1>5 DEF TypeOK
<1>8. mem'[w] = Idle \/ mem'[w] = next BY <1>5 DEF TypeOK
<1>9. Forgets(w) BY <1>1, <1>4, <1>8 DEF Forgets
<1> QED BY <1>6, <1>7, <1>9 DEF Forgets

LEMMA BecomesIdle ==
    ASSUME TypeOK, NEW w \in Workers, mem' = [mem EXCEPT ![w] = Idle]
    PROVE  /\ mem' \in [Workers -> Memories]
           /\ \A v \in Workers : Forgets(v)
           /\ ~Ordered(w)'
BY MemoryTypes DEF Forgets, TypeOK, Ordered

\* Order id, which exists, goes to a status past creation that is in step with
\* its submission time; no other order changes.
Advances(id) ==
    /\ orders[id] # NoOrder
    /\ orders'[id] \in OrderRecords
    /\ orders'[id].status # "created"
    /\ orders'[id].status \in Retryable => orders'[id].submitted # Never
    /\ \A o \in OrderIds \ {id} : orders'[o] = orders[o]

\* The claims of the workers survive when one order advances that no worker is
\* about to submit, unless it is cancelled.
LEMMA AdvanceKeepsClaims ==
    ASSUME OrdersKnown, NEW id \in OrderIds, Advances(id),
           \A w \in Workers : Forgets(w),
           \A w \in Workers : Ordered(w)' /\ mem[w].id = id => orders'[id].status = "cancelled"
    PROVE  WorkersSeeOrders' /\ StampedWhenSubmitted'
<1> USE DEF OrdersKnown
<1>1. StampedWhenSubmitted' BY DEF StampedWhenSubmitted, Advances
<1>2. orders'[id] # NoOrder
  BY DEF Advances, OrderRecords, NoOrder, Statuses, Live, Retryable, Terminal
<1>3. ASSUME NEW w \in Workers, Ordered(w)' PROVE mem'[w] = mem[w] /\ Ordered(w)
  BY <1>3 DEF Forgets, Ordered, Idle
<1>4. ASSUME NEW w \in Workers, Ordered(w)'
      PROVE  /\ orders'[mem'[w].id] # NoOrder
             /\ orders'[mem'[w].id].status \in {"created", "cancelled"}
             /\ \A v \in Workers \ {w} : Ordered(v)' => mem'[v].id # mem'[w].id
  <2>1. mem[w].id \in OrderIds BY <1>3, <1>4, OrderedType
  <2>2. /\ orders'[mem[w].id] # NoOrder
        /\ orders'[mem[w].id].status \in {"created", "cancelled"}
    <3>1. CASE mem[w].id = id BY <3>1, <1>2, <1>4
    <3>2. CASE mem[w].id # id BY <3>2, <2>1, <1>3, <1>4 DEF Advances, WorkersSeeOrders
    <3> QED BY <3>1, <3>2
  <2> QED BY <2>2, <1>3, <1>4 DEF WorkersSeeOrders
<1>5. ASSUME NEW w \in Workers, Passing(w)', NEW o \in DOMAIN mem'[w].seen
      PROVE  orders'[o] # NoOrder /\ orders'[o].status # "created"
  <2>1. Passing(w) /\ o \in DOMAIN mem[w].seen
    BY <1>5 DEF Forgets, Passing, Idle
  <2>2. o \in OrderIds BY <2>1, PassType
  <2>3. orders[o] # NoOrder /\ orders[o].status # "created" BY <2>1 DEF WorkersSeeOrders
  <2> QED BY <2>2, <2>3, <1>2 DEF Advances
<1>6. WorkersSeeOrders' BY <1>4, <1>5 DEF WorkersSeeOrders
<1> QED BY <1>1, <1>6

\* They survive when no order changes.
LEMMA ForgettingKeepsClaims ==
    ASSUME OrdersKnown, orders' = orders, \A w \in Workers : Forgets(w)
    PROVE  WorkersSeeOrders' /\ StampedWhenSubmitted'
<1> USE DEF OrdersKnown
<1>1. StampedWhenSubmitted' BY DEF StampedWhenSubmitted
<1>2. ASSUME NEW w \in Workers, Ordered(w)' PROVE mem'[w] = mem[w] /\ Ordered(w)
  BY <1>2 DEF Forgets, Ordered, Idle
<1>3. ASSUME NEW w \in Workers, Passing(w)', NEW o \in DOMAIN mem'[w].seen
      PROVE  Passing(w) /\ o \in DOMAIN mem[w].seen
  BY <1>3 DEF Forgets, Passing, Idle
<1>4. WorkersSeeOrders' BY <1>2, <1>3 DEF WorkersSeeOrders
<1> QED BY <1>1, <1>4

-----------------------------------------------------------------------------
(* One lemma per operation: OrdersKnown is preserved *)

\* A submission lets its order advance, or leaves all orders as they are.
LEMMA SubmitAdvances ==
    ASSUME TypeOK, NEW id \in OrderIds, orders[id] # NoOrder,
           NEW known \in -1..MaxTime, NEW t \in 0..MaxTime,
           NEW quote \in Prices, NEW admitted \in BOOLEAN,
           Submit(id, known, t, quote, admitted)
    PROVE  \/ orders[id].status \in Terminal /\ orders' = orders
           \/ orders[id].status \notin Terminal /\ Advances(id)
<1>1. CASE orders[id].status \in Terminal BY <1>1 DEF Submit
<1>2. CASE orders[id].status \notin Terminal
  <2>1. PICK status \in {"rejected", "open", "filled"} : Stamp(id, known, t, status)
    BY <1>2, SubmitOrders
  <2>2. status \in Statuses BY DEF Statuses, Live, Retryable, Terminal
  <2>3. /\ orders'[id] \in OrderRecords
        /\ orders'[id].status = status
        /\ orders'[id].submitted = SubmittedAt(id, known, t)
        /\ \A o \in OrderIds \ {id} : orders'[o] = orders[o]
    BY <2>1, <2>2, StampEffect
  <2>4. orders'[id].submitted # Never
    BY <2>3, SubmittedAtType, ClockAssumption DEF Never
  <2> QED BY <1>2, <2>3, <2>4 DEF Advances
<1> QED BY <1>1, <1>2

\* The same of a submission that is cut short.
LEMMA KilledAdvances ==
    ASSUME TypeOK, NEW w \in Workers, NEW id \in OrderIds,
           NEW known \in -1..MaxTime, NEW t \in 0..MaxTime,
           CrashInSubmit(w, id, known, t), orders[id] # NoOrder
    PROVE  /\ Advances(id) /\ orders'[id].status = "submitted"
           /\ orders' \in [OrderIds -> OrderRecords \cup {NoOrder}]
<1>1. Stamp(id, known, t, "submitted") BY DEF CrashInSubmit
<1>2. "submitted" \in Statuses BY DEF Statuses, Live, Retryable
<1>3. /\ orders'[id] \in OrderRecords
      /\ orders' \in [OrderIds -> OrderRecords \cup {NoOrder}]
      /\ orders'[id].status = "submitted"
      /\ orders'[id].submitted = SubmittedAt(id, known, t)
      /\ \A o \in OrderIds \ {id} : orders'[o] = orders[o]
  BY <1>1, <1>2, StampEffect
<1>4. orders'[id].submitted # Never
  BY <1>3, SubmittedAtType, ClockAssumption DEF Never
<1> QED BY <1>3, <1>4 DEF Advances

LEMMA KeepsSubmitCreated ==
    ASSUME OrdersKnown, NEW w \in Workers, NEW quote \in Prices,
           NEW admitted \in BOOLEAN, SubmitCreated(w, quote, admitted)
    PROVE  OrdersKnown'
<1> DEFINE id == mem[w].id
<1> USE DEF OrdersKnown
<1>1. /\ Ordered(w) /\ Submit(id, Never, now, quote, admitted)
      /\ mem' = [mem EXCEPT ![w] = Idle] /\ now' = now
  BY DEF SubmitCreated, Ordered
<1>2. id \in OrderIds /\ orders[id] # NoOrder BY <1>1, OrderedType DEF WorkersSeeOrders
<1>3. Never \in -1..MaxTime /\ now \in 0..MaxTime BY ClockAssumption DEF Never, TypeOK
<1> HIDE DEF id
<1>4. /\ mem' \in [Workers -> Memories] /\ ~Ordered(w)'
      /\ \A v \in Workers : Forgets(v)
  BY <1>1, BecomesIdle
<1>5. TypeOK' BY <1>1, <1>2, <1>3, <1>4, SubmitTypeOK
<1>6. WorkersSeeOrders' /\ StampedWhenSubmitted'
  <2>1. CASE orders' = orders BY <2>1, <1>4, ForgettingKeepsClaims
  <2>2. CASE Advances(id)
    <3>1. ASSUME NEW v \in Workers, Ordered(v)', mem[v].id = id PROVE FALSE
      <4>1. v # w /\ mem'[v] = mem[v] /\ Ordered(v)
        BY <3>1, <1>4 DEF Forgets, Ordered, Idle
      <4> QED BY <4>1, <3>1, <1>1 DEF WorkersSeeOrders, id
    <3> QED BY <2>2, <3>1, <1>2, <1>4, AdvanceKeepsClaims
  <2> QED BY <2>1, <2>2, <1>1, <1>2, <1>3, SubmitAdvances
<1> QED BY <1>5, <1>6

\* An order in the list of a pass that has not ended is on nobody's mind as a
\* new order.
LEMMA PassedOrder ==
    ASSUME OrdersKnown, NEW w \in Workers, NEW id \in OrderIds, InPass(w, id)
    PROVE  /\ orders[id] # NoOrder
           /\ mem[w].seen[id] \in 0..MaxTime /\ mem[w].at \in 0..MaxTime
           /\ \A v \in Workers : Ordered(v) /\ mem[v].id = id =>
                 orders[id].status = "cancelled"
<1>1. Passing(w) BY DEF InPass, Passing
<1>2. mem[w].seen[id] \in 0..MaxTime /\ mem[w].at \in 0..MaxTime
  BY <1>1, PassType DEF OrdersKnown, InPass
<1>3. orders[id] # NoOrder /\ orders[id].status # "created"
  BY <1>1 DEF OrdersKnown, WorkersSeeOrders, InPass
<1> QED BY <1>2, <1>3 DEF OrdersKnown, WorkersSeeOrders

LEMMA KeepsPassSubmit ==
    ASSUME OrdersKnown, NEW w \in Workers, NEW id \in OrderIds, NEW quote \in Prices,
           NEW admitted \in BOOLEAN, PassSubmit(w, id, quote, admitted)
    PROVE  OrdersKnown'
<1> DEFINE known == mem[w].seen[id]
           t == mem[w].at
<1>1. /\ InPass(w, id) /\ Submit(id, known, t, quote, admitted)
      /\ PassOver(w, id) /\ now' = now
  BY DEF PassSubmit
<1>2. /\ orders[id] # NoOrder /\ known \in -1..MaxTime /\ t \in 0..MaxTime
  BY <1>1, PassedOrder, ClockAssumption
<1> HIDE DEF known, t
<1>3. /\ mem' \in [Workers -> Memories]
      /\ \A v \in Workers : Forgets(v)
  BY <1>1, PassOverForgets DEF OrdersKnown
<1>4. TypeOK' BY <1>1, <1>2, <1>3, SubmitTypeOK DEF OrdersKnown
<1>5. WorkersSeeOrders' /\ StampedWhenSubmitted'
  <2>1. CASE orders' = orders BY <2>1, <1>3, ForgettingKeepsClaims
  <2>2. CASE orders[id].status \notin Terminal /\ Advances(id)
    <3>1. ASSUME NEW v \in Workers, Ordered(v)', mem[v].id = id PROVE FALSE
      <4>1. Ordered(v) BY <3>1, <1>3 DEF Forgets, Ordered, Idle
      <4> QED BY <4>1, <3>1, <2>2, <1>1, PassedOrder DEF Terminal
    <3> QED BY <2>2, <3>1, <1>3, AdvanceKeepsClaims
  <2> QED BY <2>1, <2>2, <1>1, <1>2, SubmitAdvances DEF OrdersKnown
<1> QED BY <1>4, <1>5 DEF OrdersKnown

\* A step that submits an order submits one that exists, with times that the
\* clock has shown; so does one that is cut short.
LEMMA Submissions ==
    ASSUME OrdersKnown, NEW w \in Workers, NEW quote \in Prices, NEW admitted \in BOOLEAN,
           \/ SubmitCreated(w, quote, admitted)
           \/ \E id \in OrderIds : PassSubmit(w, id, quote, admitted)
    PROVE  \E id \in OrderIds, known \in -1..MaxTime, t \in 0..MaxTime :
              orders[id] # NoOrder /\ Submit(id, known, t, quote, admitted)
<1> USE DEF OrdersKnown
<1>1. CASE SubmitCreated(w, quote, admitted)
  <2>1. Ordered(w) /\ Submit(mem[w].id, Never, now, quote, admitted)
    BY <1>1 DEF SubmitCreated, Ordered
  <2>2. mem[w].id \in OrderIds /\ orders[mem[w].id] # NoOrder
    BY <2>1, OrderedType DEF WorkersSeeOrders
  <2>3. Never \in -1..MaxTime /\ now \in 0..MaxTime BY ClockAssumption DEF Never, TypeOK
  <2> QED BY <2>1, <2>2, <2>3
<1>2. ASSUME NEW id \in OrderIds, PassSubmit(w, id, quote, admitted)
      PROVE  \E known \in -1..MaxTime, t \in 0..MaxTime :
                orders[id] # NoOrder /\ Submit(id, known, t, quote, admitted)
  <2> DEFINE seen == mem[w].seen[id]
             at == mem[w].at
  <2>1. InPass(w, id) /\ Submit(id, seen, at, quote, admitted) BY <1>2 DEF PassSubmit
  <2>2. orders[id] # NoOrder /\ seen \in -1..MaxTime /\ at \in 0..MaxTime
    BY <2>1, PassedOrder, ClockAssumption
  <2> HIDE DEF seen, at
  <2> QED BY <2>1, <2>2
<1> QED BY <1>1, <1>2

LEMMA KilledSubmissions ==
    ASSUME OrdersKnown, NEW w \in Workers, SubmitKilled(w)
    PROVE  \E id \in OrderIds, known \in -1..MaxTime, t \in 0..MaxTime :
              /\ CrashInSubmit(w, id, known, t)
              /\ orders[id] # NoOrder
              /\ \A v \in Workers \ {w} : Ordered(v) => mem[v].id # id
<1> USE DEF OrdersKnown
<1>1. CASE mem[w].job = "order" /\ CrashInSubmit(w, mem[w].id, Never, now)
  <2>1. Ordered(w) BY <1>1 DEF Ordered
  <2>2. mem[w].id \in OrderIds /\ orders[mem[w].id] # NoOrder
    BY <2>1, OrderedType DEF WorkersSeeOrders
  <2>3. \A v \in Workers \ {w} : Ordered(v) => mem[v].id # mem[w].id
    BY <2>1 DEF WorkersSeeOrders
  <2>4. Never \in -1..MaxTime /\ now \in 0..MaxTime BY ClockAssumption DEF Never, TypeOK
  <2> QED BY <1>1, <2>2, <2>3, <2>4
<1>2. CASE \E id \in OrderIds : InPass(w, id) /\ ~Expired(w, id)
              /\ CrashInSubmit(w, id, mem[w].seen[id], mem[w].at)
  <2>1. PICK id \in OrderIds : InPass(w, id)
              /\ CrashInSubmit(w, id, mem[w].seen[id], mem[w].at)
    BY <1>2
  <2>2. /\ orders[id] # NoOrder
        /\ mem[w].seen[id] \in -1..MaxTime /\ mem[w].at \in 0..MaxTime
    BY <2>1, PassedOrder, ClockAssumption
  <2>3. orders[id].status \notin Terminal BY <2>1 DEF CrashInSubmit
  <2>4. \A v \in Workers : Ordered(v) => mem[v].id # id
    BY <2>1, <2>3, PassedOrder DEF Terminal
  <2> QED BY <2>1, <2>2, <2>4
<1> QED BY <1>1, <1>2 DEF SubmitKilled

LEMMA KeepsSubmitKilled ==
    ASSUME OrdersKnown, NEW w \in Workers, SubmitKilled(w)
    PROVE  OrdersKnown'
<1> USE DEF OrdersKnown
<1>1. PICK id \in OrderIds, known \in -1..MaxTime, t \in 0..MaxTime :
          /\ CrashInSubmit(w, id, known, t)
          /\ orders[id] # NoOrder
          /\ \A v \in Workers \ {w} : Ordered(v) => mem[v].id # id
  BY KilledSubmissions
<1>2. /\ NoteFirst(id, t) /\ NotFilled(t) /\ mem' = [mem EXCEPT ![w] = Idle] /\ now' = now
  BY <1>1 DEF CrashInSubmit
<1>3. /\ mem' \in [Workers -> Memories] /\ ~Ordered(w)'
      /\ \A v \in Workers : Forgets(v)
  BY <1>2, BecomesIdle
<1>4. Advances(id) /\ orders' \in [OrderIds -> OrderRecords \cup {NoOrder}]
  BY <1>1, KilledAdvances
<1>5. TypeOK'
  <2>1. now' \in 0..MaxTime BY <1>2 DEF TypeOK
  <2> QED BY <1>2, <1>3, <1>4, <2>1, NotFilledTypes, NoteFirstType DEF TypeOK
<1>6. \A v \in Workers : ~(Ordered(v)' /\ mem[v].id = id)
  <2> SUFFICES ASSUME NEW v \in Workers, Ordered(v)' PROVE mem[v].id # id
      OBVIOUS
  <2>1. v # w /\ Ordered(v) BY <1>3 DEF Forgets, Ordered, Idle
  <2> QED BY <2>1, <1>1
<1>7. WorkersSeeOrders' /\ StampedWhenSubmitted'
  BY <1>3, <1>4, <1>6, AdvanceKeepsClaims
<1> QED BY <1>5, <1>7

\* An order that ends without a submission: it expires or is cancelled.
LEMMA EndsEffect ==
    ASSUME TypeOK, NEW id \in OrderIds, orders[id] # NoOrder,
           NEW status \in Terminal, orders' = [orders EXCEPT ![id].status = status]
    PROVE  /\ orders' \in [OrderIds -> OrderRecords \cup {NoOrder}]
           /\ orders'[id].inst = orders[id].inst
           /\ orders'[id].side = orders[id].side
           /\ orders'[id].status = status
           /\ orders'[id].submitted = orders[id].submitted
           /\ Advances(id)
<1> DEFINE new == [orders[id] EXCEPT !.status = status]
<1>1. orders[id] \in OrderRecords BY OrderType
<1>2. status \in Statuses /\ status # "created" /\ status \notin Retryable
  BY DEF Statuses, Terminal, Retryable
<1>3. /\ new \in OrderRecords /\ new.inst = orders[id].inst /\ new.side = orders[id].side
      /\ new.status = status /\ new.submitted = orders[id].submitted
  BY <1>1, <1>2 DEF OrderRecords
<1>4. orders' = [orders EXCEPT ![id] = new] BY DEF TypeOK
<1> HIDE DEF new
<1> QED BY <1>2, <1>3, <1>4 DEF Advances, TypeOK

LEMMA KeepsPassExpire ==
    ASSUME OrdersKnown, NEW w \in Workers, NEW id \in OrderIds, PassExpire(w, id)
    PROVE  OrdersKnown'
<1> USE DEF OrdersKnown
<1>1. /\ InPass(w, id) /\ PassOver(w, id)
      /\ UNCHANGED <<account, counters, now, history>>
      /\ orders' = IF orders[id].status \in Retryable
                   THEN [orders EXCEPT ![id].status = "expired"] ELSE orders
  BY DEF PassExpire
<1>2. mem' \in [Workers -> Memories] /\ \A v \in Workers : Forgets(v)
  BY <1>1, PassOverForgets
<1>3. CASE orders[id].status \in Retryable
  <2>1. orders[id] # NoOrder BY <1>1, PassedOrder
  <2>2. orders' = [orders EXCEPT ![id].status = "expired"] BY <1>1, <1>3
  <2>3. orders' \in [OrderIds -> OrderRecords \cup {NoOrder}] /\ Advances(id)
    BY <2>1, <2>2, EndsEffect DEF Terminal
  <2>4. \A v \in Workers : ~(Ordered(v)' /\ mem[v].id = id)
    <3> SUFFICES ASSUME NEW v \in Workers, Ordered(v)' PROVE mem[v].id # id
        OBVIOUS
    <3>1. Ordered(v) BY <1>2 DEF Forgets, Ordered, Idle
    <3> QED BY <3>1, <1>1, <1>3, PassedOrder DEF Retryable
  <2>5. WorkersSeeOrders' /\ StampedWhenSubmitted'
    BY <1>2, <2>3, <2>4, AdvanceKeepsClaims
  <2> QED BY <1>1, <1>2, <2>3, <2>5 DEF TypeOK, account, history
<1>4. CASE orders' = orders
  <2>1. WorkersSeeOrders' /\ StampedWhenSubmitted'
    BY <1>2, <1>4, ForgettingKeepsClaims
  <2> QED BY <1>1, <1>2, <1>4, <2>1 DEF TypeOK, account, history
<1> QED BY <1>1, <1>3, <1>4

LEMMA KeepsCancel ==
    ASSUME OrdersKnown, NEW w \in Workers, NEW id \in OrderIds, Cancel(w, id)
    PROVE  OrdersKnown'
<1> USE DEF OrdersKnown
<1>1. /\ orders[id].status \in Live
      /\ orders' = [orders EXCEPT ![id].status = "cancelled"]
      /\ UNCHANGED <<account, counters, now, mem, history>>
  BY DEF Cancel
<1>2. orders[id] # NoOrder BY <1>1, OrderExists DEF Statuses
<1>3. /\ orders' \in [OrderIds -> OrderRecords \cup {NoOrder}] /\ Advances(id)
      /\ orders'[id].status = "cancelled"
  BY <1>1, <1>2, EndsEffect DEF Terminal
<1>4. \A v \in Workers : Forgets(v) BY <1>1 DEF Forgets
<1>5. WorkersSeeOrders' /\ StampedWhenSubmitted' BY <1>3, <1>4, AdvanceKeepsClaims
<1> QED BY <1>1, <1>3, <1>5 DEF TypeOK, account, history

LEMMA KeepsCreate ==
    ASSUME OrdersKnown, NEW w \in Workers, NEW id \in OrderIds, NEW inst \in Instruments,
           NEW side \in {"buy", "sell"}, NEW limit \in Limits \cup {Market},
           Create(w, id, inst, side, limit)
    PROVE  OrdersKnown'
<1> DEFINE new == [inst |-> inst, side |-> side, limit |-> limit,
                   status |-> "created", submitted |-> Never]
           thought == [job |-> "order", id |-> id]
<1> USE DEF OrdersKnown
<1>1. /\ mem[w] = Idle /\ orders[id] = NoOrder
      /\ orders' = [orders EXCEPT ![id] = new]
      /\ mem' = [mem EXCEPT ![w] = thought]
      /\ UNCHANGED <<account, counters, now, history>>
  BY DEF Create
<1>2. new \in OrderRecords /\ new.status = "created" /\ new.submitted = Never
  BY ClockAssumption DEF OrderRecords, Never, Statuses, Live
<1>3. thought \in Memories /\ thought.job = "order" /\ thought.id = id BY MemoryTypes
<1>4. new # NoOrder BY DEF NoOrder
<1> HIDE DEF new, thought
<1>5. /\ orders' \in [OrderIds -> OrderRecords \cup {NoOrder}] /\ orders'[id] = new
      /\ \A o \in OrderIds \ {id} : orders'[o] = orders[o]
  BY <1>1, <1>2 DEF TypeOK
<1>6. /\ mem' \in [Workers -> Memories] /\ mem'[w] = thought
      /\ \A v \in Workers \ {w} : mem'[v] = mem[v]
  BY <1>1, <1>3 DEF TypeOK
<1>7. TypeOK' BY <1>1, <1>5, <1>6 DEF TypeOK, account, history
<1>8. StampedWhenSubmitted'
  BY <1>2, <1>5 DEF StampedWhenSubmitted, Retryable
<1>9. ASSUME NEW v \in Workers \ {w}, Ordered(v)
      PROVE  mem[v].id \in OrderIds \ {id}
  BY <1>1, <1>9, OrderedType DEF WorkersSeeOrders
<1>10. ASSUME NEW v \in Workers, Ordered(v)'
       PROVE  /\ orders'[mem'[v].id] # NoOrder
              /\ orders'[mem'[v].id].status \in {"created", "cancelled"}
              /\ \A u \in Workers \ {v} : Ordered(u)' => mem'[u].id # mem'[v].id
  <2>1. CASE v = w
    <3>1. \A u \in Workers \ {w} : Ordered(u)' => mem'[u].id # id
      BY <1>6, <1>9 DEF Ordered
    <3> QED BY <2>1, <3>1, <1>2, <1>3, <1>4, <1>5, <1>6
  <2>2. CASE v # w
    <3>1. Ordered(v) /\ mem'[v] = mem[v] /\ mem[v].id \in OrderIds \ {id}
      BY <2>2, <1>6, <1>9, <1>10 DEF Ordered
    <3>2. /\ orders'[mem'[v].id] # NoOrder
          /\ orders'[mem'[v].id].status \in {"created", "cancelled"}
      BY <3>1, <1>5 DEF WorkersSeeOrders
    <3>3. ASSUME NEW u \in Workers \ {v}, Ordered(u)' PROVE mem'[u].id # mem'[v].id
      <4>1. CASE u = w BY <4>1, <3>1, <1>3, <1>6
      <4>2. CASE u # w BY <4>2, <3>1, <3>3, <1>6 DEF WorkersSeeOrders, Ordered
      <4> QED BY <4>1, <4>2
    <3> QED BY <3>2, <3>3
  <2> QED BY <2>1, <2>2
<1>11. ASSUME NEW v \in Workers, Passing(v)', NEW o \in DOMAIN mem'[v].seen
       PROVE  orders'[o] # NoOrder /\ orders'[o].status # "created"
  <2>1. mem'[v] = mem[v] /\ Passing(v) BY <1>3, <1>6, <1>11 DEF Passing
  <2>2. o \in OrderIds BY <2>1, <1>11, PassType
  <2> QED BY <2>1, <2>2, <1>1, <1>5, <1>11 DEF WorkersSeeOrders
<1>12. WorkersSeeOrders' BY <1>10, <1>11 DEF WorkersSeeOrders
<1> QED BY <1>7, <1>8, <1>12

LEMMA KeepsBeginPass ==
    ASSUME OrdersKnown, NEW w \in Workers, NEW line \in Lines, BeginPass(w, line)
    PROVE  OrdersKnown'
<1> DEFINE todo == {id \in OrderIds : /\ orders[id].status \in Retryable
                                      /\ Line(orders[id].inst) = line}
           seen == [id \in todo |-> orders[id].submitted]
           thought == [job |-> "pass", at |-> now, seen |-> seen]
<1> USE DEF OrdersKnown
<1>1. /\ mem[w] = Idle /\ mem' = [mem EXCEPT ![w] = thought]
      /\ UNCHANGED <<account, orders, counters, now, history>>
  BY DEF BeginPass
<1>2. ASSUME NEW id \in todo
      PROVE  /\ orders[id] # NoOrder /\ orders[id].status # "created"
             /\ orders[id].submitted \in 0..MaxTime
  <2>1. orders[id] # NoOrder BY <1>2, OrderExists DEF Statuses, Live
  <2>2. orders[id].submitted \in -1..MaxTime /\ orders[id].submitted # Never
    BY <1>2, <2>1, OrderType DEF StampedWhenSubmitted
  <2> QED BY <1>2, <2>1, <2>2, ClockAssumption DEF Retryable, Never
<1>3. seen \in [todo -> 0..MaxTime] /\ todo \in SUBSET OrderIds BY <1>2
<1>4. /\ thought \in Memories /\ thought.job = "pass" /\ DOMAIN thought.seen = todo
  BY <1>3, MemoryTypes DEF TypeOK
<1> HIDE DEF thought, seen, todo
<1>5. /\ mem' \in [Workers -> Memories] /\ mem'[w] = thought
      /\ \A v \in Workers \ {w} : mem'[v] = mem[v]
  BY <1>1, <1>4 DEF TypeOK
<1>6. TypeOK' BY <1>1, <1>5 DEF TypeOK, account, history
<1>7. StampedWhenSubmitted' BY <1>1 DEF StampedWhenSubmitted
<1>8. \A v \in Workers : Ordered(v)' => Ordered(v) /\ mem'[v] = mem[v]
  BY <1>4, <1>5 DEF Ordered
<1>9. ASSUME NEW v \in Workers, Passing(v)', NEW o \in DOMAIN mem'[v].seen
      PROVE  orders[o] # NoOrder /\ orders[o].status # "created"
  <2>1. CASE v = w BY <2>1, <1>2, <1>4, <1>5, <1>9
  <2>2. CASE v # w BY <2>2, <1>5, <1>9 DEF WorkersSeeOrders, Passing
  <2> QED BY <2>1, <2>2
<1>10. WorkersSeeOrders' BY <1>1, <1>8, <1>9 DEF WorkersSeeOrders
<1> QED BY <1>6, <1>7, <1>10

LEMMA KeepsRollover ==
    ASSUME OrdersKnown, NEW w \in Workers, RolloverRead(w) \/ RolloverWrite(w)
    PROVE  OrdersKnown'
<1> USE DEF OrdersKnown
<1>1. CASE RolloverRead(w)
  <2> DEFINE thought == [job |-> "rollover", day |-> Day(now)]
  <2>1. thought \in Memories /\ thought.job = "rollover"
    BY DayType, MemoryTypes DEF TypeOK
  <2>2. mem' = [mem EXCEPT ![w] = thought] /\ UNCHANGED <<account, orders, counters, now, history>>
    BY <1>1 DEF RolloverRead
  <2> HIDE DEF thought
  <2>3. /\ mem' \in [Workers -> Memories] /\ mem'[w] = thought
        /\ \A v \in Workers \ {w} : mem'[v] = mem[v]
    BY <2>1, <2>2 DEF TypeOK
  <2>4. \A v \in Workers : Ordered(v)' \/ Passing(v)' => mem'[v] = mem[v]
    BY <2>1, <2>3 DEF Ordered, Passing
  <2>5. WorkersSeeOrders' BY <2>2, <2>4 DEF WorkersSeeOrders, Ordered, Passing
  <2> QED BY <2>2, <2>3, <2>5 DEF TypeOK, account, history, StampedWhenSubmitted
<1>2. CASE RolloverWrite(w)
  <2>1. /\ counters' = EmptyCounters(mem[w].day) /\ mem' = [mem EXCEPT ![w] = Idle]
        /\ UNCHANGED <<account, orders, now, history>> /\ mem[w].job = "rollover"
    BY <1>2 DEF RolloverWrite
  <2>2. mem[w].day \in 0..Day(MaxTime)
    <3>1. mem[w] \in Memories BY DEF TypeOK
    <3>2. mem[w] \in [job : {"rollover"}, day : 0..Day(MaxTime)]
      BY <2>1, <3>1 DEF Memories, Idle
    <3> QED BY <3>2
  <2>3. counters' \in [day : 0..Day(MaxTime), entries : [Lines -> Nat], pnl : Int]
    BY <2>1, <2>2 DEF EmptyCounters
  <2>4. mem' \in [Workers -> Memories] /\ \A v \in Workers : Forgets(v)
    BY <2>1, BecomesIdle
  <2>5. WorkersSeeOrders' /\ StampedWhenSubmitted'
    BY <2>1, <2>4, ForgettingKeepsClaims
  <2> QED BY <2>1, <2>3, <2>4, <2>5 DEF TypeOK, account, history
<1> QED BY <1>1, <1>2

LEMMA KeepsCrash ==
    ASSUME OrdersKnown, NEW w \in Workers, Crash(w)
    PROVE  OrdersKnown'
<1> USE DEF OrdersKnown
<1>1. /\ mem' = [mem EXCEPT ![w] = Idle]
      /\ UNCHANGED <<account, orders, counters, now, history>>
  BY DEF Crash
<1>2. mem' \in [Workers -> Memories] /\ \A v \in Workers : Forgets(v)
  BY <1>1, BecomesIdle
<1>3. WorkersSeeOrders' /\ StampedWhenSubmitted' BY <1>1, <1>2, ForgettingKeepsClaims
<1> QED BY <1>1, <1>2, <1>3 DEF TypeOK, account, history

LEMMA KeepsTick == OrdersKnown /\ Tick => OrdersKnown'
<1> SUFFICES ASSUME OrdersKnown, Tick PROVE OrdersKnown'
    OBVIOUS
<1> USE DEF OrdersKnown
<1>1. now' \in 0..MaxTime /\ UNCHANGED <<account, orders, counters, mem, history>>
  BY ClockAssumption DEF Tick, TypeOK
<1>2. \A v \in Workers : Forgets(v) BY <1>1 DEF Forgets
<1>3. WorkersSeeOrders' /\ StampedWhenSubmitted' BY <1>1, <1>2, ForgettingKeepsClaims
<1> QED BY <1>1, <1>3 DEF TypeOK, account, history

LEMMA OrdersKnownInit == Init => OrdersKnown
<1> SUFFICES ASSUME Init PROVE OrdersKnown
    OBVIOUS
<1>1. Day(MaxTime) \in Nat
  <2>1. 0 \in 0..MaxTime /\ MaxTime \in 0..MaxTime BY ClockAssumption
  <2>2. Day(MaxTime) \in 0..Day(MaxTime) BY <2>1, DayType
  <2>3. Day(MaxTime) \in Int BY ClockAssumption DEF Day
  <2> QED BY <2>2, <2>3
<1>2. \A w \in Workers : mem[w] \in Memories /\ ~Ordered(w) /\ ~Passing(w)
  BY MemoryTypes DEF Init, Ordered, Passing
<1>3. counters \in [day : 0..Day(MaxTime), entries : [Lines -> Nat], pnl : Int]
  BY <1>1 DEF Init, EmptyCounters
<1>4. \A id \in OrderIds : orders[id] = NoOrder /\ NoOrder.status = "none"
  BY DEF Init, NoOrder
<1>5. TypeOK
  BY <1>1, <1>2, <1>3, AmountsAssumption, ClockAssumption DEF Init, TypeOK, Never
<1> QED BY <1>2, <1>4, <1>5
     DEF OrdersKnown, WorkersSeeOrders, StampedWhenSubmitted, Retryable

LEMMA OrdersKnownStep == OrdersKnown /\ [Next]_vars => OrdersKnown'
<1> SUFFICES ASSUME OrdersKnown, [Next]_vars PROVE OrdersKnown'
    OBVIOUS
<1>1. CASE UNCHANGED vars
  <2>1. UNCHANGED <<cash, realized, positions, orders, counters, now, mem,
                    firstSubmitted, filledLate, entriesOn>>
    BY <1>1 DEF vars, account, history
  <2> QED BY <2>1 DEF OrdersKnown, TypeOK, WorkersSeeOrders, StampedWhenSubmitted,
                      Ordered, Passing
<1>2. CASE Next
  <2>1. CASE Tick BY <2>1, KeepsTick
  <2>2. ASSUME NEW w \in Workers, NEW line \in Lines, BeginPass(w, line)
        PROVE  OrdersKnown'
    BY <2>2, KeepsBeginPass
  <2>3. ASSUME NEW w \in Workers, NEW id \in OrderIds, PassExpire(w, id) \/ Cancel(w, id)
        PROVE  OrdersKnown'
    BY <2>3, KeepsPassExpire, KeepsCancel
  <2>4. ASSUME NEW w \in Workers, NEW id \in OrderIds, NEW inst \in Instruments,
               NEW side \in {"buy", "sell"}, NEW limit \in Limits \cup {Market},
               Create(w, id, inst, side, limit)
        PROVE  OrdersKnown'
    BY <2>4, KeepsCreate
  <2>5. ASSUME NEW w \in Workers, NEW quote \in Prices, NEW admitted \in BOOLEAN,
               SubmitCreated(w, quote, admitted)
        PROVE  OrdersKnown'
    BY <2>5, KeepsSubmitCreated
  <2>6. ASSUME NEW w \in Workers, NEW id \in OrderIds, NEW quote \in Prices,
               NEW admitted \in BOOLEAN, PassSubmit(w, id, quote, admitted)
        PROVE  OrdersKnown'
    BY <2>6, KeepsPassSubmit
  <2>7. ASSUME NEW w \in Workers, RolloverRead(w) \/ RolloverWrite(w)
        PROVE  OrdersKnown'
    BY <2>7, KeepsRollover
  <2>8. ASSUME NEW w \in Workers, Crash(w) PROVE OrdersKnown'
    BY <2>8, KeepsCrash
  <2>9. ASSUME NEW w \in Workers, SubmitKilled(w) PROVE OrdersKnown'
    BY <2>9, KeepsSubmitKilled
  <2> QED BY <1>2, <2>1, <2>2, <2>3, <2>4, <2>5, <2>6, <2>7, <2>8, <2>9 DEF Next
<1> QED BY <1>1, <1>2

\* Workers remember only orders that exist, and only resubmit what has been
\* submitted; with it, every variable keeps its type.
THEOREM OrdersKnownHolds == Spec => []OrdersKnown
BY OrdersKnownInit, OrdersKnownStep, PTL DEF Spec

\* Cash never becomes negative, and every variable keeps its type.
THEOREM TypeCorrect == Spec => []TypeOK
<1>1. OrdersKnown => TypeOK BY DEF OrdersKnown
<1> QED BY <1>1, OrdersKnownHolds, PTL

-----------------------------------------------------------------------------
(* Terminal orders *)

\* Every step changes at most one order, and none that has ended.
ChangesOneLiveOrder ==
    \/ orders' = orders
    \/ \E id \in OrderIds : /\ orders[id].status \notin Terminal
                            /\ \A o \in OrderIds \ {id} : orders'[o] = orders[o]

LEMMA LiveOrderStep == OrdersKnown /\ [Next]_vars => ChangesOneLiveOrder
<1> SUFFICES ASSUME OrdersKnown, [Next]_vars PROVE ChangesOneLiveOrder
    OBVIOUS
<1> USE DEF OrdersKnown
<1>1. CASE UNCHANGED vars \/ Tick BY <1>1 DEF vars, Tick, ChangesOneLiveOrder
<1>2. ASSUME NEW w \in Workers,
             \/ \E line \in Lines : BeginPass(w, line)
             \/ RolloverRead(w) \/ RolloverWrite(w) \/ Crash(w)
      PROVE  ChangesOneLiveOrder
  BY <1>2 DEF BeginPass, RolloverRead, RolloverWrite, Crash, ChangesOneLiveOrder
<1>3. ASSUME NEW w \in Workers, NEW id \in OrderIds, PassExpire(w, id) \/ Cancel(w, id)
      PROVE  ChangesOneLiveOrder
  <2>1. \/ orders' = orders
        \/ /\ orders[id].status \in Live
           /\ \A o \in OrderIds \ {id} : orders'[o] = orders[o]
    BY <1>3 DEF PassExpire, Cancel, Live, TypeOK
  <2> QED BY <2>1 DEF ChangesOneLiveOrder, Live, Retryable, Terminal
<1>4. ASSUME NEW w \in Workers, NEW id \in OrderIds, NEW inst \in Instruments,
             NEW side \in {"buy", "sell"}, NEW limit \in Limits \cup {Market},
             Create(w, id, inst, side, limit)
      PROVE  ChangesOneLiveOrder
  <2>1. orders[id] = NoOrder /\ \A o \in OrderIds \ {id} : orders'[o] = orders[o]
    BY <1>4 DEF Create, TypeOK
  <2>2. orders[id].status \notin Terminal BY <2>1 DEF NoOrder, Terminal
  <2> QED BY <2>1, <2>2 DEF ChangesOneLiveOrder
<1>5. ASSUME NEW w \in Workers, NEW quote \in Prices, NEW admitted \in BOOLEAN,
             \/ SubmitCreated(w, quote, admitted)
             \/ \E id \in OrderIds : PassSubmit(w, id, quote, admitted)
      PROVE  ChangesOneLiveOrder
  <2>1. PICK id \in OrderIds, known \in -1..MaxTime, t \in 0..MaxTime :
           orders[id] # NoOrder /\ Submit(id, known, t, quote, admitted)
    BY <1>5, Submissions
  <2> QED BY <2>1, SubmitAdvances DEF ChangesOneLiveOrder, Advances
<1>6. ASSUME NEW w \in Workers, SubmitKilled(w) PROVE ChangesOneLiveOrder
  <2>1. PICK id \in OrderIds, known \in -1..MaxTime, t \in 0..MaxTime :
           CrashInSubmit(w, id, known, t) /\ orders[id] # NoOrder
    BY <1>6, KilledSubmissions
  <2>2. orders[id].status \notin Terminal BY <2>1 DEF CrashInSubmit
  <2> QED BY <2>1, <2>2, KilledAdvances DEF ChangesOneLiveOrder, Advances
<1>7. CASE Next
  <2>1. ~Tick => \E w \in Workers :
          \/ RolloverRead(w) \/ RolloverWrite(w) \/ Crash(w) \/ SubmitKilled(w)
          \/ \E line \in Lines : BeginPass(w, line)
          \/ \E id \in OrderIds : PassExpire(w, id) \/ Cancel(w, id)
          \/ \E id \in OrderIds, inst \in Instruments, side \in {"buy", "sell"},
                limit \in Limits \cup {Market} : Create(w, id, inst, side, limit)
          \/ \E quote \in Prices, admitted \in BOOLEAN :
                \/ SubmitCreated(w, quote, admitted)
                \/ \E id \in OrderIds : PassSubmit(w, id, quote, admitted)
    BY <1>7 DEF Next
  <2> QED BY <2>1, <1>1, <1>2, <1>3, <1>4, <1>5, <1>6
<1> QED BY <1>1, <1>7

\* A filled, cancelled, rejected or expired order stays exactly as it is,
\* whatever passes started before it ended.
THEOREM TerminalOrdersFinalHolds == Spec => TerminalOrdersFinal
<1>1. OrdersKnown /\ [Next]_vars =>
        [\A id \in OrderIds : orders[id].status \in Terminal => orders'[id] = orders[id]]_vars
  BY LiveOrderStep DEF ChangesOneLiveOrder
<1> QED BY <1>1, OrdersKnownHolds, PTL DEF Spec, TerminalOrdersFinal

-----------------------------------------------------------------------------
(* Exposure *)

\* What the gate has compared an entry with: every position and every other
\* live entry.
Compared(id) ==
    /\ orders[id].side = "buy" /\ orders[id].inst \in Instruments
    /\ \A i \in ExposedBy(id) : Underlying(i) # Underlying(orders[id].inst)
    /\ Cardinality(ExposedBy(id)) < MaxTotalPositions

\* A step leaves the exposure as it is or smaller, or lets one compared entry
\* rest or become a position.
ExposureMoves ==
    /\ \A o \in OpenEntries' : orders'[o].inst = orders[o].inst
    /\ \/ Held' \subseteq Held /\ OpenEntries' \subseteq OpenEntries
       \/ \E id \in OrderIds :
             /\ Compared(id)
             /\ \/ Held' \subseteq Held /\ OpenEntries' \subseteq OpenEntries \cup {id}
                \/ /\ Held' \subseteq Held \cup {orders[id].inst}
                   /\ OpenEntries' \subseteq OpenEntries \ {id}

\* One order moves, and it does not become a resting entry.
LEMMA MoveStays ==
    ASSUME Held' \subseteq Held, NEW id \in OrderIds,
           \A o \in OrderIds \ {id} : orders'[o] = orders[o],
           id \notin OpenEntries'
    PROVE  ExposureMoves
BY DEF ExposureMoves, OpenEntries

LEMMA GateCompares ==
    ASSUME TypeOK, NEW id \in OrderIds, orders[id] # NoOrder, NEW quote, NEW c,
           orders[id].side = "buy", Allowed(id, quote, c)
    PROVE  Compared(id)
BY OrderType DEF Allowed, EntryAllowed, Compared

LEMMA SubmitMovesExposure ==
    ASSUME TypeOK, NEW id \in OrderIds, orders[id] # NoOrder,
           NEW known \in -1..MaxTime, NEW t \in 0..MaxTime,
           NEW quote \in Prices, NEW admitted \in BOOLEAN,
           Submit(id, known, t, quote, admitted)
    PROVE  ExposureMoves
<1>1. CASE orders[id].status \in Terminal
  <2>1. UNCHANGED <<positions, orders>> BY <1>1 DEF Submit, account
  <2> QED BY <2>1 DEF ExposureMoves, Held, OpenEntries
<1>2. CASE orders[id].status \notin Terminal
  <2>1. PICK status \in {"rejected", "open", "filled"} :
               /\ Stamp(id, known, t, status)
               /\ status = "filled" =>
                    /\ Allowed(id, quote, CountersAt(t))
                    /\ Fill(id, FillPrice(orders[id].side, quote), t)
               /\ status = "open" => Allowed(id, quote, CountersAt(t))
               /\ status # "filled" => NotFilled(t)
    BY <1>2, SubmitOrders
  <2>2. status \in Statuses BY DEF Statuses, Live, Retryable, Terminal
  <2>3. /\ orders'[id].inst = orders[id].inst /\ orders'[id].side = orders[id].side
        /\ orders'[id].status = status
        /\ \A o \in OrderIds \ {id} : orders'[o] = orders[o]
    BY <2>1, <2>2, StampEffect
  <2>4. \A o \in OpenEntries' : orders'[o].inst = orders[o].inst
    BY <2>3 DEF OpenEntries
  <2>5. orders[id].inst \in Instruments BY OrderType
  <2>6. CASE status = "rejected"
    <3>1. Held' = Held BY <2>1, <2>6 DEF NotFilled, account, Held
    <3>2. id \notin OpenEntries' BY <2>3, <2>6 DEF OpenEntries
    <3> QED BY <2>3, <3>1, <3>2, MoveStays
  <2>7. CASE status = "open"
    <3>1. Held' = Held BY <2>1, <2>7 DEF NotFilled, account, Held
    <3>2. CASE orders[id].side # "buy"
      <4>1. id \notin OpenEntries' BY <2>3, <3>2 DEF OpenEntries
      <4> QED BY <2>3, <3>1, <4>1, MoveStays
    <3>3. CASE orders[id].side = "buy"
      <4>1. Compared(id) BY <2>1, <2>7, <3>3, GateCompares
      <4>2. OpenEntries' \subseteq OpenEntries \cup {id} BY <2>3 DEF OpenEntries
      <4> QED BY <2>4, <3>1, <4>1, <4>2 DEF ExposureMoves
    <3> QED BY <3>2, <3>3
  <2>8. CASE status = "filled"
    <3>1. id \notin OpenEntries' BY <2>3, <2>8 DEF OpenEntries
    <3>2. CASE orders[id].side # "buy"
      <4>1. Held' \subseteq Held BY <2>1, <2>5, <2>8, <3>2 DEF Fill, Held, TypeOK
      <4> QED BY <2>3, <3>1, <4>1, MoveStays
    <3>3. CASE orders[id].side = "buy"
      <4>1. Compared(id) BY <2>1, <2>8, <3>3, GateCompares
      <4>2. Held' \subseteq Held \cup {orders[id].inst}
        BY <2>1, <2>5, <2>8, <3>3 DEF Fill, Held, TypeOK
      <4>3. OpenEntries' \subseteq OpenEntries \ {id} BY <2>3, <3>1 DEF OpenEntries
      <4> QED BY <2>4, <4>1, <4>2, <4>3 DEF ExposureMoves
    <3> QED BY <3>2, <3>3
  <2> QED BY <2>6, <2>7, <2>8
<1> QED BY <1>1, <1>2

LEMMA ExposureMovesStep == OrdersKnown /\ [Next]_vars => ExposureMoves
<1> SUFFICES ASSUME OrdersKnown, [Next]_vars PROVE ExposureMoves
    OBVIOUS
<1> USE DEF OrdersKnown
<1>1. ASSUME UNCHANGED <<positions, orders>> PROVE ExposureMoves
  BY <1>1 DEF ExposureMoves, Held, OpenEntries
<1>2. CASE UNCHANGED vars \/ Tick BY <1>1, <1>2 DEF vars, Tick, account
<1>3. ASSUME NEW w \in Workers,
             \/ \E line \in Lines : BeginPass(w, line)
             \/ RolloverRead(w) \/ RolloverWrite(w) \/ Crash(w)
      PROVE  ExposureMoves
  BY <1>1, <1>3 DEF BeginPass, RolloverRead, RolloverWrite, Crash, account
<1>4. ASSUME NEW w \in Workers, NEW id \in OrderIds, PassExpire(w, id) \/ Cancel(w, id)
      PROVE  ExposureMoves
  <2>1. positions' = positions BY <1>4 DEF PassExpire, Cancel, account
  <2>2. CASE orders' = orders BY <1>1, <2>1, <2>2
  <2>3. CASE orders' # orders
    <3>1. PICK status \in {"expired", "cancelled"} :
             orders[id].status \in Live /\ orders' = [orders EXCEPT ![id].status = status]
      BY <1>4, <2>3 DEF PassExpire, Cancel, Live
    <3>2. orders[id] # NoOrder BY <3>1, OrderExists DEF Statuses
    <3>3. /\ orders'[id].status = status
          /\ \A o \in OrderIds \ {id} : orders'[o] = orders[o]
      BY <3>1, <3>2, EndsEffect DEF Terminal, Advances
    <3> QED BY <2>1, <3>3, MoveStays DEF OpenEntries, Held
  <2> QED BY <2>2, <2>3
<1>5. ASSUME NEW w \in Workers, NEW id \in OrderIds, NEW inst \in Instruments,
             NEW side \in {"buy", "sell"}, NEW limit \in Limits \cup {Market},
             Create(w, id, inst, side, limit)
      PROVE  ExposureMoves
  <2>1. /\ positions' = positions /\ orders'[id].status = "created"
        /\ \A o \in OrderIds \ {id} : orders'[o] = orders[o]
    BY <1>5 DEF Create, account, TypeOK
  <2> QED BY <2>1, MoveStays DEF OpenEntries, Held
<1>6. ASSUME NEW w \in Workers, NEW quote \in Prices, NEW admitted \in BOOLEAN,
             \/ SubmitCreated(w, quote, admitted)
             \/ \E id \in OrderIds : PassSubmit(w, id, quote, admitted)
      PROVE  ExposureMoves
  <2>1. PICK id \in OrderIds, known \in -1..MaxTime, t \in 0..MaxTime :
           orders[id] # NoOrder /\ Submit(id, known, t, quote, admitted)
    BY <1>6, Submissions
  <2> QED BY <2>1, SubmitMovesExposure
<1>7. ASSUME NEW w \in Workers, SubmitKilled(w) PROVE ExposureMoves
  <2>1. PICK id \in OrderIds, known \in -1..MaxTime, t \in 0..MaxTime :
           CrashInSubmit(w, id, known, t) /\ orders[id] # NoOrder
    BY <1>7, KilledSubmissions
  <2>2. positions' = positions BY <2>1 DEF CrashInSubmit, NotFilled, account
  <2>3. /\ orders'[id].status = "submitted"
        /\ \A o \in OrderIds \ {id} : orders'[o] = orders[o]
    BY <2>1, KilledAdvances DEF Advances
  <2> QED BY <2>1, <2>2, <2>3, MoveStays DEF OpenEntries, Held
<1>8. CASE Next
  <2>1. ~Tick => \E w \in Workers :
          \/ RolloverRead(w) \/ RolloverWrite(w) \/ Crash(w) \/ SubmitKilled(w)
          \/ \E line \in Lines : BeginPass(w, line)
          \/ \E id \in OrderIds : PassExpire(w, id) \/ Cancel(w, id)
          \/ \E id \in OrderIds, inst \in Instruments, side \in {"buy", "sell"},
                limit \in Limits \cup {Market} : Create(w, id, inst, side, limit)
          \/ \E quote \in Prices, admitted \in BOOLEAN :
                \/ SubmitCreated(w, quote, admitted)
                \/ \E id \in OrderIds : PassSubmit(w, id, quote, admitted)
    BY <1>8 DEF Next
  <2> QED BY <2>1, <1>2, <1>3, <1>4, <1>5, <1>6, <1>7
<1> QED BY <1>2, <1>8

\* An entry at rest has been counted by the gate of every other.
LEMMA RestingIsExposed ==
    ASSUME NEW id \in OrderIds
    PROVE  /\ Held \subseteq ExposedBy(id)
           /\ \A o \in OpenEntries \ {id} : orders[o].inst \in ExposedBy(id)
BY DEF ExposedBy, OpenEntries, PendingEntries, LiveOthers, Live, Retryable

LEMMA ExposureStep ==
    ASSUME OneExposurePerUnderlying, ExposureMoves
    PROVE  OneExposurePerUnderlying'
<1>1. CASE Held' \subseteq Held /\ OpenEntries' \subseteq OpenEntries
  BY <1>1 DEF ExposureMoves, OneExposurePerUnderlying
<1>2. ASSUME NEW id \in OrderIds, Compared(id),
             \/ Held' \subseteq Held /\ OpenEntries' \subseteq OpenEntries \cup {id}
             \/ /\ Held' \subseteq Held \cup {orders[id].inst}
                /\ OpenEntries' \subseteq OpenEntries \ {id}
      PROVE  OneExposurePerUnderlying'
  <2>1. /\ \A i \in Held : Underlying(i) # Underlying(orders[id].inst)
        /\ \A o \in OpenEntries \ {id} :
              Underlying(orders[o].inst) # Underlying(orders[id].inst)
    BY <1>2, RestingIsExposed DEF Compared
  <2> QED BY <1>2, <2>1 DEF ExposureMoves, OneExposurePerUnderlying
<1> QED BY <1>1, <1>2 DEF ExposureMoves

\* No two entries that passed the gates, as positions or resting at either
\* broker, are ever on the same underlying.
THEOREM OneExposurePerUnderlyingHolds == Spec => []OneExposurePerUnderlying
<1>1. Init => OneExposurePerUnderlying
  <2>1. Init => Held = {} /\ OpenEntries = {} BY DEF Init, Held, OpenEntries, NoOrder
  <2> QED BY <2>1 DEF OneExposurePerUnderlying
<1>2. OrdersKnown /\ OneExposurePerUnderlying /\ [Next]_vars => OneExposurePerUnderlying'
  BY ExposureMovesStep, ExposureStep
<1> QED BY <1>1, <1>2, OrdersKnownHolds, PTL DEF Spec

-----------------------------------------------------------------------------
(* The number of positions *)

LEMMA ExposureFinite ==
    ASSUME TypeOK
    PROVE  /\ IsFiniteSet(Held) /\ IsFiniteSet(OpenEntries)
           /\ \A id \in OrderIds : IsFiniteSet(ExposedBy(id))
<1>1. IsFiniteSet(Instruments) BY FiniteAssumption, FS_Union DEF Instruments
<1>2. Held \in SUBSET Instruments /\ OpenEntries \in SUBSET OrderIds
  BY DEF Held, OpenEntries
<1>3. ASSUME NEW id \in OrderIds PROVE ExposedBy(id) \in SUBSET Instruments
  <2>1. \A o \in PendingEntries(id) : orders[o].inst \in Instruments
    BY OrderExists, OrderType DEF PendingEntries, LiveOthers, Statuses
  <2> QED BY <1>2, <2>1 DEF ExposedBy
<1> QED BY <1>1, <1>2, <1>3, FiniteAssumption, FS_Subset

\* The gate counts exposed instruments; as no two resting entries or positions
\* share one, that is the number of positions and of other resting entries.
LEMMA GateCounts ==
    ASSUME TypeOK, OneExposurePerUnderlying, NEW id \in OrderIds, Compared(id)
    PROVE  Cardinality(Held) + Cardinality(OpenEntries \ {id}) < MaxTotalPositions
<1> DEFINE E == OpenEntries \ {id}
           T == {orders[o].inst : o \in E}
           f == [o \in E |-> orders[o].inst]
<1>1. IsFiniteSet(E) /\ IsFiniteSet(Held) /\ IsFiniteSet(ExposedBy(id))
  BY ExposureFinite, FS_RemoveElement
<1>2. \A o, q \in E : orders[o].inst = orders[q].inst => o = q
  BY DEF OneExposurePerUnderlying
<1>3. f \in Bijection(E, T)
  BY <1>2 DEF Bijection, Injection, Surjection, IsInjective
<1>4. IsFiniteSet(T) /\ Cardinality(T) = Cardinality(E)
  <2>1. ExistsBijection(E, T) BY <1>3 DEF ExistsBijection
  <2> QED BY <1>1, <2>1, FS_Bijection
<1>5. Held \cap T = {} BY DEF OneExposurePerUnderlying
<1>6. Cardinality(Held \cup T) = Cardinality(Held) + Cardinality(T)
  <2>1. Cardinality(Held \cup T)
          = Cardinality(Held) + Cardinality(T) - Cardinality(Held \cap T)
    BY <1>1, <1>4, FS_Union
  <2>2. Cardinality(Held \cap T) = 0 BY <1>5, FS_EmptySet
  <2>3. Cardinality(Held) \in Nat /\ Cardinality(T) \in Nat
    BY <1>1, <1>4, FS_CardinalityType
  <2> QED BY <2>1, <2>2, <2>3
<1>7. Cardinality(Held \cup T) <= Cardinality(ExposedBy(id))
  BY <1>1, RestingIsExposed, FS_Subset
<1>8. /\ Cardinality(Held) \in Nat /\ Cardinality(T) \in Nat
      /\ Cardinality(ExposedBy(id)) \in Nat
  BY <1>1, <1>4, FS_CardinalityType
<1> HIDE DEF T
<1> QED BY <1>4, <1>6, <1>7, <1>8, AmountsAssumption DEF Compared

LEMMA TotalStep ==
    ASSUME TypeOK, TypeOK', OneExposurePerUnderlying, TotalPositionsBounded, ExposureMoves
    PROVE  TotalPositionsBounded'
<1> DEFINE H == Held
           O == OpenEntries
<1>1. /\ IsFiniteSet(H) /\ IsFiniteSet(O) BY ExposureFinite
<1>2. /\ Cardinality(H) \in Nat /\ Cardinality(O) \in Nat BY <1>1, FS_CardinalityType
<1>3. CASE Held' \subseteq H /\ OpenEntries' \subseteq O
  <2>1. /\ IsFiniteSet(Held') /\ Cardinality(Held') <= Cardinality(H)
        /\ IsFiniteSet(OpenEntries') /\ Cardinality(OpenEntries') <= Cardinality(O)
    BY <1>1, <1>3, FS_Subset
  <2>2. Cardinality(Held') \in Nat /\ Cardinality(OpenEntries') \in Nat
    BY <2>1, FS_CardinalityType
  <2> QED BY <1>2, <2>1, <2>2, AmountsAssumption DEF TotalPositionsBounded
<1>4. ASSUME NEW id \in OrderIds, Compared(id),
             \/ Held' \subseteq H /\ OpenEntries' \subseteq O \cup {id}
             \/ Held' \subseteq H \cup {orders[id].inst} /\ OpenEntries' \subseteq O \ {id}
      PROVE  TotalPositionsBounded'
  <2> DEFINE E == O \ {id}
             inst == orders[id].inst
  <2>1. Cardinality(H) + Cardinality(E) < MaxTotalPositions BY <1>4, GateCounts
  <2>2. IsFiniteSet(E) /\ Cardinality(E) \in Nat
    BY <1>1, FS_RemoveElement, FS_CardinalityType
  <2>3. /\ IsFiniteSet(E \cup {id}) /\ Cardinality(E \cup {id}) = Cardinality(E) + 1
        /\ IsFiniteSet(H \cup {inst}) /\ Cardinality(H \cup {inst}) <= Cardinality(H) + 1
    <3>1. id \notin E OBVIOUS
    <3> HIDE DEF E, H, inst
    <3>2. IsFiniteSet(E \cup {id}) /\ Cardinality(E \cup {id}) = Cardinality(E) + 1
      BY <2>2, <3>1, FS_AddElement
    <3>3. /\ IsFiniteSet(H \cup {inst})
          /\ \/ Cardinality(H \cup {inst}) = Cardinality(H)
             \/ Cardinality(H \cup {inst}) = Cardinality(H) + 1
      BY <1>1, FS_AddElement
    <3>4. Cardinality(H \cup {inst}) <= Cardinality(H) + 1 BY <1>2, <3>3
    <3> QED BY <3>2, <3>3, <3>4
  <2>4. \/ Held' \subseteq H /\ OpenEntries' \subseteq E \cup {id}
        \/ Held' \subseteq H \cup {inst} /\ OpenEntries' \subseteq E
    BY <1>4
  <2> HIDE DEF E, H, O
  <2>5. /\ IsFiniteSet(Held') /\ IsFiniteSet(OpenEntries')
        /\ \/ /\ Cardinality(Held') <= Cardinality(H)
              /\ Cardinality(OpenEntries') <= Cardinality(E) + 1
           \/ /\ Cardinality(Held') <= Cardinality(H \cup {inst})
              /\ Cardinality(OpenEntries') <= Cardinality(E)
    BY <1>1, <2>2, <2>3, <2>4, FS_Subset
  <2>6. /\ Cardinality(Held') \in Nat /\ Cardinality(OpenEntries') \in Nat
        /\ Cardinality(H \cup {inst}) \in Nat
    BY <2>3, <2>5, FS_CardinalityType
  <2>7. Cardinality(Held') + Cardinality(OpenEntries') <= Cardinality(H) + Cardinality(E) + 1
    BY <1>2, <2>2, <2>3, <2>5, <2>6
  <2> QED BY <1>2, <2>1, <2>2, <2>6, <2>7, AmountsAssumption DEF TotalPositionsBounded
<1> QED BY <1>3, <1>4 DEF ExposureMoves

\* Positions and resting entries of both lines together never exceed the limit,
\* so every resting entry may still fill.
THEOREM TotalPositionsBoundedHolds == Spec => []TotalPositionsBounded
<1>1. Init => TotalPositionsBounded
  <2>1. Init => Held = {} /\ OpenEntries = {} BY DEF Init, Held, OpenEntries, NoOrder
  <2> QED BY <2>1, FS_EmptySet, AmountsAssumption DEF TotalPositionsBounded
<1>2. OrdersKnown /\ OrdersKnown' /\ OneExposurePerUnderlying /\ TotalPositionsBounded
        /\ [Next]_vars => TotalPositionsBounded'
  BY ExposureMovesStep, TotalStep DEF OrdersKnown
<1> QED BY <1>1, <1>2, OrdersKnownHolds, OneExposurePerUnderlyingHolds, PTL DEF Spec
-----------------------------------------------------------------------------
(* The expiry of option orders *)

IsOption(id) == Line(orders[id].inst) = "options"

\* The submission time of an option order is that of its first submission,
\* wherever it is kept: in the order, or in the list of a pass.
OptionClock ==
    /\ \A id \in OrderIds :
          /\ orders[id] = NoOrder => firstSubmitted[id] = Never /\ id \notin filledLate
          /\ orders[id] # NoOrder /\ IsOption(id) =>
                orders[id].submitted = firstSubmitted[id] /\ id \notin filledLate
    /\ \A w \in Workers : Passing(w) =>
          \A id \in DOMAIN mem[w].seen : IsOption(id) => mem[w].seen[id] = firstSubmitted[id]

\* A pass that forgets keeps the rest of its list as it read it.
LEMMA ForgettingKeepsList ==
    ASSUME OrdersKnown, NEW w \in Workers, Forgets(w), Passing(w)',
           NEW id \in DOMAIN mem'[w].seen
    PROVE  /\ Passing(w) /\ id \in DOMAIN mem[w].seen /\ id \in OrderIds
           /\ mem'[w].seen[id] = mem[w].seen[id] /\ mem[w].seen[id] \in 0..MaxTime
           /\ orders[id] # NoOrder
<1>1. Passing(w) /\ id \in DOMAIN mem[w].seen /\ mem'[w].seen[id] = mem[w].seen[id]
  BY DEF Forgets, Passing, Idle
<1> QED BY <1>1, PassType DEF OrdersKnown, WorkersSeeOrders

\* A step that submits nothing keeps the clock of the orders.
LEMMA KeptClock ==
    ASSUME OrdersKnown, OptionClock, UNCHANGED <<firstSubmitted, filledLate>>,
           \A w \in Workers : Forgets(w),
           \A id \in OrderIds :
              \/ orders'[id] = orders[id]
              \/ /\ orders[id] # NoOrder /\ orders'[id] # NoOrder
                 /\ orders'[id].inst = orders[id].inst
                 /\ orders'[id].submitted = orders[id].submitted
    PROVE  OptionClock'
<1>1. ASSUME NEW id \in OrderIds
      PROVE  /\ orders'[id] = NoOrder => firstSubmitted'[id] = Never /\ id \notin filledLate'
             /\ orders'[id] # NoOrder /\ IsOption(id)' =>
                   orders'[id].submitted = firstSubmitted'[id] /\ id \notin filledLate'
  BY DEF OptionClock, IsOption
<1>2. ASSUME NEW w \in Workers, Passing(w)', NEW id \in DOMAIN mem'[w].seen, IsOption(id)'
      PROVE  mem'[w].seen[id] = firstSubmitted'[id]
  <2>1. /\ Passing(w) /\ id \in DOMAIN mem[w].seen /\ id \in OrderIds
        /\ mem'[w].seen[id] = mem[w].seen[id]
    BY <1>2, ForgettingKeepsList
  <2>2. IsOption(id) BY <1>2, <2>1 DEF IsOption
  <2> QED BY <2>1, <2>2 DEF OptionClock
<1> QED BY <1>1, <1>2 DEF OptionClock

\* One order, submitted by a caller that knows its first submission, if any.
LEMMA StampedClock ==
    ASSUME OrdersKnown, OptionClock, \A w \in Workers : Forgets(w),
           NEW id \in OrderIds, orders[id] # NoOrder,
           NEW known \in -1..MaxTime, NEW t \in 0..MaxTime, NEW status \in Statuses,
           NoteFirst(id, t), Stamp(id, known, t, status),
           IsOption(id) => known = firstSubmitted[id] /\ id \notin filledLate',
           filledLate' \subseteq filledLate \cup {id}
    PROVE  OptionClock'
<1> USE DEF OrdersKnown
<1>1. /\ orders'[id] \in OrderRecords /\ orders'[id].inst = orders[id].inst
      /\ orders'[id].submitted = SubmittedAt(id, known, t)
      /\ \A o \in OrderIds \ {id} : orders'[o] = orders[o]
  BY StampEffect
<1>2. /\ firstSubmitted'[id] = IF firstSubmitted[id] = Never THEN t ELSE firstSubmitted[id]
      /\ \A o \in OrderIds \ {id} : firstSubmitted'[o] = firstSubmitted[o]
  BY DEF NoteFirst, TypeOK
<1>3. orders'[id] # NoOrder BY <1>1 DEF OrderRecords, NoOrder
<1>4. IsOption(id) => orders'[id].submitted = firstSubmitted'[id]
  BY <1>1, <1>2 DEF SubmittedAt, IsOption
<1>5. ASSUME NEW o \in OrderIds
      PROVE  /\ orders'[o] = NoOrder => firstSubmitted'[o] = Never /\ o \notin filledLate'
             /\ orders'[o] # NoOrder /\ IsOption(o)' =>
                   orders'[o].submitted = firstSubmitted'[o] /\ o \notin filledLate'
  <2>1. CASE o = id BY <2>1, <1>1, <1>3, <1>4 DEF IsOption
  <2>2. CASE o # id BY <2>2, <1>1, <1>2 DEF OptionClock, IsOption
  <2> QED BY <2>1, <2>2
<1>6. ASSUME NEW w \in Workers, Passing(w)', NEW o \in DOMAIN mem'[w].seen, IsOption(o)'
      PROVE  mem'[w].seen[o] = firstSubmitted'[o]
  <2>1. /\ Passing(w) /\ o \in DOMAIN mem[w].seen /\ o \in OrderIds
        /\ mem'[w].seen[o] = mem[w].seen[o] /\ mem[w].seen[o] # Never
    BY <1>6, ForgettingKeepsList, ClockAssumption DEF Never
  <2>2. IsOption(o) BY <1>1, <1>6, <2>1 DEF IsOption
  <2>3. mem[w].seen[o] = firstSubmitted[o] BY <2>1, <2>2 DEF OptionClock
  <2> QED BY <2>1, <2>3, <1>2
<1> QED BY <1>5, <1>6 DEF OptionClock

\* A submission fills an option order within its expiry if its caller has not
\* found it expired.
LEMMA SubmittedClock ==
    ASSUME Expiry["options"] > 0, OrdersKnown, OptionClock, \A w \in Workers : Forgets(w),
           NEW id \in OrderIds, orders[id] # NoOrder,
           NEW known \in -1..MaxTime, NEW t \in 0..MaxTime,
           NEW quote \in Prices, NEW admitted \in BOOLEAN,
           Submit(id, known, t, quote, admitted),
           orders[id].status \notin Terminal /\ IsOption(id) => known = firstSubmitted[id],
           IsOption(id) => known = Never \/ ~(t - known >= Expiry["options"])
    PROVE  OptionClock'
<1> USE DEF OrdersKnown
<1>1. CASE orders[id].status \in Terminal
  BY <1>1, KeptClock DEF Submit, history
<1>2. CASE orders[id].status \notin Terminal
  <2>1. PICK status \in {"rejected", "open", "filled"} :
           /\ NoteFirst(id, t) /\ Stamp(id, known, t, status)
           /\ status = "filled" => Fill(id, FillPrice(orders[id].side, quote), t)
           /\ status # "filled" => NotFilled(t)
    BY <1>2, SubmitOrders
  <2>2. status \in Statuses BY DEF Statuses, Live, Retryable, Terminal
  <2>3. filledLate' \in {filledLate, filledLate \cup {id}} BY <2>1 DEF NotFilled, Fill
  <2>4. ASSUME IsOption(id) PROVE id \notin filledLate'
    <3>1. id \notin filledLate BY <2>4 DEF OptionClock
    <3>2. firstSubmitted'[id] = IF known = Never THEN t ELSE known
      BY <1>2, <2>1, <2>4 DEF NoteFirst, TypeOK
    <3>3. Expiry["options"] \in Nat BY AmountsAssumption DEF Lines
    <3>4. ~(t - firstSubmitted'[id] >= Expiry["options"])
      BY <2>4, <3>2, <3>3
    <3>5. CASE status = "filled"
      <4>1. filledLate' = IF t - firstSubmitted'[id] >= Expiry[Line(orders[id].inst)]
                          THEN filledLate \cup {id} ELSE filledLate
        BY <2>1, <3>5 DEF Fill
      <4> QED BY <4>1, <3>1, <3>4, <2>4 DEF IsOption
    <3>6. CASE status # "filled" BY <2>1, <3>1, <3>6 DEF NotFilled
    <3> QED BY <3>5, <3>6
  <2> QED BY <1>2, <2>1, <2>2, <2>3, <2>4, StampedClock
<1> QED BY <1>1, <1>2

\* The order that a worker has created carries no submission yet.
LEMMA CreatedKnows ==
    ASSUME OrdersKnown, OptionClock, NEW w \in Workers, Ordered(w)
    PROVE  /\ mem[w].id \in OrderIds /\ orders[mem[w].id] # NoOrder
           /\ orders[mem[w].id].status \notin Terminal /\ IsOption(mem[w].id) =>
                 firstSubmitted[mem[w].id] = Never
<1>1. mem[w].id \in OrderIds /\ orders[mem[w].id] # NoOrder
  BY OrderedType DEF OrdersKnown, WorkersSeeOrders
<1>2. orders[mem[w].id].status \notin Terminal => orders[mem[w].id].submitted = Never
  BY <1>1 DEF OrdersKnown, WorkersSeeOrders, StampedWhenSubmitted, Terminal
<1> QED BY <1>1, <1>2 DEF OptionClock

\* An order in the list of a pass carries its first submission.
LEMMA PassKnows ==
    ASSUME OrdersKnown, OptionClock, NEW w \in Workers, NEW id \in OrderIds,
           InPass(w, id), ~Expired(w, id)
    PROVE  IsOption(id) => /\ mem[w].seen[id] = firstSubmitted[id]
                           /\ ~(mem[w].at - mem[w].seen[id] >= Expiry["options"])
BY DEF OptionClock, InPass, Passing, Expired, IsOption

LEMMA OptionClockStep ==
    ASSUME Expiry["options"] > 0
    PROVE  OrdersKnown /\ OptionClock /\ [Next]_vars => OptionClock'
<1> SUFFICES ASSUME OrdersKnown, OptionClock, [Next]_vars PROVE OptionClock'
    OBVIOUS
<1> USE DEF OrdersKnown
<1>1. CASE UNCHANGED vars \/ Tick
  <2>1. UNCHANGED <<orders, mem, firstSubmitted, filledLate>>
    BY <1>1 DEF vars, Tick, history
  <2> QED BY <2>1, KeptClock DEF Forgets
<1>2. ASSUME NEW w \in Workers, Crash(w) \/ RolloverWrite(w) PROVE OptionClock'
  BY <1>2, BecomesIdle, KeptClock DEF Crash, RolloverWrite, history
<1>3. ASSUME NEW w \in Workers, RolloverRead(w) PROVE OptionClock'
  <2>1. /\ UNCHANGED <<orders, firstSubmitted, filledLate>>
        /\ ~Passing(w)' /\ \A v \in Workers \ {w} : mem'[v] = mem[v]
    BY <1>3 DEF RolloverRead, history, TypeOK, Passing
  <2> QED BY <2>1 DEF OptionClock, Passing, IsOption
<1>4. ASSUME NEW w \in Workers, NEW line \in Lines, BeginPass(w, line) PROVE OptionClock'
  <2> DEFINE todo == {id \in OrderIds : /\ orders[id].status \in Retryable
                                        /\ Line(orders[id].inst) = line}
             seen == [id \in todo |-> orders[id].submitted]
             thought == [job |-> "pass", at |-> now, seen |-> seen]
  <2>1. /\ UNCHANGED <<orders, firstSubmitted, filledLate>>
        /\ mem' = [mem EXCEPT ![w] = thought]
    BY <1>4 DEF BeginPass, history
  <2>2. /\ DOMAIN thought.seen = todo
        /\ \A id \in todo : thought.seen[id] = orders[id].submitted
    OBVIOUS
  <2>3. \A id \in todo : id \in OrderIds /\ orders[id] # NoOrder
    BY OrderExists DEF Statuses, Live
  <2> HIDE DEF thought, seen, todo
  <2>4. mem'[w] = thought /\ \A v \in Workers \ {w} : mem'[v] = mem[v]
    BY <2>1 DEF TypeOK
  <2>5. ASSUME NEW v \in Workers, Passing(v)', NEW id \in DOMAIN mem'[v].seen, IsOption(id)
        PROVE  mem'[v].seen[id] = firstSubmitted[id]
    <3>1. CASE v = w
      <4>1. id \in todo /\ mem'[v].seen[id] = orders[id].submitted
        BY <2>2, <2>4, <2>5, <3>1
      <4> QED BY <4>1, <2>3, <2>5 DEF OptionClock
    <3>2. CASE v # w BY <2>4, <2>5, <3>2 DEF OptionClock, Passing
    <3> QED BY <3>1, <3>2
  <2> QED BY <2>1, <2>5 DEF OptionClock, IsOption
<1>5. ASSUME NEW w \in Workers, NEW id \in OrderIds, PassExpire(w, id) \/ Cancel(w, id)
      PROVE  OptionClock'
  <2>1. UNCHANGED <<firstSubmitted, filledLate>> /\ \A v \in Workers : Forgets(v)
    BY <1>5, PassOverForgets DEF PassExpire, Cancel, history, Forgets
  <2>2. \/ orders' = orders
        \/ \E status \in Terminal : /\ orders' = [orders EXCEPT ![id].status = status]
                                    /\ orders[id].status \in Live
    BY <1>5 DEF PassExpire, Cancel, Terminal, Live
  <2>3. CASE orders' = orders BY <2>1, <2>3, KeptClock
  <2>4. ASSUME NEW status \in Terminal, orders' = [orders EXCEPT ![id].status = status],
               orders[id].status \in Live
        PROVE  OptionClock'
    <3>1. orders[id] # NoOrder BY <2>4, OrderExists DEF Statuses
    <3>2. /\ orders'[id].inst = orders[id].inst
          /\ orders'[id].submitted = orders[id].submitted /\ Advances(id)
      BY <2>4, <3>1, EndsEffect
    <3>3. orders'[id] # NoOrder /\ \A o \in OrderIds \ {id} : orders'[o] = orders[o]
      BY <3>2 DEF Advances, OrderRecords, NoOrder
    <3> QED BY <2>1, <3>1, <3>2, <3>3, KeptClock
  <2> QED BY <2>2, <2>3, <2>4
<1>6. ASSUME NEW w \in Workers, NEW id \in OrderIds, NEW inst \in Instruments,
             NEW side \in {"buy", "sell"}, NEW limit \in Limits \cup {Market},
             Create(w, id, inst, side, limit)
      PROVE  OptionClock'
  <2>1. /\ orders[id] = NoOrder /\ UNCHANGED <<firstSubmitted, filledLate>>
        /\ orders'[id] # NoOrder /\ orders'[id].submitted = Never
        /\ \A o \in OrderIds \ {id} : orders'[o] = orders[o]
    BY <1>6 DEF Create, TypeOK, history, NoOrder
  <2>2. ~Passing(w)' /\ \A v \in Workers \ {w} : mem'[v] = mem[v]
    BY <1>6 DEF Create, TypeOK, Passing
  <2>3. ASSUME NEW v \in Workers, Passing(v)', NEW o \in DOMAIN mem'[v].seen, IsOption(o)'
        PROVE  mem'[v].seen[o] = firstSubmitted'[o]
    <3>1. Passing(v) /\ mem'[v] = mem[v] BY <2>2, <2>3 DEF Passing
    <3>2. o \in OrderIds /\ o # id
      BY <3>1, <2>1, <2>3, PassType DEF WorkersSeeOrders
    <3> QED BY <3>1, <3>2, <2>1, <2>3 DEF OptionClock, IsOption
  <2> QED BY <2>1, <2>3 DEF OptionClock, IsOption
<1>7. ASSUME NEW w \in Workers, NEW quote \in Prices, NEW admitted \in BOOLEAN,
             SubmitCreated(w, quote, admitted)
      PROVE  OptionClock'
  <2>1. /\ Ordered(w) /\ Submit(mem[w].id, Never, now, quote, admitted)
        /\ \A v \in Workers : Forgets(v)
    BY <1>7, BecomesIdle DEF SubmitCreated, Ordered
  <2>2. Never \in -1..MaxTime /\ now \in 0..MaxTime BY ClockAssumption DEF Never, TypeOK
  <2> QED BY <2>1, <2>2, CreatedKnows, SubmittedClock
<1>8. ASSUME NEW w \in Workers, NEW id \in OrderIds, NEW quote \in Prices,
             NEW admitted \in BOOLEAN, PassSubmit(w, id, quote, admitted)
      PROVE  OptionClock'
  <2> DEFINE known == mem[w].seen[id]
             t == mem[w].at
  <2>1. /\ InPass(w, id) /\ Submit(id, known, t, quote, admitted)
        /\ \A v \in Workers : Forgets(v)
    BY <1>8, PassOverForgets DEF PassSubmit
  <2>2. orders[id] # NoOrder /\ known \in -1..MaxTime /\ t \in 0..MaxTime
    BY <2>1, PassedOrder, ClockAssumption
  <2>3. IsOption(id) => known = firstSubmitted[id] /\ ~(t - known >= Expiry["options"])
    BY <1>8, <2>1, PassKnows DEF PassSubmit
  <2> HIDE DEF known, t
  <2> QED BY <2>1, <2>2, <2>3, SubmittedClock
<1>9. ASSUME NEW w \in Workers, SubmitKilled(w) PROVE OptionClock'
  <2>1. ASSUME NEW id \in OrderIds, NEW known \in -1..MaxTime, NEW t \in 0..MaxTime,
               CrashInSubmit(w, id, known, t), orders[id] # NoOrder,
               IsOption(id) => known = firstSubmitted[id]
        PROVE  OptionClock'
    <3>1. /\ NoteFirst(id, t) /\ Stamp(id, known, t, "submitted")
          /\ filledLate' = filledLate /\ mem' = [mem EXCEPT ![w] = Idle]
      BY <2>1 DEF CrashInSubmit, NotFilled
    <3>2. \A v \in Workers : Forgets(v) BY <3>1, BecomesIdle
    <3>3. "submitted" \in Statuses BY DEF Statuses, Live, Retryable
    <3>4. IsOption(id) => id \notin filledLate BY <2>1 DEF OptionClock
    <3> QED BY <2>1, <3>1, <3>2, <3>3, <3>4, StampedClock
  <2>2. CASE mem[w].job = "order" /\ CrashInSubmit(w, mem[w].id, Never, now)
    <3>1. Ordered(w) /\ orders[mem[w].id].status \notin Terminal
      BY <2>2 DEF Ordered, CrashInSubmit
    <3>2. Never \in -1..MaxTime /\ now \in 0..MaxTime BY ClockAssumption DEF Never, TypeOK
    <3> QED BY <2>1, <2>2, <3>1, <3>2, CreatedKnows
  <2>3. ASSUME NEW id \in OrderIds, InPass(w, id), ~Expired(w, id),
               CrashInSubmit(w, id, mem[w].seen[id], mem[w].at)
        PROVE  OptionClock'
    <3>1. /\ orders[id] # NoOrder
          /\ mem[w].seen[id] \in -1..MaxTime /\ mem[w].at \in 0..MaxTime
      BY <2>3, PassedOrder, ClockAssumption
    <3> QED BY <2>1, <2>3, <3>1, PassKnows
  <2> QED BY <1>9, <2>2, <2>3 DEF SubmitKilled
<1>10. CASE Next
  <2>1. ~Tick => \E w \in Workers :
          \/ RolloverRead(w) \/ RolloverWrite(w) \/ Crash(w) \/ SubmitKilled(w)
          \/ \E line \in Lines : BeginPass(w, line)
          \/ \E id \in OrderIds : PassExpire(w, id) \/ Cancel(w, id)
          \/ \E id \in OrderIds, inst \in Instruments, side \in {"buy", "sell"},
                limit \in Limits \cup {Market} : Create(w, id, inst, side, limit)
          \/ \E quote \in Prices, admitted \in BOOLEAN :
                \/ SubmitCreated(w, quote, admitted)
                \/ \E id \in OrderIds : PassSubmit(w, id, quote, admitted)
    BY <1>10 DEF Next
  <2> QED BY <2>1, <1>1, <1>2, <1>3, <1>4, <1>5, <1>6, <1>7, <1>8, <1>9
<1> QED BY <1>1, <1>10

\* An option order never fills after its expiry, counted from its first
\* submission: stamping only the first one keeps the clock running through
\* retries from stale lists, crashes and restarts.
THEOREM OptionsFillBeforeExpiryHolds ==
    ASSUME Expiry["options"] > 0
    PROVE  Spec => []OptionsFillBeforeExpiry
<1>1. Init => OptionClock
  <2>1. Init => \A w \in Workers : ~Passing(w) BY DEF Init, Passing, Idle
  <2> QED BY <2>1 DEF Init, OptionClock
<1>2. OrdersKnown /\ OptionClock /\ [Next]_vars => OptionClock' BY OptionClockStep
<1>3. OrdersKnown /\ OptionClock => OptionsFillBeforeExpiry
  BY DEF OrdersKnown, TypeOK, OptionClock, OptionsFillBeforeExpiry, IsOption
<1> QED BY <1>1, <1>2, <1>3, OrdersKnownHolds, PTL DEF Spec

-----------------------------------------------------------------------------
(* What a step does to the account *)

\* A worker that submits an order does it at the time it reads, or at the time
\* its pass started with.
SubmitsAt(w, t) == (Ordered(w) /\ t = now) \/ (Passing(w) /\ t = mem[w].at)

\* Worker w fills an order that the gate admits at this quote.
Fills(w, id, quote, t) ==
    /\ SubmitsAt(w, t) /\ orders[id] # NoOrder
    /\ Allowed(id, quote, CountersAt(t)) /\ ~Rests(orders[id], quote)
    /\ orders[id].side = "buy" => FillPrice("buy", quote) <= cash
    /\ Fill(id, FillPrice(orders[id].side, quote), t)
    /\ \A o \in OrderIds \ {id} : orders'[o] = orders[o]

\* A step that fills no order may still bring the counters to a new day.
FillsNothing ==
    /\ UNCHANGED <<account, entriesOn>>
    /\ \A id \in OrderIds : orders'[id].status = "filled" => orders[id].status = "filled"
    /\ \/ counters' = counters
       \/ \E w \in Workers, t \in 0..MaxTime : SubmitsAt(w, t) /\ counters' = CountersAt(t)
       \/ \E w \in Workers : RolloverWrite(w)

FillsAtMostOne ==
    \/ FillsNothing
    \/ \E w \in Workers, id \in OrderIds, quote \in Prices, t \in 0..MaxTime :
          Fills(w, id, quote, t)

\* A submission fills one order or none, ...
LEMMA SubmitFills ==
    ASSUME TypeOK, NEW w \in Workers, NEW id \in OrderIds, orders[id] # NoOrder,
           NEW known \in -1..MaxTime, NEW t \in 0..MaxTime,
           NEW quote \in Prices, NEW admitted \in BOOLEAN,
           SubmitsAt(w, t), Submit(id, known, t, quote, admitted)
    PROVE  FillsAtMostOne
<1>1. CASE orders[id].status \in Terminal
  <2>1. UNCHANGED <<account, orders, counters, entriesOn>>
    BY <1>1 DEF Submit, history
  <2> QED BY <2>1 DEF FillsAtMostOne, FillsNothing
<1>2. CASE orders[id].status \notin Terminal
  <2> DEFINE o == orders[id]
             price == FillPrice(o.side, quote)
             approved == admitted /\ Allowed(id, quote, CountersAt(t))
  <2> HIDE DEF approved
  <2>1. \/ /\ Stamp(id, known, t, "rejected") \/ Stamp(id, known, t, "open")
           /\ NotFilled(t)
        \/ /\ approved /\ ~Rests(o, quote) /\ (o.side = "buy" => price <= cash)
           /\ Stamp(id, known, t, "filled") /\ Fill(id, price, t)
    BY <1>2, Zenon DEF Submit, approved
  <2>2. ASSUME NEW status \in {"rejected", "open"}, Stamp(id, known, t, status), NotFilled(t)
        PROVE  FillsAtMostOne
    <3>1. status \in Statuses BY DEF Statuses, Live, Retryable, Terminal
    <3>2. orders'[id].status = status /\ \A q \in OrderIds \ {id} : orders'[q] = orders[q]
      BY <2>2, <3>1, StampEffect
    <3>3. UNCHANGED <<account, entriesOn>> /\ counters' = CountersAt(t)
      BY <2>2 DEF NotFilled
    <3> QED BY <3>2, <3>3 DEF FillsAtMostOne, FillsNothing
  <2>3. ASSUME approved, ~Rests(o, quote), o.side = "buy" => price <= cash,
               Stamp(id, known, t, "filled"), Fill(id, price, t)
        PROVE  FillsAtMostOne
    <3>1. "filled" \in Statuses BY DEF Statuses, Terminal
    <3>2. \A q \in OrderIds \ {id} : orders'[q] = orders[q]
      BY <2>3, <3>1, StampEffect
    <3>3. Allowed(id, quote, CountersAt(t)) BY <2>3 DEF approved
    <3>4. Fills(w, id, quote, t) BY <2>3, <3>2, <3>3, Zenon DEF Fills
    <3> QED BY <3>4 DEF FillsAtMostOne
  <2> QED BY <2>1, <2>2, <2>3
<1> QED BY <1>1, <1>2

\* ... and nothing but a submission touches the account.
LEMMA AccountStep == OrdersKnown /\ [Next]_vars => FillsAtMostOne
<1> SUFFICES ASSUME OrdersKnown, [Next]_vars PROVE FillsAtMostOne
    OBVIOUS
<1> USE DEF OrdersKnown
<1>1. ASSUME UNCHANGED <<account, orders, counters, entriesOn>> PROVE FillsAtMostOne
  BY <1>1 DEF FillsAtMostOne, FillsNothing
<1>2. CASE UNCHANGED vars \/ Tick BY <1>1, <1>2 DEF vars, Tick, history
<1>3. ASSUME NEW w \in Workers,
             \/ \E line \in Lines : BeginPass(w, line)
             \/ RolloverRead(w) \/ Crash(w)
      PROVE  FillsAtMostOne
  BY <1>1, <1>3 DEF BeginPass, RolloverRead, Crash, history
<1>4. ASSUME NEW w \in Workers, RolloverWrite(w) PROVE FillsAtMostOne
  <2>1. UNCHANGED <<account, orders, entriesOn>> BY <1>4 DEF RolloverWrite, history
  <2> QED BY <1>4, <2>1 DEF FillsAtMostOne, FillsNothing
<1>5. ASSUME NEW w \in Workers, NEW id \in OrderIds, PassExpire(w, id) \/ Cancel(w, id)
      PROVE  FillsAtMostOne
  <2>1. UNCHANGED <<account, counters, entriesOn>>
    BY <1>5 DEF PassExpire, Cancel, history
  <2>2. \A o \in OrderIds : orders'[o].status \in {orders[o].status, "expired", "cancelled"}
    <3>1. CASE orders' = orders BY <3>1
    <3>2. CASE orders' # orders
      <4>1. PICK status \in {"expired", "cancelled"} :
               orders[id].status \in Live /\ orders' = [orders EXCEPT ![id].status = status]
        BY <1>5, <3>2 DEF PassExpire, Cancel, Live
      <4>2. orders[id] # NoOrder BY <4>1, OrderExists DEF Statuses
      <4> QED BY <4>1, <4>2, EndsEffect DEF Terminal, Advances
    <3> QED BY <3>1, <3>2
  <2> QED BY <2>1, <2>2 DEF FillsAtMostOne, FillsNothing
<1>6. ASSUME NEW w \in Workers, NEW id \in OrderIds, NEW inst \in Instruments,
             NEW side \in {"buy", "sell"}, NEW limit \in Limits \cup {Market},
             Create(w, id, inst, side, limit)
      PROVE  FillsAtMostOne
  <2>1. UNCHANGED <<account, counters, entriesOn>> BY <1>6 DEF Create, history
  <2>2. \A o \in OrderIds : orders'[o].status \in {orders[o].status, "created"}
    BY <1>6 DEF Create, TypeOK
  <2> QED BY <2>1, <2>2 DEF FillsAtMostOne, FillsNothing
<1>7. ASSUME NEW w \in Workers, NEW quote \in Prices, NEW admitted \in BOOLEAN,
             SubmitCreated(w, quote, admitted)
      PROVE  FillsAtMostOne
  <2>1. Ordered(w) /\ Submit(mem[w].id, Never, now, quote, admitted)
    BY <1>7 DEF SubmitCreated, Ordered
  <2>2. mem[w].id \in OrderIds /\ orders[mem[w].id] # NoOrder
    BY <2>1, OrderedType DEF WorkersSeeOrders
  <2>3. Never \in -1..MaxTime /\ now \in 0..MaxTime BY ClockAssumption DEF Never, TypeOK
  <2>4. SubmitsAt(w, now) BY <2>1 DEF SubmitsAt
  <2> QED BY <2>1, <2>2, <2>3, <2>4, SubmitFills
<1>8. ASSUME NEW w \in Workers, NEW id \in OrderIds, NEW quote \in Prices,
             NEW admitted \in BOOLEAN, PassSubmit(w, id, quote, admitted)
      PROVE  FillsAtMostOne
  <2> DEFINE known == mem[w].seen[id]
             at == mem[w].at
  <2>1. InPass(w, id) /\ Submit(id, known, at, quote, admitted) BY <1>8 DEF PassSubmit
  <2>2. orders[id] # NoOrder /\ known \in -1..MaxTime /\ at \in 0..MaxTime
    BY <2>1, PassedOrder, ClockAssumption
  <2>3. SubmitsAt(w, at) BY <2>1 DEF SubmitsAt, InPass, Passing
  <2> HIDE DEF known, at
  <2> QED BY <2>1, <2>2, <2>3, SubmitFills
<1>9. ASSUME NEW w \in Workers, SubmitKilled(w) PROVE FillsAtMostOne
  <2>1. PICK id \in OrderIds, known \in -1..MaxTime, t \in 0..MaxTime :
           CrashInSubmit(w, id, known, t) /\ orders[id] # NoOrder /\ SubmitsAt(w, t)
    <3>1. CASE mem[w].job = "order" /\ CrashInSubmit(w, mem[w].id, Never, now)
      <4>1. Ordered(w) /\ SubmitsAt(w, now) BY <3>1 DEF Ordered, SubmitsAt
      <4>2. mem[w].id \in OrderIds /\ orders[mem[w].id] # NoOrder
        BY <4>1, OrderedType DEF WorkersSeeOrders
      <4>3. Never \in -1..MaxTime /\ now \in 0..MaxTime
        BY ClockAssumption DEF Never, TypeOK
      <4> QED BY <3>1, <4>1, <4>2, <4>3
    <3>2. ASSUME NEW id \in OrderIds, InPass(w, id),
                 CrashInSubmit(w, id, mem[w].seen[id], mem[w].at)
          PROVE  \E known \in -1..MaxTime, t \in 0..MaxTime :
                    CrashInSubmit(w, id, known, t) /\ orders[id] # NoOrder /\ SubmitsAt(w, t)
      <4>1. /\ orders[id] # NoOrder
            /\ mem[w].seen[id] \in -1..MaxTime /\ mem[w].at \in 0..MaxTime
        BY <3>2, PassedOrder, ClockAssumption
      <4>2. SubmitsAt(w, mem[w].at) BY <3>2 DEF SubmitsAt, InPass, Passing
      <4> QED BY <3>2, <4>1, <4>2
    <3> QED BY <1>9, <3>1, <3>2 DEF SubmitKilled
  <2>2. UNCHANGED <<account, entriesOn>> /\ counters' = CountersAt(t)
    BY <2>1 DEF CrashInSubmit, NotFilled
  <2>3. /\ orders'[id].status = "submitted"
        /\ \A o \in OrderIds \ {id} : orders'[o] = orders[o]
    BY <2>1, KilledAdvances DEF Advances
  <2> QED BY <2>1, <2>2, <2>3 DEF FillsAtMostOne, FillsNothing
<1>10. CASE Next
  <2>1. ~Tick => \E w \in Workers :
          \/ RolloverRead(w) \/ RolloverWrite(w) \/ Crash(w) \/ SubmitKilled(w)
          \/ \E line \in Lines : BeginPass(w, line)
          \/ \E id \in OrderIds : PassExpire(w, id) \/ Cancel(w, id)
          \/ \E id \in OrderIds, inst \in Instruments, side \in {"buy", "sell"},
                limit \in Limits \cup {Market} : Create(w, id, inst, side, limit)
          \/ \E quote \in Prices, admitted \in BOOLEAN :
                \/ SubmitCreated(w, quote, admitted)
                \/ \E id \in OrderIds : PassSubmit(w, id, quote, admitted)
    BY <1>10 DEF Next
  <2> QED BY <2>1, <1>2, <1>3, <1>4, <1>5, <1>6, <1>7, <1>8, <1>9
<1> QED BY <1>2, <1>10

-----------------------------------------------------------------------------
(* Sums over finite sets                                                    *)
(*                                                                          *)
(* The fold of the library is a recursive function on the subsets of a set. *)
(* What it computes is shown without an induction rule, from a smallest     *)
(* counterexample, which exists because strict inclusion is well-founded on *)
(* the subsets of a finite set.                                             *)

Total(f, S) == MapThenSumSet(LAMBDA i : f[i], S)

\* The element that the fold takes first.
Pick(S) == CHOOSE x \in S : TRUE

\* h computes on every subset of S what the fold computes.
SumsUp(h, f, S) ==
    h = [s \in SUBSET S |-> IF s = {} THEN 0 ELSE f[Pick(s)] + h[s \ {Pick(s)}]]

LEMMA PickIn == \A S : S # {} => Pick(S) \in S
BY DEF Pick

LEMMA TotalIs ==
    ASSUME NEW f, NEW S
    PROVE  Total(f, S) = (CHOOSE h : SumsUp(h, f, S))[S]
BY Zenon DEF Total, MapThenSumSet, MapThenFoldSet, SumsUp, Pick

\* Of the subsets of a finite set in a non-empty set T, one contains no other.
LEMMA MinimalSubset ==
    ASSUME NEW S, IsFiniteSet(S), NEW T \in SUBSET SUBSET S, T # {}
    PROVE  \E m \in T : \A s \in T : s \subseteq m => s = m
<1>1. FiniteSubsetsOf(S) = SUBSET S BY FS_FiniteSubsetsOfFinite
<1>2. IsWellFoundedOn(StrictSubsetOrdering(S), SUBSET S)
  BY <1>1, FS_StrictSubsetOrderingWellFounded
<1>3. PICK m \in T : \A s \in T : ~ (<<s, m>> \in StrictSubsetOrdering(S))
  BY <1>2, WFMin
<1> QED BY <1>3 DEF StrictSubsetOrdering

\* Two such functions agree where both are defined, ...
LEMMA SumsAgree ==
    ASSUME NEW f, NEW S, IsFiniteSet(S), NEW T \in SUBSET S,
           NEW h, NEW g, SumsUp(h, f, S), SumsUp(g, f, T)
    PROVE  \A s \in SUBSET T : h[s] = g[s]
<1> DEFINE Bad == {s \in SUBSET T : h[s] # g[s]}
<1>1. SUFFICES ASSUME Bad # {} PROVE FALSE OBVIOUS
<1>2. IsFiniteSet(T) BY FS_Subset
<1>3. PICK m \in Bad : \A s \in Bad : s \subseteq m => s = m
  <2>1. Bad \in SUBSET SUBSET T OBVIOUS
  <2> HIDE DEF Bad
  <2> QED BY <1>1, <1>2, <2>1, MinimalSubset
<1>4. /\ h[m] = IF m = {} THEN 0 ELSE f[Pick(m)] + h[m \ {Pick(m)}]
      /\ g[m] = IF m = {} THEN 0 ELSE f[Pick(m)] + g[m \ {Pick(m)}]
  BY <1>3 DEF SumsUp
<1>5. m # {} BY <1>3, <1>4
<1>6. Pick(m) \in m BY <1>5, PickIn
<1>7. h[m \ {Pick(m)}] = g[m \ {Pick(m)}] BY <1>3, <1>6
<1> QED BY <1>3, <1>4, <1>5, <1>7

\* ... and one exists: it is put together from those of the smaller subsets.
LEMMA SumsExist ==
    ASSUME NEW f, NEW S, IsFiniteSet(S)
    PROVE  \E h : SumsUp(h, f, S)
<1> DEFINE Bad == {s \in SUBSET S : ~ \E h : SumsUp(h, f, s)}
           of(s) == CHOOSE h : SumsUp(h, f, s)
<1>1. SUFFICES ASSUME Bad # {} PROVE FALSE OBVIOUS
<1>2. PICK m \in Bad : \A s \in Bad : s \subseteq m => s = m
  <2>1. Bad \in SUBSET SUBSET S OBVIOUS
  <2> HIDE DEF Bad
  <2> QED BY <1>1, <2>1, MinimalSubset
<1>3. \A s \in SUBSET m : s # m => SumsUp(of(s), f, s)
  <2> SUFFICES ASSUME NEW s \in SUBSET m, s # m PROVE SumsUp(of(s), f, s) OBVIOUS
  <2>1. \E h : SumsUp(h, f, s) BY <1>2
  <2> QED BY <2>1, Zenon
<1>4. IsFiniteSet(m) BY <1>2, FS_Subset
<1> HIDE DEF of
<1>5. \A s, r \in SUBSET m : s # m /\ r \subseteq s => of(s)[r] = of(r)[r]
  <2> SUFFICES ASSUME NEW s \in SUBSET m, NEW r \in SUBSET s, s # m
               PROVE  of(s)[r] = of(r)[r]
    OBVIOUS
  <2>1. SumsUp(of(s), f, s) /\ SumsUp(of(r), f, r) BY <1>3
  <2>2. IsFiniteSet(s) BY <1>4, FS_Subset
  <2> QED BY <2>1, <2>2, SumsAgree
<1> DEFINE h == [s \in SUBSET m |-> IF s = {} THEN 0
                    ELSE f[Pick(s)] + of(s \ {Pick(s)})[s \ {Pick(s)}]]
<1>6. ASSUME NEW s \in SUBSET m, s # m PROVE h[s] = of(s)[s]
  <2>1. of(s)[s] = IF s = {} THEN 0 ELSE f[Pick(s)] + of(s)[s \ {Pick(s)}]
    BY <1>3, <1>6 DEF SumsUp
  <2>2. of(s)[s \ {Pick(s)}] = of(s \ {Pick(s)})[s \ {Pick(s)}] BY <1>5, <1>6
  <2> QED BY <2>1, <2>2
<1>7. \A s \in SUBSET m : s # {} => h[s \ {Pick(s)}] = of(s \ {Pick(s)})[s \ {Pick(s)}]
  <2> HIDE DEF h
  <2> QED BY <1>6, PickIn
<1>8. SumsUp(h, f, m)
  <2>1. h = [s \in SUBSET m |-> IF s = {} THEN 0 ELSE f[Pick(s)] + h[s \ {Pick(s)}]]
    <3>1. \A s \in SUBSET m : 
             (IF s = {} THEN 0 ELSE f[Pick(s)] + of(s \ {Pick(s)})[s \ {Pick(s)}])
             = (IF s = {} THEN 0 ELSE f[Pick(s)] + h[s \ {Pick(s)}])
      <4> HIDE DEF h
      <4> QED BY <1>7
    <3> QED BY <3>1
  <2> QED BY <2>1 DEF SumsUp
<1> HIDE DEF h
<1> QED BY <1>2, <1>8

\* So the total is that of the recursive definition, ...
LEMMA TotalUnfolds ==
    ASSUME NEW f, NEW S, IsFiniteSet(S)
    PROVE  Total(f, S) = IF S = {} THEN 0 ELSE f[Pick(S)] + Total(f, S \ {Pick(S)})
<1> DEFINE of(s) == CHOOSE h : SumsUp(h, f, s)
           R == S \ {Pick(S)}
<1>1. \A s \in SUBSET S : SumsUp(of(s), f, s)
  <2> SUFFICES ASSUME NEW s \in SUBSET S PROVE SumsUp(of(s), f, s) OBVIOUS
  <2>1. \E h : SumsUp(h, f, s) BY SumsExist, FS_Subset
  <2> QED BY <2>1, Zenon
<1>2. \A s : Total(f, s) = of(s)[s] BY TotalIs
<1> HIDE DEF of
<1>3. of(S)[S] = IF S = {} THEN 0 ELSE f[Pick(S)] + of(S)[R]
  BY <1>1 DEF SumsUp
<1>4. of(S)[R] = of(R)[R] BY <1>1, SumsAgree
<1> QED BY <1>2, <1>3, <1>4

LEMMA TotalType ==
    ASSUME NEW f, NEW S, IsFiniteSet(S), \A x \in S : f[x] \in Nat
    PROVE  Total(f, S) \in Nat
<1> DEFINE Bad == {s \in SUBSET S : Total(f, s) \notin Nat}
<1>1. SUFFICES ASSUME Bad # {} PROVE FALSE OBVIOUS
<1>2. PICK m \in Bad : \A s \in Bad : s \subseteq m => s = m
  <2>1. Bad \in SUBSET SUBSET S OBVIOUS
  <2> HIDE DEF Bad
  <2> QED BY <1>1, <2>1, MinimalSubset
<1>3. Total(f, m) = IF m = {} THEN 0 ELSE f[Pick(m)] + Total(f, m \ {Pick(m)})
  BY <1>2, TotalUnfolds, FS_Subset
<1>4. m # {} BY <1>2, <1>3
<1>5. Pick(m) \in m BY <1>4, PickIn
<1>6. Total(f, m \ {Pick(m)}) \in Nat BY <1>2, <1>5
<1> QED BY <1>2, <1>3, <1>4, <1>5, <1>6

\* ... whichever element is taken first.
LEMMA TotalWith ==
    ASSUME NEW f, NEW S, IsFiniteSet(S), \A x \in S : f[x] \in Nat, NEW x \in S
    PROVE  Total(f, S) = f[x] + Total(f, S \ {x})
<1> DEFINE Bad == {s \in SUBSET S : \E y \in s : Total(f, s) # f[y] + Total(f, s \ {y})}
<1>1. SUFFICES ASSUME Bad # {} PROVE FALSE OBVIOUS
<1>2. PICK m \in Bad : \A s \in Bad : s \subseteq m => s = m
  <2>1. Bad \in SUBSET SUBSET S OBVIOUS
  <2> HIDE DEF Bad
  <2> QED BY <1>1, <2>1, MinimalSubset
<1>3. PICK y \in m : Total(f, m) # f[y] + Total(f, m \ {y}) BY <1>2
<1>4. Pick(m) \in m BY <1>3, PickIn
<1> DEFINE c == Pick(m)
           a == m \ {c}
           b == m \ {y}
           r == m \ {c, y}
<1>5. Total(f, m) = f[c] + Total(f, a) BY <1>2, <1>3, TotalUnfolds, FS_Subset
<1> HIDE DEF c
<1>6. c # y BY <1>3, <1>5
<1>7. /\ a \in SUBSET S /\ a # m /\ a \subseteq m /\ y \in a /\ a \ {y} = r
      /\ b \in SUBSET S /\ b # m /\ b \subseteq m /\ c \in b /\ b \ {c} = r
  BY <1>2, <1>3, <1>4, <1>6 DEF c
<1>8. Total(f, a) = f[y] + Total(f, r)
  <2> HIDE DEF a, b, r
  <2> QED BY <1>2, <1>7
<1>9. Total(f, b) = f[c] + Total(f, r)
  <2> HIDE DEF a, b, r
  <2> QED BY <1>2, <1>7
<1>10. f[c] \in Nat /\ f[y] \in Nat BY <1>2, <1>3, <1>4 DEF c
<1>11. Total(f, r) \in Nat BY <1>2, TotalType, FS_Subset
<1> HIDE DEF a, b, r
<1>12. Total(f, m) = f[y] + Total(f, b) BY <1>5, <1>8, <1>9, <1>10, <1>11
<1> QED BY <1>3, <1>12 DEF b

\* It depends on the summands only.
LEMMA TotalSame ==
    ASSUME NEW f, NEW g, NEW S, IsFiniteSet(S), \A x \in S : f[x] = g[x]
    PROVE  Total(f, S) = Total(g, S)
<1> DEFINE Bad == {s \in SUBSET S : Total(f, s) # Total(g, s)}
<1>1. SUFFICES ASSUME Bad # {} PROVE FALSE OBVIOUS
<1>2. PICK m \in Bad : \A s \in Bad : s \subseteq m => s = m
  <2>1. Bad \in SUBSET SUBSET S OBVIOUS
  <2> HIDE DEF Bad
  <2> QED BY <1>1, <2>1, MinimalSubset
<1>3. /\ Total(f, m) = IF m = {} THEN 0 ELSE f[Pick(m)] + Total(f, m \ {Pick(m)})
      /\ Total(g, m) = IF m = {} THEN 0 ELSE g[Pick(m)] + Total(g, m \ {Pick(m)})
  BY <1>2, TotalUnfolds, FS_Subset
<1>4. m # {} BY <1>2, <1>3
<1>5. Pick(m) \in m BY <1>4, PickIn
<1>6. Total(f, m \ {Pick(m)}) = Total(g, m \ {Pick(m)}) BY <1>2, <1>5
<1> QED BY <1>2, <1>3, <1>4, <1>5, <1>6

LEMMA TotalOfNone == \A f : Total(f, {}) = 0
BY TotalUnfolds, FS_EmptySet

-----------------------------------------------------------------------------
(* The books *)

\* The cost of the positions as a total, now and after a step.
LEMMA DeployedIs == \A insts : Deployed(insts) = Total(positions, Held \cap insts)
BY DEF Deployed, Total

LEMMA DeployedNext == Deployed(Instruments)' = Total(positions', Held' \cap Instruments)
BY DEF Deployed, Total, MapThenSumSet, MapThenFoldSet

LEMMA InstrumentsFinite == IsFiniteSet(Instruments)
BY FiniteAssumption, FS_Union DEF Instruments

\* A buy adds what it cost to the cost of the positions, ...
LEMMA DeployedAfterBuy ==
    ASSUME TypeOK, NEW i \in Instruments, i \notin Held, NEW price \in Nat \ {0},
           positions' = [positions EXCEPT ![i] = price]
    PROVE  Deployed(Instruments)' = Deployed(Instruments) + price
<1> DEFINE new == [positions EXCEPT ![i] = price]
<1>1. /\ new \in [Instruments -> Nat] /\ new[i] = price
      /\ \A j \in Instruments \ {i} : new[j] = positions[j]
  BY DEF TypeOK
<1>2. positions' = new OBVIOUS
<1> HIDE DEF new
<1>3. Held' = Held \cup {i} BY <1>1, <1>2 DEF Held
<1>4. Held \subseteq Instruments BY DEF Held
<1>5. IsFiniteSet(Held) /\ IsFiniteSet(Held \cup {i})
  BY <1>4, InstrumentsFinite, FS_Subset
<1>6. Total(new, Held \cup {i}) = new[i] + Total(new, (Held \cup {i}) \ {i})
  BY <1>1, <1>4, <1>5, TotalWith
<1>7. (Held \cup {i}) \ {i} = Held OBVIOUS
<1>8. Total(new, Held) = Total(positions, Held)
  BY <1>1, <1>4, <1>5, TotalSame
<1>9. /\ Deployed(Instruments) = Total(positions, Held)
      /\ Deployed(Instruments)' = Total(new, Held \cup {i})
  <2>1. Held \cap Instruments = Held /\ (Held \cup {i}) \cap Instruments = Held \cup {i}
    BY <1>4
  <2> QED BY <1>2, <1>3, <2>1, DeployedIs, DeployedNext
<1>10. Total(positions, Held) \in Nat
  BY <1>4, <1>5, TotalType DEF TypeOK
<1>11. Total(new, Held \cup {i}) = price + Total(positions, Held)
  BY <1>1, <1>6, <1>7, <1>8
<1> QED BY <1>9, <1>10, <1>11

\* ... and a sale takes off what the lot had cost.
LEMMA DeployedAfterSale ==
    ASSUME TypeOK, NEW i \in Held, positions' = [positions EXCEPT ![i] = 0]
    PROVE  Deployed(Instruments)' = Deployed(Instruments) - positions[i]
<1> DEFINE new == [positions EXCEPT ![i] = 0]
<1>1. Held \subseteq Instruments BY DEF Held
<1>2. /\ new[i] = 0 /\ \A j \in Instruments \ {i} : new[j] = positions[j]
      /\ new \in [Instruments -> Nat]
  BY <1>1 DEF TypeOK
<1>3. positions' = new OBVIOUS
<1> HIDE DEF new
<1>4. Held' = Held \ {i} BY <1>1, <1>2, <1>3 DEF Held
<1>5. IsFiniteSet(Held) /\ IsFiniteSet(Held \ {i})
  BY <1>1, InstrumentsFinite, FS_Subset
<1>6. Total(positions, Held) = positions[i] + Total(positions, Held \ {i})
  BY <1>1, <1>5, TotalWith DEF TypeOK
<1>7. Total(new, Held \ {i}) = Total(positions, Held \ {i})
  BY <1>1, <1>2, <1>5, TotalSame
<1>8. /\ Deployed(Instruments) = Total(positions, Held)
      /\ Deployed(Instruments)' = Total(new, Held \ {i})
  <2>1. Held \cap Instruments = Held /\ (Held \ {i}) \cap Instruments = Held \ {i}
    BY <1>1
  <2> QED BY <1>3, <1>4, <2>1, DeployedIs, DeployedNext
<1>9. Total(positions, Held \ {i}) \in Nat
  BY <1>1, <1>5, TotalType DEF TypeOK
<1>10. positions[i] \in Nat BY <1>1 DEF TypeOK
<1> QED BY <1>6, <1>7, <1>8, <1>9, <1>10

LEMMA DeployedType ==
    ASSUME TypeOK, NEW insts
    PROVE  Deployed(insts) \in Nat
<1>1. Held \cap insts \subseteq Instruments BY DEF Held
<1>2. IsFiniteSet(Held \cap insts) BY <1>1, InstrumentsFinite, FS_Subset
<1> QED BY <1>1, <1>2, DeployedIs, TotalType DEF TypeOK

\* A price at which a buy fills is positive.
LEMMA BuyPrice == \A quote \in Prices : FillPrice("buy", quote) \in Nat \ {0}
BY AmountsAssumption DEF FillPrice

\* What an order that is filled does to cash, realised profit and positions.
LEMMA BooksStep ==
    ASSUME OrdersKnown, BooksBalance, FillsAtMostOne
    PROVE  BooksBalance'
<1> USE DEF OrdersKnown
<1>1. CASE FillsNothing
  <2>1. UNCHANGED <<cash, realized, positions>> BY <1>1 DEF FillsNothing, account
  <2>2. Deployed(Instruments)' = Deployed(Instruments)
    BY <2>1, DeployedIs, DeployedNext DEF Held
  <2> QED BY <2>1, <2>2 DEF BooksBalance
<1>2. ASSUME NEW w \in Workers, NEW id \in OrderIds, NEW quote \in Prices,
             NEW t \in 0..MaxTime, Fills(w, id, quote, t)
      PROVE  BooksBalance'
  <2> DEFINE i == orders[id].inst
             side == orders[id].side
             price == FillPrice(side, quote)
  <2>1. /\ i \in Instruments /\ side \in {"buy", "sell"} /\ price \in Nat
    BY <1>2, OrderType, FillPriceType DEF Fills, OrderRecords
  <2>2. /\ cash \in Nat /\ realized \in Int /\ InitialCash \in Nat
        /\ Deployed(Instruments) \in Nat
    BY DeployedType, AmountsAssumption DEF TypeOK
  <2>3. CASE side = "buy"
    <3>1. i \notin Held BY <1>2, <2>3 DEF Fills, Allowed, EntryAllowed
    <3>2. /\ cash' = cash - price /\ realized' = realized
          /\ positions' = [positions EXCEPT ![i] = price]
      BY <1>2, <2>3 DEF Fills, Fill
    <3>3. price \in Nat \ {0} BY <2>3, BuyPrice
    <3> HIDE DEF i, price
    <3>4. Deployed(Instruments)' = Deployed(Instruments) + price
      BY <2>1, <3>1, <3>2, <3>3, DeployedAfterBuy
    <3> QED BY <2>1, <2>2, <3>2, <3>4 DEF BooksBalance
  <2>4. CASE side = "sell"
    <3>1. i \in Held BY <1>2, <2>4 DEF Fills, Allowed, ExitAllowed
    <3>2. /\ cash' = cash + price /\ realized' = realized + Profit(i, price)
          /\ positions' = [positions EXCEPT ![i] = 0]
      BY <1>2, <2>4 DEF Fills, Fill
    <3>3. positions[i] \in Nat /\ Profit(i, price) = price - positions[i]
      BY <2>1 DEF TypeOK, Profit
    <3> HIDE DEF i, price
    <3>4. Deployed(Instruments)' = Deployed(Instruments) - positions[i]
      BY <3>1, <3>2, DeployedAfterSale
    <3> QED BY <2>1, <2>2, <3>2, <3>3, <3>4 DEF BooksBalance
  <2> QED BY <2>1, <2>3, <2>4
<1> QED BY <1>1, <1>2 DEF FillsAtMostOne

\* Cash, realised profit and the cost of the positions account for every cent,
\* through any number of fills, retries and crashes.
THEOREM BooksBalanceHolds == Spec => []BooksBalance
<1>1. Init => BooksBalance
  <2> SUFFICES ASSUME Init PROVE BooksBalance OBVIOUS
  <2>1. Held \cap Instruments = {} BY DEF Init, Held
  <2>2. Deployed(Instruments) = 0 BY <2>1, DeployedIs, TotalOfNone
  <2> QED BY <2>2, AmountsAssumption DEF Init, BooksBalance
<1>2. OrdersKnown /\ BooksBalance /\ [Next]_vars => BooksBalance'
  BY AccountStep, BooksStep
<1> QED BY <1>1, <1>2, OrdersKnownHolds, PTL DEF Spec

-----------------------------------------------------------------------------
(* The deployment caps *)

\* The fold of Reserved computes the total of the limits as a function.
LimitsUp(h, S) ==
    h = [s \in SUBSET S |->
            IF s = {} THEN 0 ELSE orders[Pick(s)].limit + h[s \ {Pick(s)}]]

LEMMA ReservedType ==
    ASSUME TypeOK, NEW id \in OrderIds, NEW insts
    PROVE  Reserved(id, insts) \in Nat
<1> DEFINE S == {o \in PendingEntries(id) : orders[o].inst \in insts}
           limits == [o \in OrderIds |-> orders[o].limit]
           g == CHOOSE h : LimitsUp(h, S)
           total == CHOOSE h : SumsUp(h, limits, S)
<1>1. S \subseteq OrderIds BY DEF PendingEntries, LiveOthers
<1>2. IsFiniteSet(S) BY <1>1, FiniteAssumption, FS_Subset
<1> HIDE DEF S, limits
<1>3. ASSUME NEW o \in S PROVE limits[o] = orders[o].limit /\ limits[o] \in Nat
  <2>1. o \in OrderIds BY <1>1, <1>3
  <2>2. orders[o].status \in Statuses
    BY <1>3 DEF S, PendingEntries, LiveOthers, Statuses
  <2>3. orders[o].limit \in Limits \cup {Market}
    BY <2>1, <2>2, OrderExists, OrderType DEF OrderRecords
  <2>4. limits[o] = orders[o].limit BY <2>1 DEF limits
  <2>5. \A limit \in Limits \cup {Market} : limit \in Nat BY AmountsAssumption DEF Market
  <2> QED BY <2>3, <2>4, <2>5, Zenon
<1>4. Reserved(id, insts) = g[S]
  BY Zenon DEF S, Reserved, MapThenSumSet, MapThenFoldSet, LimitsUp, Pick
<1>5. \A h : SumsUp(h, limits, S) <=> LimitsUp(h, S)
  <2> SUFFICES ASSUME NEW h PROVE SumsUp(h, limits, S) <=> LimitsUp(h, S) OBVIOUS
  <2>1. \A s \in SUBSET S :
           (IF s = {} THEN 0 ELSE limits[Pick(s)] + h[s \ {Pick(s)}])
           = (IF s = {} THEN 0 ELSE orders[Pick(s)].limit + h[s \ {Pick(s)}])
    BY <1>3, PickIn
  <2>2. [s \in SUBSET S |-> IF s = {} THEN 0 ELSE limits[Pick(s)] + h[s \ {Pick(s)}]]
        = [s \in SUBSET S |->
              IF s = {} THEN 0 ELSE orders[Pick(s)].limit + h[s \ {Pick(s)}]]
    BY <2>1
  <2> QED BY <2>2, Zenon DEF SumsUp, LimitsUp
<1>6. \E h : SumsUp(h, limits, S) BY <1>2, SumsExist
<1>7. SumsUp(total, limits, S) BY <1>6, Zenon
<1>8. SumsUp(g, limits, S)
  <2>1. \E h : LimitsUp(h, S) BY <1>5, <1>6
  <2>2. LimitsUp(g, S) BY <2>1, Zenon
  <2> QED BY <2>2, <1>5
<1>9. Total(limits, S) = total[S] BY TotalIs
<1> HIDE DEF g, total
<1>10. g[S] = total[S] BY <1>2, <1>7, <1>8, SumsAgree
<1> QED BY <1>2, <1>3, <1>4, <1>9, <1>10, TotalType

\* An entry counts at the gate for what it costs, up to the slippage of shares.
LEMMA CostCounted ==
    ASSUME TypeOK, NEW id \in OrderIds, orders[id].inst \in Instruments,
           orders[id].side = "buy", NEW quote \in Prices, ~Rests(orders[id], quote)
    PROVE  /\ EntryCost(orders[id], quote) \in Nat
           /\ FillPrice("buy", quote)
                = EntryCost(orders[id], quote)
                    + (IF Line(orders[id].inst) = "equity" THEN Slippage ELSE 0)
<1>1. quote \in Nat /\ Slippage \in Nat BY AmountsAssumption
<1> QED BY <1>1 DEF EntryCost, FillPrice

LEMMA EntryStep ==
    ASSUME OrdersKnown, FillsAtMostOne, NEW id \in OrderIds,
           orders[id] # NoOrder, Bought(id)
    PROVE  100 * (Deployed(Instruments)'
                    - IF Line(orders[id].inst) = "equity" THEN Slippage ELSE 0)
             <= TotalPct * Nav(Line(orders[id].inst))
<1> USE DEF OrdersKnown
<1>1. PICK w \in Workers, q \in OrderIds, quote \in Prices, t \in 0..MaxTime :
         Fills(w, q, quote, t)
  BY DEF FillsAtMostOne, FillsNothing, Bought
<1>2. q = id BY <1>1 DEF Fills, Bought
<1> DEFINE i == orders[id].inst
           slip == IF Line(i) = "equity" THEN Slippage ELSE 0
           price == FillPrice("buy", quote)
           cost == EntryCost(orders[id], quote)
           held == Deployed(Instruments)
           reserved == Reserved(id, Instruments)
           nav == Nav(Line(i))
           cap == TotalPct * nav
<1>3. i \in Instruments BY OrderType
<1>4. orders[id].side = "buy" BY DEF Bought
<1>5. cost \in Nat /\ price = cost + slip /\ slip \in Nat
  BY <1>1, <1>2, <1>3, <1>4, CostCounted, AmountsAssumption DEF Fills
<1>6. EntryAllowed(id, quote, CountersAt(t))
  BY <1>1, <1>2, <1>4 DEF Fills, Allowed
<1>7. i \notin Held /\ 100 * (held + reserved + cost) <= cap
  BY <1>6, Zenon DEF EntryAllowed
<1>8. positions' = [positions EXCEPT ![i] = price]
  BY <1>1, <1>2, <1>4 DEF Fills, Fill
<1>9. price \in Nat \ {0} BY BuyPrice
<1>10. Deployed(Instruments)' = held + price
  <2> HIDE DEF price, i
  <2> QED BY <1>3, <1>7, <1>8, <1>9, DeployedAfterBuy
<1>11. held \in Nat /\ reserved \in Nat BY DeployedType, ReservedType
<1>12. nav \in Nat BY DeployedType DEF Nav, TypeOK
<1>13. cap \in Nat
  <2> HIDE DEF nav
  <2> QED BY <1>12, AmountsAssumption
<1> HIDE DEF cap, held, reserved, cost, price, slip
<1>14. 100 * (held + price - slip) <= cap BY <1>5, <1>7, <1>11, <1>13
<1>15. 100 * (Deployed(Instruments)' - slip) <= cap BY <1>5, <1>10, <1>11, <1>13, <1>14
<1> QED BY <1>15, Zenon DEF slip, cap

\* An entry that fills leaves the account within the total deployment cap, up
\* to the slippage that the equity gate does not count.
THEOREM EntriesWithinCapsHolds == Spec => EntriesWithinCaps
<1>1. OrdersKnown /\ [Next]_vars =>
        [\A id \in OrderIds : orders[id] # NoOrder /\ Bought(id) =>
            LET line == Line(orders[id].inst) IN
            100 * (Deployed(Instruments)' - IF line = "equity" THEN Slippage ELSE 0)
               <= TotalPct * Nav(line)]_vars
  BY AccountStep, EntryStep
<1> QED BY <1>1, OrdersKnownHolds, PTL DEF Spec, EntriesWithinCaps

-----------------------------------------------------------------------------
(* The daily limit of entries *)

Rolling(w) == mem[w].job = "rollover"

\* No worker is submitting orders while another is between the read and the
\* write of the counters of a new day, as it is when jobs on one account are
\* exclusive.
NoEntryInRollover ==
    \A v, w \in Workers : Rolling(w) => ~Ordered(v) /\ ~Passing(v)

\* The counters tell the entries of their day, which is the last on which an
\* entry was filled; a pass and a rollover belong to the day of the clock.
DaysCounted ==
    /\ counters.day <= Day(now)
    /\ EntriesToday(counters) = entriesOn[counters.day]
    /\ \A d \in 0..Day(MaxTime) : d > counters.day => entriesOn[d] = 0
    /\ \A w \in Workers :
          /\ Passing(w) => Day(mem[w].at) = Day(now)
          /\ Rolling(w) => mem[w].day = Day(now) /\ entriesOn[Day(now)] = 0
    /\ DailyEntryLimit

\* What a worker remembers after a step in which the clock stands still.
Remembers(w) ==
    \/ Forgets(w)
    \/ Ordered(w)'
    \/ Passing(w)' /\ mem'[w].at = now
    \/ RolloverRead(w) /\ mem'[w].day = Day(now) /\ mem'[w].job = "rollover"

LEMMA MemoryStep ==
    OrdersKnown /\ [Next]_vars =>
        \/ UNCHANGED vars \/ Tick
        \/ now' = now /\ \A w \in Workers : Remembers(w)
<1> SUFFICES ASSUME OrdersKnown, [Next]_vars, ~Tick, ~UNCHANGED vars
             PROVE  now' = now /\ \A w \in Workers : Remembers(w)
    OBVIOUS
<1> USE DEF OrdersKnown
<1>1. PICK w \in Workers :
          \/ RolloverRead(w) \/ RolloverWrite(w) \/ Crash(w) \/ SubmitKilled(w)
          \/ \E line \in Lines : BeginPass(w, line)
          \/ \E id \in OrderIds : PassExpire(w, id) \/ Cancel(w, id)
          \/ \E id \in OrderIds, inst \in Instruments, side \in {"buy", "sell"},
                limit \in Limits \cup {Market} : Create(w, id, inst, side, limit)
          \/ \E quote \in Prices, admitted \in BOOLEAN :
                \/ SubmitCreated(w, quote, admitted)
                \/ \E id \in OrderIds : PassSubmit(w, id, quote, admitted)
  BY DEF Next
<1>2. now' = now
  BY <1>1 DEF RolloverRead, RolloverWrite, Crash, SubmitKilled, CrashInSubmit, BeginPass,
     PassExpire, Cancel, Create, SubmitCreated, PassSubmit
<1>3. ASSUME \A v \in Workers : Forgets(v) PROVE \A v \in Workers : Remembers(v)
  BY <1>3 DEF Remembers
<1>4. ASSUME NEW thought, mem' = [mem EXCEPT ![w] = thought],
             mem'[w] = thought => Remembers(w)
      PROVE  \A v \in Workers : Remembers(v)
  BY <1>4 DEF Remembers, Forgets, TypeOK
<1>5. CASE RolloverRead(w)
  <2>1. mem' = [mem EXCEPT ![w] = [job |-> "rollover", day |-> Day(now)]]
    BY <1>5 DEF RolloverRead
  <2>2. mem'[w] = [job |-> "rollover", day |-> Day(now)] BY <2>1 DEF TypeOK
  <2>3. mem'[w].job = "rollover" /\ mem'[w].day = Day(now) BY <2>2
  <2>4. Remembers(w) BY <1>5, <2>3 DEF Remembers
  <2> QED BY <1>2, <1>4, <2>1, <2>4
<1>6. CASE RolloverWrite(w) \/ Crash(w) \/ SubmitKilled(w)
            \/ \E quote \in Prices, admitted \in BOOLEAN : SubmitCreated(w, quote, admitted)
  <2>1. mem' = [mem EXCEPT ![w] = Idle]
    BY <1>6 DEF RolloverWrite, Crash, SubmitKilled, CrashInSubmit, SubmitCreated
  <2> QED BY <1>2, <1>3, <2>1, BecomesIdle
<1>7. ASSUME NEW line \in Lines, BeginPass(w, line)
      PROVE  now' = now /\ \A v \in Workers : Remembers(v)
  <2> DEFINE todo == {id \in OrderIds : /\ orders[id].status \in Retryable
                                        /\ Line(orders[id].inst) = line}
             thought == [job |-> "pass", at |-> now,
                         seen |-> [id \in todo |-> orders[id].submitted]]
  <2>1. mem' = [mem EXCEPT ![w] = thought] BY <1>7 DEF BeginPass
  <2>2. thought.job = "pass" /\ thought.at = now OBVIOUS
  <2> HIDE DEF thought
  <2>3. mem'[w] = thought => Remembers(w) BY <2>2 DEF Remembers, Passing
  <2> QED BY <1>2, <1>4, <2>1, <2>3
<1>8. ASSUME NEW id \in OrderIds,
             \/ PassExpire(w, id) \/ Cancel(w, id)
             \/ \E quote \in Prices, admitted \in BOOLEAN : PassSubmit(w, id, quote, admitted)
      PROVE  now' = now /\ \A v \in Workers : Remembers(v)
  <2>1. \A v \in Workers : Forgets(v)
    BY <1>8, PassOverForgets DEF PassExpire, PassSubmit, Cancel, Forgets
  <2> QED BY <1>2, <1>3, <2>1
<1>9. ASSUME NEW id \in OrderIds, NEW inst \in Instruments, NEW side \in {"buy", "sell"},
             NEW limit \in Limits \cup {Market}, Create(w, id, inst, side, limit)
      PROVE  now' = now /\ \A v \in Workers : Remembers(v)
  <2>1. mem' = [mem EXCEPT ![w] = [job |-> "order", id |-> id]] BY <1>9 DEF Create
  <2>2. mem'[w] = [job |-> "order", id |-> id] => Remembers(w) BY DEF Remembers, Ordered
  <2> QED BY <1>2, <1>4, <2>1, <2>2
<1> QED BY <1>1, <1>5, <1>6, <1>7, <1>8, <1>9

\* The counters that a submission works with are those of the day.
LEMMA CountersOfToday ==
    ASSUME TypeOK, DaysCounted, NEW t \in 0..MaxTime, Day(t) = Day(now)
    PROVE  /\ CountersAt(t).day = Day(now)
           /\ EntriesToday(CountersAt(t)) = entriesOn[Day(now)]
           /\ \A d \in 0..Day(MaxTime) : d > Day(now) => entriesOn[d] = 0
<1>1. Day(now) \in 0..Day(MaxTime) /\ Day(MaxTime) \in Nat
  <2>1. now \in 0..MaxTime /\ MaxTime \in 0..MaxTime BY ClockAssumption DEF TypeOK
  <2> QED BY <2>1, DayType
<1>2. counters.day \in Nat BY DEF TypeOK
<1>3. CASE counters.day = Day(now) BY <1>3 DEF DaysCounted, CountersAt
<1>4. CASE counters.day # Day(now)
  <2>1. counters.day < Day(now) BY <1>1, <1>2, <1>4 DEF DaysCounted
  <2>2. CountersAt(t) = EmptyCounters(Day(now)) BY <1>4 DEF CountersAt
  <2>3. EntriesToday(EmptyCounters(Day(now))) = 0
    BY DEF EntriesToday, EmptyCounters, Lines
  <2>4. EmptyCounters(Day(now)).day = Day(now) BY DEF EmptyCounters
  <2>5. \A d \in 0..Day(MaxTime) : d > Day(now) => d > counters.day BY <1>1, <1>2, <2>1
  <2> QED BY <1>1, <2>1, <2>2, <2>3, <2>4, <2>5 DEF DaysCounted
<1> QED BY <1>3, <1>4

\* A step that fills nothing leaves counters that tell the entries of a day.
LEMMA QuietCounters ==
    ASSUME TypeOK, DaysCounted, FillsNothing
    PROVE  /\ counters'.day <= Day(now)
           /\ EntriesToday(counters') = entriesOn[counters'.day]
           /\ \A d \in 0..Day(MaxTime) : d > counters'.day => entriesOn[d] = 0
<1>1. CASE counters' = counters BY <1>1 DEF DaysCounted
<1>2. Day(now) \in Int
  <2>1. now \in 0..MaxTime BY DEF TypeOK
  <2> QED BY <2>1, DayType
<1>3. ASSUME NEW w \in Workers, NEW t \in 0..MaxTime, SubmitsAt(w, t),
             counters' = CountersAt(t)
      PROVE  /\ counters'.day <= Day(now)
             /\ EntriesToday(counters') = entriesOn[counters'.day]
             /\ \A d \in 0..Day(MaxTime) : d > counters'.day => entriesOn[d] = 0
  <2>1. Day(t) = Day(now) BY <1>3 DEF SubmitsAt, DaysCounted
  <2> QED BY <1>2, <1>3, <2>1, CountersOfToday
<1>4. ASSUME NEW w \in Workers, RolloverWrite(w)
      PROVE  /\ counters'.day <= Day(now)
             /\ EntriesToday(counters') = entriesOn[counters'.day]
             /\ \A d \in 0..Day(MaxTime) : d > counters'.day => entriesOn[d] = 0
  <2>1. Rolling(w) /\ counters' = EmptyCounters(mem[w].day)
    BY <1>4 DEF RolloverWrite, Rolling
  <2>2. counters' = EmptyCounters(Day(now)) /\ entriesOn[Day(now)] = 0
    BY <2>1 DEF DaysCounted
  <2>3. EntriesToday(EmptyCounters(Day(now))) = 0
    BY DEF EntriesToday, EmptyCounters, Lines
  <2>4. EmptyCounters(Day(now)).day = Day(now) BY DEF EmptyCounters
  <2>5. now \in 0..MaxTime /\ Day(now) = Day(now) BY DEF TypeOK
  <2>6. \A d \in 0..Day(MaxTime) : d > Day(now) => entriesOn[d] = 0
    BY <2>5, CountersOfToday
  <2> QED BY <1>2, <2>2, <2>3, <2>4, <2>6
<1> QED BY <1>1, <1>3, <1>4 DEF FillsNothing

\* A fill counts once in the counters and once on its day, under the limit.
LEMMA FilledCounters ==
    ASSUME TypeOK, DaysCounted, NEW w \in Workers, NEW id \in OrderIds,
           NEW quote \in Prices, NEW t \in 0..MaxTime, Fills(w, id, quote, t)
    PROVE  /\ counters'.day = Day(now)
           /\ EntriesToday(counters') = entriesOn'[Day(now)]
           /\ \A d \in 0..Day(MaxTime) : d > Day(now) => entriesOn'[d] = 0
           /\ DailyEntryLimit'
<1> DEFINE c == CountersAt(t)
           line == Line(orders[id].inst)
           today == Day(now)
           pnl == Profit(orders[id].inst, FillPrice(orders[id].side, quote))
<1>1. Day(t) = today BY DEF Fills, SubmitsAt, DaysCounted
<1>2. /\ c.day = today /\ EntriesToday(c) = entriesOn[today]
      /\ \A d \in 0..Day(MaxTime) : d > today => entriesOn[d] = 0
  BY <1>1, CountersOfToday
<1>3. c \in [day : 0..Day(MaxTime), entries : [Lines -> Nat], pnl : Int]
  BY CountersType
<1>4. today \in 0..Day(MaxTime)
  <2>1. now \in 0..MaxTime BY DEF TypeOK
  <2> QED BY <2>1, DayType
<1>5. line \in Lines BY OrderType, LineType DEF Fills
<1>6. entriesOn \in [0..Day(MaxTime) -> Nat] BY DEF TypeOK
<1>7. \A d \in 0..Day(MaxTime) : entriesOn[d] <= MaxDailyEntries
  BY <1>6 DEF DaysCounted, DailyEntryLimit
<1>8. CASE orders[id].side = "buy"
  <2>1. EntriesToday(c) < MaxDailyEntries
    BY <1>8, Zenon DEF Fills, Allowed, EntryAllowed
  <2>2. /\ counters' = [c EXCEPT !.entries[line] = @ + 1]
        /\ entriesOn' = [entriesOn EXCEPT ![today] = @ + 1]
    BY <1>1, <1>8 DEF Fills, Fill
  <2> HIDE DEF c, line, today
  <2>3. entriesOn'[today] = entriesOn[today] + 1 /\ DOMAIN entriesOn' = 0..Day(MaxTime)
        /\ \A d \in 0..Day(MaxTime) : d # today => entriesOn'[d] = entriesOn[d]
    BY <1>4, <1>6, <2>2
  <2>4. counters' = [c EXCEPT !.entries = [c.entries EXCEPT ![line] = @ + 1]]
    BY <1>3, <2>2
  <2> DEFINE e == [c.entries EXCEPT ![line] = @ + 1]
  <2>5. c.entries \in [Lines -> Nat] BY <1>3
  <2>6. e["equity"] + e["options"] = c.entries["equity"] + c.entries["options"] + 1
    BY <1>5, <2>5 DEF Lines
  <2> HIDE DEF e
  <2>7. counters'.day = c.day /\ counters'.entries = e BY <1>3, <2>4 DEF e
  <2>8. EntriesToday(counters') = EntriesToday(c) + 1
    BY <2>6, <2>7 DEF EntriesToday
  <2>9. entriesOn'[today] <= MaxDailyEntries
    <3>1. entriesOn[today] \in Nat /\ entriesOn[today] < MaxDailyEntries
      BY <1>2, <1>4, <1>6, <2>1
    <3>2. MaxDailyEntries \in Nat BY AmountsAssumption
    <3> QED BY <2>3, <3>1, <3>2
  <2>10. \A d \in 0..Day(MaxTime) : entriesOn'[d] <= MaxDailyEntries
    BY <1>7, <2>3, <2>9
  <2>11. \A d \in 0..Day(MaxTime) : d > today => entriesOn'[d] = 0
    BY <1>2, <1>4, <2>3
  <2>12. counters'.day = today /\ EntriesToday(counters') = entriesOn'[today]
    BY <1>2, <2>3, <2>7, <2>8
  <2>13. DailyEntryLimit' BY <2>3, <2>10 DEF DailyEntryLimit
  <2> QED BY <2>11, <2>12, <2>13 DEF today
<1>9. CASE orders[id].side # "buy"
  <2>1. counters' = [c EXCEPT !.pnl = @ + pnl] /\ entriesOn' = entriesOn
    BY <1>9 DEF Fills, Fill
  <2> HIDE DEF c, pnl, today
  <2>2. counters'.day = c.day /\ counters'.entries = c.entries BY <1>3, <2>1
  <2>3. EntriesToday(counters') = EntriesToday(c) BY <2>2 DEF EntriesToday
  <2>4. DailyEntryLimit' BY <2>1 DEF DaysCounted, DailyEntryLimit
  <2> QED BY <1>2, <2>1, <2>2, <2>3, <2>4 DEF today
<1> QED BY <1>8, <1>9

LEMMA DaysCountedStep ==
    OrdersKnown /\ DaysCounted /\ NoEntryInRollover /\ [Next]_vars => DaysCounted'
<1> SUFFICES ASSUME OrdersKnown, DaysCounted, NoEntryInRollover, [Next]_vars
             PROVE  DaysCounted'
    OBVIOUS
<1>0. TypeOK BY DEF OrdersKnown
<1>1. now \in 0..MaxTime /\ Day(now) \in 0..Day(MaxTime) BY <1>0, DayType DEF TypeOK
<1>2. CASE UNCHANGED vars
  BY <1>2 DEF vars, history, DaysCounted, Day, Passing, Rolling, DailyEntryLimit
<1>3. CASE Tick
  <2>1. /\ UNCHANGED <<counters, mem, entriesOn>> /\ now' = now + 1
        /\ Day(now + 1) # Day(now) => \A w \in Workers : mem[w] = Idle
    BY <1>3 DEF Tick, history
  <2>2. now + 1 \in 0..MaxTime BY <1>1, <1>3, ClockAssumption DEF Tick
  <2>3. Day(now) \in 0..Day(now + 1) BY <1>1, DivMonotone, ClockAssumption DEF Day
  <2>4. Day(now)' = Day(now + 1) BY <2>1 DEF Day
  <2>5. counters.day \in Nat /\ Day(now + 1) \in Nat
    BY <1>0, <2>2, DayType DEF TypeOK
  <2>6. counters.day <= Day(now)' BY <1>1, <2>3, <2>4, <2>5 DEF DaysCounted
  <2>7. ASSUME NEW w \in Workers
        PROVE  /\ Passing(w)' => (Day(mem[w].at) = Day(now))'
               /\ Rolling(w)' => mem'[w].day = Day(now)' /\ entriesOn'[Day(now)'] = 0
    <3>1. CASE mem[w] = Idle BY <2>1, <3>1 DEF Passing, Rolling, Idle
    <3>2. CASE mem[w] # Idle
      <4>1. Day(now + 1) = Day(now) BY <2>1, <3>2
      <4>2. Day(mem[w].at)' = Day(mem[w].at) BY <2>1 DEF Day
      <4> QED BY <2>1, <2>4, <4>1, <4>2 DEF DaysCounted, Passing, Rolling
    <3> QED BY <3>1, <3>2
  <2>8. DailyEntryLimit' BY <2>1 DEF DaysCounted, DailyEntryLimit
  <2> QED BY <2>1, <2>6, <2>7, <2>8 DEF DaysCounted
<1>4. CASE now' = now /\ \A w \in Workers : Remembers(w)
  <2>1. Day(now)' = Day(now) BY <1>4 DEF Day
  <2>2. ASSUME NEW w \in Workers, Passing(w)' PROVE Day(mem'[w].at) = Day(now)
    BY <1>4, <2>2 DEF Remembers, Forgets, Passing, Ordered, Idle, DaysCounted
  <2>3. ASSUME NEW w \in Workers, Rolling(w)'
        PROVE  \/ Rolling(w) /\ mem'[w].day = Day(now) /\ entriesOn[Day(now)] = 0
               \/ /\ RolloverRead(w) /\ mem'[w].day = Day(now)
                  /\ entriesOn' = entriesOn /\ entriesOn[Day(now)] = 0
    <3>1. CASE RolloverRead(w) /\ mem'[w].day = Day(now)
      <4>1. counters.day # Day(now) /\ entriesOn' = entriesOn
        BY <3>1 DEF RolloverRead, history
      <4>2. counters.day < Day(now) BY <1>0, <1>1, <4>1 DEF DaysCounted, TypeOK
      <4> QED BY <1>1, <3>1, <4>1, <4>2 DEF DaysCounted
    <3>2. CASE ~(RolloverRead(w) /\ mem'[w].day = Day(now))
      <4>1. mem'[w] = mem[w]
        BY <1>4, <2>3, <3>2 DEF Remembers, Forgets, Passing, Ordered, Rolling, Idle
      <4> QED BY <2>3, <4>1 DEF Rolling, DaysCounted
    <3> QED BY <3>1, <3>2
  <2>4. CASE FillsNothing
    <3>1. entriesOn' = entriesOn BY <2>4 DEF FillsNothing
    <3>2. /\ counters'.day <= Day(now)
          /\ EntriesToday(counters') = entriesOn[counters'.day]
          /\ \A d \in 0..Day(MaxTime) : d > counters'.day => entriesOn[d] = 0
      BY <1>0, <2>4, QuietCounters
    <3>3. DailyEntryLimit' BY <3>1 DEF DaysCounted, DailyEntryLimit
    <3>4. \A w \in Workers : Passing(w)' => (Day(mem[w].at) = Day(now))'
      BY <2>1, <2>2 DEF Day
    <3>5. EntriesToday(counters)' = entriesOn'[counters'.day]
      BY <3>1, <3>2 DEF EntriesToday
    <3> QED BY <2>1, <2>3, <3>1, <3>2, <3>3, <3>4, <3>5 DEF DaysCounted
  <2>5. ASSUME NEW v \in Workers, NEW id \in OrderIds, NEW quote \in Prices,
               NEW t \in 0..MaxTime, Fills(v, id, quote, t)
        PROVE  DaysCounted'
    <3>1. /\ counters'.day = Day(now)
          /\ EntriesToday(counters') = entriesOn'[Day(now)]
          /\ \A d \in 0..Day(MaxTime) : d > Day(now) => entriesOn'[d] = 0
          /\ DailyEntryLimit'
      BY <1>0, <2>5, FilledCounters
    <3>2. Ordered(v) \/ Passing(v) BY <2>5 DEF Fills, SubmitsAt
    <3>3. \A w \in Workers : ~Rolling(w) BY <3>2 DEF NoEntryInRollover
    <3>4. \A w \in Workers : Passing(w)' => (Day(mem[w].at) = Day(now))'
      BY <2>1, <2>2 DEF Day
    <3>5. \A w \in Workers : Rolling(w)' => mem'[w].day = Day(now) /\ entriesOn'[Day(now)] = 0
      BY <2>3, <3>3
    <3>6. EntriesToday(counters)' = entriesOn'[counters'.day]
      BY <3>1 DEF EntriesToday
    <3>7. counters'.day <= Day(now) BY <1>1, <3>1
    <3> QED BY <2>1, <3>1, <3>4, <3>5, <3>6, <3>7 DEF DaysCounted
  <2> QED BY <2>4, <2>5, AccountStep DEF FillsAtMostOne
<1> QED BY <1>2, <1>3, <1>4, MemoryStep

\* No day sees more entries of both lines than allowed, as long as nobody
\* submits while a rollover of the counters is pending: the rollover that is
\* written without the fill lock is the only way past the limit.
THEOREM DailyEntryLimitHolds == Spec /\ []NoEntryInRollover => []DailyEntryLimit
<1>1. Init => DaysCounted
  <2> SUFFICES ASSUME Init PROVE DaysCounted OBVIOUS
  <2>0. Day(MaxTime) \in 0..Day(MaxTime)
    <3>1. MaxTime \in 0..MaxTime BY ClockAssumption
    <3> QED BY <3>1, DayType
  <2>1. Day(0) \in 0..Day(MaxTime)
    <3>1. 0 \in 0..MaxTime BY ClockAssumption
    <3> QED BY <3>1, DayType
  <2>2. counters.day = 0 /\ EntriesToday(counters) = 0
    BY DEF Init, EmptyCounters, EntriesToday, Lines
  <2>3. \A d \in 0..Day(MaxTime) : entriesOn[d] = 0 BY DEF Init
  <2>4. 0 \in 0..Day(MaxTime) BY <2>0
  <2>5. DailyEntryLimit BY <2>3, AmountsAssumption DEF Init, DailyEntryLimit
  <2>6. \A w \in Workers : ~Passing(w) /\ ~Rolling(w) BY DEF Init, Passing, Rolling, Idle
  <2>7. now = 0 BY DEF Init
  <2> QED BY <2>1, <2>2, <2>3, <2>4, <2>5, <2>6, <2>7 DEF DaysCounted
<1>2. OrdersKnown /\ DaysCounted /\ NoEntryInRollover /\ [Next]_vars => DaysCounted'
  BY DaysCountedStep
<1>3. DaysCounted => DailyEntryLimit BY DEF DaysCounted
<1> QED BY <1>1, <1>2, <1>3, OrdersKnownHolds, PTL DEF Spec

\* So it is with one worker at a time on the account, which is what the job
\* runner provides.
THEOREM DailyEntryLimitOfOneWorker ==
    ASSUME \A v, w \in Workers : v = w
    PROVE  Spec => []DailyEntryLimit
<1>1. NoEntryInRollover BY DEF NoEntryInRollover, Rolling, Ordered, Passing
<1> QED BY <1>1, DailyEntryLimitHolds, PTL

=============================================================================
