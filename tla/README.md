# Verification of the paper-trading runtime

TLA+ modules, TLC instances and TLAPS proofs for the parts of this repository
that must be right when several processes, crashes, retries and stale readings
meet: the supervised service and its jobs, the file locks, the write-ahead log
of fills, the two paper brokers over one account, and the pipelines that decide
what is bought, held and sold. Paths are relative to the root of the sources;
`PROJECT.json` maps every definition to the lines it models.

## 1. The system

A long-lived *service* (`scripts/orchestrator/forward_paper_service.py`,
`serve`) fires jobs on scheduler threads. Each job is a *worker*: a child
process that runs one cycle (forward cycle, catalyst, AI gated, allocator
stage, monitors, EOD guard, news drift, evaluation) and exits. Workers share
nothing in memory; they meet in JSON files under `state/`, JSONL files under
`logs/`, one SQLite file, and the lock files beside them.

| component | state it keeps | operations | meets others through | hard behaviour |
|---|---|---|---|---|
| process lock, file lock (`runtime/process_lock.py`, `core/file_lock.py`) | lock file with a pid, open descriptor | `acquire`, `_remove_stale_lock`, `release` | the file system; used by everything below | dead owners, reused pids, POSIX and Windows unlink |
| fill transactions (`simulation/fill_transaction.py`) | `paper_fill_transactions.json` | `recover_locked`, `commit_locked`, `_apply` | fill lock; writes the files of brokers and journal | death or exception between two writes |
| state store (`core/state.py`, `options/state.py`) | account, positions, orders, counters | `write_json`, `daily_counters`, ... | one file each, replaced atomically | a rollover outside the fill lock |
| paper brokers (`simulation/`, `options/paper_broker.py`) | orders, through the store | `create_order`, `submit_order`, `process_open_orders`, `cancel_order` | fill lock, one cash balance | orders read before the lock and used after it |
| risk gates (`risk/`, `options/risk_gate.py`) | none | `check_order`, `check_option_order`, `check_shared_entry` | the files of both lines | caps counted over two brokers |
| trade lifecycle (`journal/`) | open and closed trades | `prepare_*`, `transaction_writes`, `mark_*_quotes` | prepared in a fill | marks outside the lock |
| job runner (`runtime/subprocess_runner.py`) | `_active` | `run`, `terminate_all` | scheduler threads, workers | workers that hang or outlive the table |
| service (`orchestrator/forward_paper_service.py`) | main account, service lock | `serve`, `run_once`, `run_eod_guard` | runner, brokers | skipped triggers, a clock read once per job |
| allocator (`discovery/ai_instrument_allocator_pipeline.py`, `strategies/allocator_state.py`, `decision/instrument_allocator.py`) | plans, allocations, its account | stages overnight, pre-open, intraday; monitor; recovery | own brokers, mandates | a plan, an order, a mandate, a position in four files |
| mandates (`exit/position_mandates.py`) | one mandate per exposure | `register_order`, `open`, `close` | allocator | closed after the sale, in a second write |
| AI gated and catalyst pipelines, evidence store (`discovery/`) | cooldown file, signals | cycles, monitor, marks | brokers, the file | read, modify and write without a lock |
| news drift (`news_drift/`) | SQLite ledger | search, classify, screen, label | evidence store | commits with kills between them, retries, late labels |
| brokerage connection (`broker/robinhood_mcp_audit.py`) | encrypted tokens, cooldown | read-only operations, refresh | refresh lock; every worker | rotating refresh tokens and races for them |
| teams and providers (`agents/`, `llm/`) | usage log | `analyze`, `generate` | pipelines | retries, vetoes, answers of any content |
| outcome labels (`evaluation/outcome_labeler.py`, `strategies/technical_scoring.py`) | pending outcomes, weights | `register`, `resolve`, `observe` | forward cycle | two files written one after the other |
| adapters, scoring, replay, dashboard, heartbeat | caches, reports | network, numeric and reporting work | inputs and outputs of the above | section 6 |

`hazards` of `PROJECT.json` lists what can go wrong at its line, with the
properties about it.

What makes each component correct:

* lock: at most one holder; the holder owns the file; the lock of a dead process comes free;
* fill log: a fill is in all of its files or in none, once in each log, never lost, and nothing is decided on half of one;
* brokers: one exposure per underlying, caps and daily limits over both lines, books that balance, terminal orders final, no fill after expiry;
* runner and day: no two supervised workers on one account, every call returns, flat accounts at the close, no entry beside an overnight position;
* allocator: a plan is executed at most once, one active plan per ticker, no order that a crash left behind is forgotten, what is due is sold, caps hold with what rests;
* AI gated: no re-entry after a stop, no evidence traded twice, no mark lost; choice of candidates that keeps its reservations;
* news drift: one signal, proposal and label each; a kill loses what it interrupts at most; due labels resolved;
* connection: no token lost but by a kill, no false block; teams: usage on record, entries supported by evidence; labels: learned once.

## 2. Modules

| module | models | kind |
|---|---|---|
| `ProcessLock`, `RuntimeProofs` | `ProcessLock`, `InterProcessFileLock`: one action per system call | state machine, proofs |
| `AtomicFill` | what the log promises: fills that happen in one step | abstract specification |
| `FillWal`, `FillWalProofs` | `PaperFillTransactionCoordinator` under a broker, one action per file write | state machine, refines `AtomicFill`; proofs |
| `PaperBroker`, `PaperBrokerProofs` | the two brokers, their gates and fill models over one account | state machine, proofs |
| `JobRunner`, `RuntimeProofs` | `serve` and `SubprocessJobRunner` | state machine, proofs |
| `EndOfDay`, `EndOfDayProofs` | `run_once`, `run_eod_guard` and the jobs around the close, over three accounts | state machine, proofs |
| `AllocatorPlan`, `AllocatorPlanProofs` | plans, entry orders, mandates, exits and recovery of the allocator | state machine, proofs |
| `InstrumentAllocation`, `ResearchProofs` | sizing and choice between shares and an option, deployed capital | state machine over arithmetic, proofs |
| `AiGated`, `AiGatedProofs` | AI gated cycle, its monitor, catalyst discovery, the cooldown file | state machine, proofs |
| `CandidateSelection`, `ResearchProofs` | screening, reservations, merge, ranking, deep research | algorithm in steps, proofs |
| `InvestmentTeams`, `ResearchProofs` | `ApiProvider.generate` and the four teams | state machine, proofs |
| `NewsDrift`, `NewsDriftProofs` | the news drift cycle and its ledger | state machine, proofs |
| `TokenRefresh`, `ResearchProofs` | tokens, refresh lock, reconnect cooldown | state machine, proofs |
| `OutcomeLearning`, `ResearchProofs` | pending outcomes and learned weights | state machine, proofs |
| `MCProcessLock`, `MCFillWal`, `MCPaperBroker`, `MCJobRunner`, `MCAllocatorPlan`, `MCNewsDrift` | constants of one module | instances |
| `MCRuntime`, `MCAccountDay`, `MCResearch` | constants of several modules | instances in parts |

The modules stack by atomicity. `ProcessLock` shows that the critical sections
guarded by a lock file exclude each other; `FillWal` takes that as one variable,
the fill lock, and shows that what a broker does inside is atomic; `PaperBroker`
takes it as one action, and keeps as separate actions only what the code does
outside the lock. `EndOfDay`, `AllocatorPlan` and `AiGated` take an order of
`PaperBroker` as its outcome, and keep as separate actions the writes of
different files and the places where a worker may die. `JobRunner` says which
workers may be at work together: that a job of the sleeve is alone in
`AllocatorPlan` and `NewsDrift`, and which resources exclude each other in
`EndOfDay` and `AiGated`, rests on it.

`MCRuntime`, `MCAccountDay` and `MCResearch` put modules that share no state
next to each other. The variable `part` is chosen at the start and says which
of them moves; the others keep their initial state. A behaviour of such an
instance is a behaviour of one part, so every property of a part is checked on
all of its behaviours and no product is formed. The parts do not interact; what
one of them relies on is named above. The parts are extended, so that the run and
the proof are about one definition: that is why most have an initial state and a
next step named after them (`RunnerInit`, `DayInit`, `GatedInit`, `TokenInit`,
`TeamInit`, `ChoiceInit`, `SizingInit`, `LabelInit`).

### ProcessLock

A lock file is its creator and whether its pid is written; `path` is the file
now at the path. Who has it open follows from `pc`, the system call each process
has reached. `Acquire` is `CreateExclusive` (`os.open(O_CREAT | O_EXCL)`), then
`WritePid`, or on a collision `ReadOwner`, `CheckOwner`, `UnlinkStale`, at most
twice, and again while the caller of the file lock waits. `Release` closes, then
unlinks. Between any two steps a process may die, and its pid may go to a newly
started one. The constant `UnlinkWhileOpen` chooses POSIX (TRUE) or Windows
(FALSE): the repository is run on both, and the difference decides the result.

### FillWal and AtomicFill

A fill has a state write per file and a line per log. A worker takes the fill
lock, replays what is prepared (`recover_locked`), reads the state, saves the
order, takes the snapshot, writes the record as prepared, writes file after
file, log after log, marks the record as committed, releases. `Crash` and
`Raise` may happen between any two of them; `Restart` lets another worker take
the lock of the dead. File contents are abstracted to the set of fills that
they include, which is what the properties ask. `AtomicFill` has one action, the
fill; the refinement maps a fill to done when its record is prepared, the point
from which it can only go forward.

### PaperBroker

One action per broker operation under the fill lock (`Create`, `SubmitCreated`,
`PassSubmit`, `PassExpire`, `Cancel`), plus what happens outside it: the list
that `process_open_orders` reads first (`BeginPass`, kept in `mem`), the
rollover of the counters by a pipeline (`RolloverRead`, `RolloverWrite`), and
deaths of workers (`Crash`, `SubmitKilled`). `Submit` is the whole of
`_submit_order_locked` of both brokers: gate, simulated fill, account, positions
and counters. Abstractions, by name: prices and cash are integers, a position is
one lot (adding to one is blocked by the gate, exits sell it whole; no fill of
the code is partial), bid and ask coincide, NAV is at cost, and quote, session,
universe and stop rules are the nondeterministic `admitted`.

### JobRunner and EndOfDay

In `JobRunner` a thread of the scheduler is `call[s][t]`, the place it has
reached in `run`: called, waiting in `communicate`, overdue, draining. `active`
is the runner's table, `workers` the children alive, `strays` those that no
table knows any more. `Start` is one step because `Popen` and the entry in the
table share the guard. `RequestShutdown` is the signal handler, `TerminateAgain`
and `ReleaseLock` the `finally` clause, `Exit` the join of the threads.
`SupervisedExclusive` speaks of the workers some service waits for;
`AccountExclusive`, of all that are alive.

`EndOfDay` counts the time `left` until the close. Each job reads the clock once
(`run[j].at`) and acts on that reading until it ends. The forward cycle retries
orders, looks at exits and enters; the guard cancels what rests, then flattens
the main account and the AI sleeve; overnight positions are sold by the next
session's cycles. `Skip` is a trigger that met a conflict. `marred` remembers
that a worker died or a quote was missing on this day, `guarded` that a guard had
the accounts in time, `stuck` an exit order that a death left created. The age of
an order that rests is counted up to `Oldest`, which an order of an earlier day has:
it is at least the life of an order and a deadline, so that no worker can take such
an order for a young one.

### AllocatorPlan and InstrumentAllocation

`AllocatorPlan` has one job at a time, as the resource `allocator_account`
demands, at a `step` of its own: recover, cancel, close, reconcile, retry, exit,
then research, refresh, update, pre-open or execute. Each step writes one of the
files for plans, orders, positions and mandates, and `Crash` may come between any
two. `Retire` and `SavePlan` are the two writes by which a new plan replaces an older
one; `CreateEntry`, `RegisterMandate`, `Submit` and `MarkPlan` the four that
execute one. The clock has an evening, a pre-open, a regular session and a
pre-close window. Watches and decision records, which only reports read, and the
staged cooldown, written last, are left out.

`InstrumentAllocation` is the arithmetic of `_account_state`, `_equity_candidate`,
`_option_candidate` and the forecast summary in integers, with prices that move
and orders that rest between two allocations. The forecast is seen from the
direction of the larger mass; what an option would be worth in its conservative
scenario is an input. Implied moves and counterfactual records are left out.

### AiGated, CandidateSelection, InvestmentTeams

`AiGated` has the cycles as workers with a `step` and the file they have read
(`cycle[j].file`), so that a write may overwrite another's; `Start` respects the
resources of `serve`. A sale is one step, an entry two (`CreateEntry`,
`SubmitEntry`).
`CandidateSelection` runs a line once, from seeds through `Selection` or `Merged`
to `Rank`, where anything may stand in the model's answer, to `Deep`. A sorted list
is defined by the rank of each element (`Descending`), a loop that adds to the
selection by its state after each element (`FillPlaces`).
`InvestmentTeams` follows one team through its calls, each an attempt loop with
`RetryCall`, `GiveUp`, `Escape` and `Answered`, and the allocator's plan through the
stages that update and revalidate it.

### NewsDrift, TokenRefresh, OutcomeLearning

In `NewsDrift` each commit of the SQLite store and each write of the cooldown
file is an action: `RecordLabel`, `Observe`, `Propose`, `ClaimSearch`,
`IngestNew`, `RecordSignal`, `MarkSent`, with `Kill` between any two; an event is
a story and a ticker the model saw in it. `TokenRefresh` has two workers, each at
its place in an operation with one controlled refresh; the OAuth library, which
keeps the tokens of its session, and the server, which rotates the refresh token,
are external and modelled from how they are used. `OutcomeLearning` counts how
often each observation enters the weights.

### What the models switch on

The shipped profiles freeze new entries in three lines (the weighted strategy is
`shadow_only`; options v2 and AI gated have `new_entries_enabled: false`). The
models turn them on, since the code does when the profile says so, and since the
exits of what is held matter in either case. The shipped label horizon is 360
minutes with a sample each 60 and a delay of 15, the selection takes six to eight
places with two for reports and two per direction; the instances keep the order of
these numbers, not their size. `InstrumentAllocation` has the equity hurdle at
zero, which is the default of the code (the profile's 0.0025 only removes entries).

## 3. Runs

| run | bounds | shows |
|---|---|---|
| `runtime` | lock: 3 processes, 2 crashes, reused pids, symmetric. Runner: 1 service that may die, 4 triggers, 3 jobs, kills that may fail. Fair | mutual exclusion, the holder owns the file, a dead owner's lock comes free; no two supervised workers on one account, every call returns |
| `lock_posix` | 3 processes, 1 crash, `UnlinkWhileOpen` | *violation*: a live lock is removed |
| `wal` | 2 workers, 3 orders (equity buy, its sell, option buy), 3 faults, fair | safety of the log, the refinement; a prepared fill is completed |
| `research` | brokers: 2 workers, 2 orders, 3 instruments on 2 underlyings, clock 0..2. Tokens: 2 workers, 5 pairs, 1 early rejection. Team: 3 analyses, 1 retry. Choice: 4 tickers, 3 places. Sizing: 2 tickers, 2 prices, 2 allocations. Labels: 1 ticker, two sessions, 1 kill | exposure, books, expiry, finality, caps; tokens; usage, support; reservations; caps with what rests, no chase; learned once |
| `account_day` | brokers: 1 worker, 3 orders, two days, limits of 1. Close: 5 jobs, 4 units before it, 1 fault. Sleeve: 1 ticker, 1 event that may come again, 7 instants, 1 kill | limits over both lines; flat at the close, no entry in recovery; evidence, stops, marks |
| `broker_expiry` | 1 worker, 2 orders, clock 0..2 | *violation*: equity order filled after its expiry |
| `broker_rollover` | 2 workers, two days of 1 | *violation*: the rollover forgets an entry |
| `runner_restart` | 2 services, graceful stop | *violation*: a late worker and the next service share an account |
| `allocator` | 1 ticker with shares and an option, 2 plans, 2 orders, evening to pre-close, 1 crash, fair | one entry per plan, one active plan per ticker, no forgotten entry, due positions sold |
| `allocator_conflict` | as `allocator` | *violation*: a live entry loses its mandate |
| `allocator_stranded` | 1 plan, 1 order, 1 crash, fair | *violation*: a position is held past its maximum for ever |
| `news` | 2 stories, 2 events of one of them, 1 horizon, limit 1, clock 0..3, 1 kill, fair | idempotent ledger, bounded loss, labels resolved, early signals rechecked |

Why the bounds are enough. The lock needs three processes for the race of
a remover with a remover and a creator; a file is known by its creator, which
owns at most one at a time. The log needs one fill in progress by a worker that
dies and another by its successor, with orders of both lines, because they write
different files in different order; the third order makes a commit follow a
recovery. Two orders are all that a pair property of the brokers can relate,
and two workers all that an interleaving of theirs needs; the limits, which
count, have three orders and limits of one. The runner has each shape
of conflict that `serve` configures. The close has one job for each
combination of resources, long enough to run from before the window into it. The
sleeve's event may return after its cooldown on the same day, and the two cycles
that share the file can both be at work. The allocator's two plans are the older
and the newer that `Retire` and the mandates relate; with one crash each window
between two writes is hit once. The ledger of `news` has a limit that one signal
fills. Two workers and one token pair more than they can use in sequence make a
race for the refresh and a second operation after it. The choice has more
candidates than places, and fewer places than reservations would take if they
overlapped. The proofs remove the bounds where they exist.

Every counter is bounded by a named constant (`MaxCrashes`, `MaxFaults`,
`MaxKills`, `MaxPlans`, `MaxOrders`, `MaxTime`, `LastTime`, `MaxAllocations`,
`MaxAnalyses`), so a run comes to an end; `CHECK_DEADLOCK FALSE` stands where the
system then really stops, or where a service that is gone stays gone.

A property of a passing run has a seeded fault, an operator `Fault...` just
before the definition it replaces: a plausible slip of the code, under which
TLC finds the property violated.

### Reading some of the properties

- `FlatAtClose` asks for flat accounts on days on which no worker died and no quote was missing. Shares of both accounts are flat then, whoever was skipped; options need a guard that got the accounts in time, for only it looks at them after the cutoff.
- `LossBoundedByKills`: an event without a signal and a passed signal without a proposal are never taken up again; the property says that this is the price of a kill, one each, and of nothing else.
- `PremarketSignalRechecked` excepts a signal that later ones crowd out of the limited list; `references/llm_news_drift_policy.md` step 7 has no such exception.
- `DuePositionsAreSold` excepts an exit order stranded by a crash; `HardMaximumHolding` does not, and fails (`allocator_stranded`).
- `EvidenceTradedOnce` and `LearnedOnce` allow one repetition for each kill, which is what the order of the writes gives.
- `NoFalseBlock` is about the loser of a race for the refresh. Both workers can present the same refresh token, although README.md:165-166 has one of them wait; the loser then blocks the connection, but bound to the old access token, and the winner's gets through.
- `UsageRecorded` excepts an answer that fails its schema: `validate_schema` raises out of `generate` before any record, although `references/multi_agent_workflow.md:29` has each call recorded with its errors.

### Fairness

The lock part of `runtime` assumes that a process that is in `acquire` goes on and
that a waiter tries again: `InterProcessFileLock.acquire` polls until its deadline
and every job comes back at its next interval. The runner part assumes only that threads
and triggers go on: each wait in `run` has a timeout. It assumes nothing about
workers, which may hang. `wal` assumes that a worker at work goes on unless it
crashes, that crashes are finitely many (a bound), and that workers keep coming.
`allocator` assumes that the scheduler starts the monitor again and again, that a
job that is not killed goes on, that the clock advances, and, strongly, that a due
position looked at again and again finds a quote. `news` assumes the same of its
cycle, and strongly that a due label sooner or later meets a current quote and a
listed signal a market context: the adapters are asked each minute, and an outage
that never ends is excluded.

## 4. Proofs

Checked by TLAPS for every value of the constants that the named assumptions allow.

`RuntimeProofs`, the lock. The types, and `HolderOwnsFile`, which is the strengthening of
`MutualExclusion`: two holders would both own the one file at the path. It is
inductive together with the types, given `~UnlinkWhileOpen`: a file that its
holder has open cannot be unlinked, and only its creator writes or closes it.
With POSIX unlink the assumption fails and so does the property (`lock_posix`).

`RuntimeProofs`, the runner. `SupervisedExclusive` says of workers what the table of the
runner says of entries, so the invariant links them: the jobs in a table exclude
each other (`TableExclusive`), a worker that a runner knows of is in its table
however far the kill of it is (`WorkersListed`), and an entry has one thread
(`OneOwnerPerEntry`): to pop an entry never takes away that of another worker,
which is what the first two need. Assumes `ConstantsOK`: services may die and
kills may fail.

`FillWalProofs`. The inductive invariant `IInv` says where each worker stands,
that only the holder of the lock is inside, that at most one record is prepared
and it is that of the holder or of a worker that died or raised, and what each
file and log includes at each stage: a committed fill is in all of them, a
prepared one in those before the point its worker had reached. Without the last
part the replay cannot be shown to complete exactly the missing writes, and
`ExactlyOnce` is not inductive. From it follow `AtMostOnePrepared`,
`DecidesOnWholeFills`, `ExactlyOnce`, `NoLostFill` and the refinement.

`PaperBrokerProofs`. The inductive invariant is `OrdersKnown`: the types, and
what a worker may remember from outside the lock. An order in its hands exists,
is still created (or was cancelled by somebody else) and is in nobody else's
hands; the orders in the list of a pass have all been submitted once; an order
that may be retried carries a time. Without it a stale memory could name an
order that does not exist, and not even the types would be inductive. On it
rest the other properties:

- `TerminalOrdersFinal`: every step changes at most one order, a live one (`LiveOrderStep`).
- `OneExposurePerUnderlying`: a step shrinks the exposure, or lets one entry rest or become a position that the gate has compared with every position and every live entry of either line, created ones included (`ExposureMoves`). With that the property is inductive.
- `TotalPositionsBounded`: the same step lemma, and a count. The gate counts instruments, the property orders; they agree because resting entries are on different instruments (`OneExposurePerUnderlying`), so the first property is needed for the second. The sets of `FiniteAssumption` are needed here and for the sums below.
- `OptionsFillBeforeExpiry`: the submission time of an option order is that of its first submission wherever it is kept, in the order or in the list of a pass (`OptionClock`), so a pass that does not find the order expired fills it in time. It assumes `Expiry["options"] > 0`; with zero a new order would count as late when it fills at once.
- `BooksBalance`: a step fills nothing, or one order (`FillsAtMostOne`), and one fill moves the cash, the realized profit and the cost of one position. The cost of all of them is a sum over a finite set, which the library defines by folding. A step of that sum needs no induction (`TotalWith`): what is proved of the sum itself, its type, that it is monotone and that equal terms give equal sums, is proved on a smallest counterexample, whose existence is one theorem about finite sets without an operator parameter.
- `EntriesWithinCaps`: the capital that the gate counts before a fill is what is deployed after it, less the entry itself, and an order that fills was counted among the reservations at its limit. What the slippage adds to a share order is not in its reservation; the property excepts it, and the proof needs just that.
- `DailyEntryLimit`: the counter of a day covers its entries (`DaysCounted`), except while a rollover is between its read and its write. `DailyEntryLimitHolds` therefore assumes `[]NoEntryInRollover`, that nobody submits then. `broker_rollover` is the behaviour in which somebody does, so the assumption cannot be dropped; `DailyEntryLimitOfOneWorker` discharges it for workers that exclude each other.

`AllocatorPlanProofs`. A plan is entered once because the stage has only plans
ahead that are active and never had an order (`AheadIsFresh`); an order whose plan
is still active is at hand in the recovery or in the stage that created it
(`Settled`), and every job begins with the recovery. `OneActivePlanPerTicker`
needs more: of two active plans of a ticker the older one expired before the
younger was made (`DisjointPlans`), although the premarket update may extend a
plan; that holds because it has the youngest one of the ticker to refresh
(`RefreshIsNewest`) and because a plan is saved when the ticker has no valid one
left (`SaveIsAlone`). `NoForgottenEntry` is part of the invariant.

`AiGatedProofs`. The cooldown file has no lock, so `MarksAreKept` rests on the
resources that keep its two writers apart (`Apart`): between the read and the write
of a worker the file stays what it has read, and its marks are not newer than those
it writes (`JobIsCurrent`). `EvidenceTradedOnce` counts: an event that justified an
entry and is not marked yet is on its way to the file, or a kill has been spent on
it (`UnmarkedIsKilled`), and what the gated cycle took for fresh at its search is
still fresh when it enters (`GatedIsCurrent`). `NoReentryAfterStop` uses the same
two for the stops: no sale happens between the search and the entry, and an entry
that rests is younger than the last stop of its ticker (`EntriesAreSingle`).

`NewsDriftProofs`. `IdempotentLedger` is inductive once what the worker still has
to do is known to be undone (`TodoIsOpen`, `HandIsOpen`, `FreshIsOpen`): labels
without a record, signals without a proposal. `LossBoundedByKills` compares two
cardinalities with the kills; each commit moves at most one element from the hand of
the worker to the ledger, and `Kill` is the only step that lets it fall. It needs
that the events are finitely many, and that a signal and the mark on its event are
one commit (`SignalsAreMarked`).

`EndOfDayProofs`. `Basics` is about any day: workers that run together hold accounts
of their own (`Apart`), a worker's clock runs with that of the market (`Clocked`), it
has only steps of its program left (`Scoped`), and an order that rests beside a
position of an earlier day is itself of an earlier day, so that the next pass expires
it (`RestsExpire`). `NoEntryInRecovery` follows for any jobs, deadlines and deaths.
`FlatAtClose` needs in addition who still has to sell: as long as nothing went wrong,
each worker that started in the window before the close has the sale ahead of it or
behind it (`SellsBeforeClose`), likewise for positions of an earlier day
(`Recovers`), and when the last trigger of a job was answered either it or the job
that kept it out owes the sale (`EquitySold`, `AiSold`, `AiRecovered`, `Guarded`).
It assumes `InTime`, that the jobs which are let in before the window and do not
sell in it are gone before the session is. A unit of the instance is five minutes:
a forward cycle has 300 s and the window is ten minutes, the guard and the sleeve's
monitor have 90 s, less than a unit, and catalyst and AI gated, with 600 s, start no
research within 30 minutes of the close (`config/integrations.yaml`). `InTime` also says that
the forward job and the sleeve's monitor are scheduled; `serve` schedules the second
only when the profile of the sleeve is enabled, and a disabled sleeve with positions
is sold by the guard alone.
Two flaws of the model came out of these proofs: the age of old orders was a number
that a longer deadline could have passed (now `Oldest`), and the cases of the mode of a
session overlapped, which TLC resolves in their order and TLA+ does not.

`ResearchProofs`, the tokens. `GrantKept` is inductive with one addition, `StoringIsAlone`:
while a worker is about to store the new tokens, neither the envelope nor another
session has them, so nobody can present them and no other store overwrites them.
`NoFalseBlock` has a second invariant, `RacesAreBenign`, for as long as the server
rejects nothing early. Only a worker whose tokens a peer has replaced can fail
(`Doomed`), the access token it reports is an old one, and the tokens that replaced
its own are younger than two operations (`Informed`, `BlockedIsOld`), so they outlast
the cooldown. That is what the theorem assumes of the server, as `Timely`: an access
token lives for the skew, the cooldown and twice the deadline of an operation, which
is 60 s and 300 s and two timeouts in the configuration. The assumption is close to
sharp: with two units of time less TLC finds a cooldown in force when the tokens of
the winner are no longer valid.

`ResearchProofs`, the teams. `UsageRecorded` needs to know which stage has how many
records and that an attempt bills at most one unit (`Costs`), so that none of the sums
leaves its range. `PlanIsSupported` is inductive once the evidence of the analysis
under way is part of what its plan may rest on (`Evidence`); the exception is a fresh
analysis of the allocator, whose evidence replaces that of the plan before it, and only
at its end.

`ResearchProofs`, the labels. What `resolve` still has to label is pending
(`ResolvesPending`), an observation that is to be labelled again was labelled at most
once for each kill so far (`LearnedForKills`), and nothing is learned from before it
is due (`LearnedWhenDue`), without which a new observation could have the key of one
that was learned from. This needs a horizon of at least one minute: with a horizon of
zero an observation could be labelled and made again in the same minute. Nothing is
assumed of the sampling, the delay or the session.

`ResearchProofs`, the sizing. `CapsHold` and `NoChase` are about the step `Allocate`,
from an invariant that only says what the state is made of: prices leave the spread
positive, a proposal carries a forecast. For the caps, the increments that a capacity
allows fit it (`DivBound`), what is free under a percentage of the account is free
after rounding (`FreeIs`), and the claim with the new order is the claim before and its
cost (`ClaimOfNew`, on the sums of `PaperBrokerProofs`). For `NoChase`, the half of
the mass that is nearest to no move expects at most what all of it does (`LowerHalf`),
and the rest is arithmetic on products, taken apart until each is linear. Assumed
is `SizingConstantsOK`: prices and the premium above the spread, a positive stop.

`ResearchProofs`, the choice. The selection and the deep research are each computed in
one step, so the invariant is short: types, the two properties, and that a validated
ranking is grounded (`RankedIsGrounded`). The work is in what the operators compute. A
sort lists every element once because an injection of a finite set into as many ranks
is onto them (`Ranks`, `DescendingIs`). What holds of a loop at its start and after
each element holds at its end (`EachStep`, an induction up to a bound from the minimal
elements of a finite set), and what holds is `Loop`: whoever the list has added came
before whoever it has refused, and it refuses only when the quota or all places are
taken. `PlacesAreFair` follows by counting: earnings and reservations take at most
`Priority + 2 * PerDirection` places, which `ChoiceConstantsOK` says there are; the
shipped profiles have 2 + 2 * 2 of 6 and of 8. For `DeepIsGrounded` the reserved
bearish items come first in their order, so that no other item can stand among as many
first places as there are reserved ones (`DeepIs`).

Model-checked only:

- liveness (`StaleLockRecovered`, `EveryCallReturns`, `PreparedIsCompleted`, `DuePositionsAreSold`, `DueLabelResolved`, `PremarketSignalRechecked`): fairness and `ENABLED` are outside the prover's reach;
- `PartsTypeOK` as a property of the instance `MCResearch`; the types of each of its six parts are proved.

Type correctness is part of each inductive invariant, so the runs do not repeat it,
but for the parts of `research`.

## 5. What the checks found

Six disagreements between the documents and the code; `findings` of
`PROJECT.json` quote both sides. In short: on POSIX the removal of a stale
lock can remove a live one; an equity order that is retried never expires; the
rollover of the counters is not under the fill lock; after a graceful stop
(or a kill) a worker may share an account with one of the next service; a second
allocator plan on an exposure, refused a mandate, has the recovery close the
mandate of the first; and a kill between the creation and the submission of an
allocator's sale of shares leaves a position that is never sold.

Others were seen while modelling and are not runs: a resting order can be
rejected when it is retried, an edge that the state diagram of
`PROJECT_ARCHITECTURE.md` does not draw; the EOD guard, which needs all
accounts at once and is skipped rather than queued, may be kept out as long
as other jobs overlap (`FlatAtClose` says what holds all the same);
`references/weighted_and_ai_gated_strategy.md:106-109` has the guard own two
accounts where `serve` gives it three; two workers may present one refresh
token; and the premarket list, the usage records and the loss at a kill, as
explained under the properties above.

## 6. Not modelled

* Power loss: `write_json` does not fsync; the documents claim recovery from the crash of a process only. An empty lock file left by a crash is never removed, which fails closed (`ProcessLock` reaches it).
* Lifecycle marks outside the lock: the journal is a report that nothing decides on.
* Heartbeat and watchdog: one record and a decision that is reported. Service and worker write the same record under a lock; a degraded cycle of the worker makes the watchdog call the service unhealthy. The signal handler of the service may wait for its own log lock for ten seconds at start-up.
* Dashboard (2919 lines): read-only presentation. Replay and its validation contracts (about 2470 lines) and the evaluation scripts: one process, batch, no state a live job reads.
* Adapters, scoring, Greeks, option selection and pricing, schemas and prompts: network, text or floating point without state. They appear as inputs: a quote that is there, stale or missing, a score, a verdict, an answer.
* Parts of modelled components: market-event marks of catalyst discovery, watches and decision records of the allocator, amendments of a mandate's horizon, client registration and interactive reauthorisation of the connection, the exchange calendar. `PROJECT.json` lists each with its reason.

## 7. Plan

1. Done: the modules of section 2, their instances and the proofs of section 4.
2. Proofs: a refinement that shows the step `Submit` of `PaperBroker` to be what `FillWal` does under the fill lock.
3. Models: the staged cooldown and the watches of the allocator, lifecycle marks as actions of `FillWal`, heartbeat and watchdog.

## 8. Running

    tlc -workers 2 -config MCFillWal.cfg MCFillWal.tla
    tlapm FillWalProofs.tla
