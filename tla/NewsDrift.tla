----------------------------- MODULE NewsDrift -----------------------------
(***************************************************************************)
(* The news drift sleeve: scripts/news_drift/pipeline.py on top of the     *)
(* SQLite ledger of event_store.py and the cooldown file of                *)
(* EvidenceSnapshotStore.                                                  *)
(*                                                                         *)
(* One worker at a time runs a cycle (JobRunner is about that).  The cycle *)
(* resolves due labels, retries signals whose quote was stale, claims the  *)
(* search window, searches, lets the model classify what it has not been   *)
(* sent, and persists, marks and screens the result.  Every commit is a    *)
(* step of its own and the worker may be killed between any two.           *)
(*                                                                         *)
(* A story is one fingerprint, an event the pair of a story and a ticker   *)
(* that the model saw in it.  What the search, the model and the quotes    *)
(* answer is a choice.  Prices, relations between events, snapshots and    *)
(* the append-only logs are left out.                                      *)
(*                                                                         *)
(* The operators named Fault... are the seeded faults of PROJECT.json.     *)
(***************************************************************************)
EXTENDS Naturals, FiniteSets, Sequences

CONSTANTS
    Stories,
    Events,
    StoryOf,       \* event -> story
    Published,     \* story -> time of publication
    Horizons,      \* delays of the outcome labels
    WindowStart,   \* the premarket search window opens ...
    OpenTime,      \* ... the market opens ...
    LastTime,      \* bound on the clock, in units of the search interval
    Cooldown,      \* event_cooldown_hours
    MaxAge,        \* maximum_event_age_seconds
    MaxPerCycle,   \* max_events_per_cycle
    MaxCrashes     \* bound on the crashes of a worker

ASSUME ConstantsAssumption ==
    /\ StoryOf \in [Events -> Stories] /\ Published \in [Stories -> Nat]
    /\ Horizons \subseteq Nat \ {0} /\ IsFiniteSet(Events)
    /\ WindowStart \in Nat /\ OpenTime \in Nat /\ LastTime \in Nat
    /\ Cooldown \in Nat \ {0} /\ MaxAge \in Nat
    /\ MaxPerCycle \in Nat \ {0} /\ MaxCrashes \in Nat

VARIABLES
    clock,
    ledger,     \* news_events: event -> absent, pending (signal_emitted = 0) or emitted
    signals,    \* llm_signals, each with its latest tradability observation
    proposals,  \* shadow_proposals
    labels,     \* outcome_labels
    searched,   \* cooldowns: last search + 1, 0 before the first
    sent,       \* cooldowns: story -> when it was sent to the model + 1
    cycle,      \* the running worker
    kills

vars == <<clock, ledger, signals, proposals, labels, searched, sent, cycle, kills>>
database == <<ledger, signals, proposals, labels>>
cooldowns == <<searched, sent>>

Transient == {"none", "transient"}   \* nothing observed, or no usable quote
Signal ==
    [event : Events, at : 0..LastTime, verdict : Transient \cup {"rejected", "passed"},
     checked : 0..LastTime]
SignalIds == DOMAIN signals
ProposalIds == DOMAIN proposals
Label == [proposal : ProposalIds, horizon : Horizons, value : {"valued", "unavailable"},
          at : 0..LastTime]

Idle == [step |-> "idle", at |-> 0, todo |-> {}, item |-> <<>>, batch |-> {},
         heard |-> 0, fresh |-> {}]

TypeOK ==
    /\ clock \in 0..LastTime
    /\ ledger \in [Events -> {"absent", "pending", "emitted"}]
    /\ signals \in Seq(Signal)
    /\ proposals \in Seq([signal : SignalIds, at : 0..LastTime])
    /\ labels \subseteq Label
    /\ searched \in 0..LastTime + 1 /\ sent \in [Stories -> 0..LastTime + 1]
    /\ cycle.step \in {"idle", "labels", "gate", "retry", "claim", "search", "analyze",
                       "ingest", "record", "screen", "propose"}
    /\ cycle.at \in 0..LastTime /\ cycle.heard \in 0..LastTime
    /\ cycle.batch \subseteq Stories /\ cycle.fresh \subseteq SignalIds
    /\ kills \in 0..MaxCrashes

Init ==
    /\ clock = 0
    /\ ledger = [e \in Events |-> "absent"]
    /\ signals = <<>> /\ proposals = <<>> /\ labels = {}
    /\ searched = 0 /\ sent = [s \in Stories |-> 0]
    /\ cycle = Idle
    /\ kills = 0

Goto(step, todo) == cycle' = [cycle EXCEPT !.step = step, !.todo = todo]
Done(item) == cycle' = [cycle EXCEPT !.todo = @ \ {item}]
End == cycle' = Idle

-----------------------------------------------------------------------------
(* resolve_due_labels *)

\* Seeded fault: an unavailable label does not count as a label.
FaultDue(t) ==
    {i \in ProposalIds \X Horizons :
        /\ proposals[i[1]].at + i[2] <= t
        /\ ~\E l \in labels : l.proposal = i[1] /\ l.horizon = i[2] /\ l.value = "valued"}

Due(t) ==
    {i \in ProposalIds \X Horizons :
        /\ proposals[i[1]].at + i[2] <= t
        /\ ~\E l \in labels : l.proposal = i[1] /\ l.horizon = i[2]}

StartCycle ==
    /\ cycle.step = "idle"
    /\ cycle' = [Idle EXCEPT !.step = "labels", !.at = clock, !.todo = Due(clock)]
    /\ UNCHANGED <<clock, database, cooldowns, kills>>

\* Seeded fault: a late quote is deferred like an early one.
FaultRecordLabel(item, quoted) ==
    /\ cycle.step = "labels" /\ item \in cycle.todo
    /\ quoted = proposals[item[1]].at + item[2] /\ quoted <= cycle.at
    /\ labels' = labels \cup {[proposal |-> item[1], horizon |-> item[2],
                               value |-> "valued", at |-> quoted]}
    /\ Done(item)
    /\ UNCHANGED <<clock, ledger, signals, proposals, cooldowns, kills>>

\* quoted is the time of the quote.  One that is newer than the start of the cycle
\* is not used; one that is later than the tolerance, less than a unit of the
\* clock, is a data gap, stamped with the start of the cycle.
RecordLabel(item, quoted) ==
    /\ cycle.step = "labels" /\ item \in cycle.todo
    /\ LET target == proposals[item[1]].at + item[2]
       IN /\ target <= quoted /\ quoted <= cycle.at /\ quoted <= clock
          /\ labels' = labels \cup
                {[proposal |-> item[1], horizon |-> item[2],
                  value |-> IF quoted = target THEN "valued" ELSE "unavailable",
                  at |-> IF quoted = target THEN quoted ELSE cycle.at]}
    /\ Done(item)
    /\ UNCHANGED <<clock, ledger, signals, proposals, cooldowns, kills>>

\* No quote, one before the target or after the start, or a wide spread.
DeferLabel(item) ==
    /\ cycle.step = "labels" /\ item \in cycle.todo
    /\ Done(item)
    /\ UNCHANGED <<clock, database, cooldowns, kills>>

LabelsEnd ==
    /\ cycle.step = "labels" /\ cycle.todo = {}
    /\ IF cycle.at >= WindowStart THEN Goto("gate", {}) ELSE End
    /\ UNCHANGED <<clock, database, cooldowns, kills>>

-----------------------------------------------------------------------------
(* _retry_transient_signals *)

Unproposed == {s \in SignalIds : \A p \in ProposalIds : proposals[p].signal # s}

\* Seeded fault: a signal that was not screened at all is not retried.
FaultRetryable == {s \in Unproposed : signals[s].verdict = "transient"}

Retryable == {s \in Unproposed : signals[s].verdict \in Transient}

\* list_unproposed_signals: the limit is applied to the newest, before the filter.
Newest(listed) ==
    /\ listed \subseteq Unproposed
    /\ Cardinality(listed) <= MaxPerCycle
    /\ listed = Unproposed \/ Cardinality(listed) = MaxPerCycle
    /\ \A s \in listed, r \in Unproposed \ listed : signals[s].at >= signals[r].at

Premarket ==
    /\ cycle.step = "gate" /\ cycle.at < OpenTime
    /\ Goto("claim", {})
    /\ UNCHANGED <<clock, database, cooldowns, kills>>

Retry ==
    /\ cycle.step = "gate" /\ cycle.at >= OpenTime
    /\ \E listed \in SUBSET Unproposed : Newest(listed) /\ Goto("retry", listed \cap Retryable)
    /\ UNCHANGED <<clock, database, cooldowns, kills>>

RetryEnds ==
    /\ cycle.step = "retry" /\ cycle.todo = {}
    /\ Goto("claim", {})
    /\ UNCHANGED <<clock, database, cooldowns, kills>>

-----------------------------------------------------------------------------
(* _screen_signals, for the retried and for the new signals *)

\* The instrument or market context cannot be read: the cycle ends.
ScreenFails ==
    /\ cycle.step \in {"retry", "screen"} /\ cycle.todo # {}
    /\ End
    /\ UNCHANGED <<clock, database, cooldowns, kills>>

Observed(s, verdict) ==
    signals' = [signals EXCEPT ![s] = [@ EXCEPT !.verdict = verdict, !.checked = clock]]

\* Seeded fault: the proposal is left to a later cycle.
FaultObserve(s, verdict) ==
    /\ cycle.step \in {"retry", "screen"} /\ s \in cycle.todo
    /\ verdict = "passed" => clock <= Published[StoryOf[signals[s].event]] + MaxAge
    /\ Observed(s, verdict)
    /\ Done(s)
    /\ UNCHANGED <<clock, ledger, proposals, labels, cooldowns, kills>>

\* record_tradability_observation commits before the proposal does.
Observe(s, verdict) ==
    /\ cycle.step \in {"retry", "screen"} /\ s \in cycle.todo
    /\ verdict = "passed" => clock <= Published[StoryOf[signals[s].event]] + MaxAge
    /\ Observed(s, verdict)
    /\ IF verdict = "passed"
       THEN cycle' = [cycle EXCEPT !.step = "propose", !.item = <<s, cycle.step>>,
                                   !.todo = @ \ {s}]
       ELSE Done(s)
    /\ UNCHANGED <<clock, ledger, proposals, labels, cooldowns, kills>>

\* _create_proposal.
Propose ==
    /\ cycle.step = "propose"
    /\ proposals' = Append(proposals, [signal |-> cycle.item[1], at |-> clock])
    /\ cycle' = [cycle EXCEPT !.step = cycle.item[2], !.item = <<>>]
    /\ UNCHANGED <<clock, ledger, signals, labels, cooldowns, kills>>

-----------------------------------------------------------------------------
(* Discovery *)

\* claim_search_window: written before the search, whatever comes of it.
ClaimSearch ==
    /\ cycle.step = "claim" /\ cycle.at + 1 > searched
    /\ searched' = cycle.at + 1
    /\ Goto("search", {})
    /\ UNCHANGED <<clock, database, sent, kills>>

SearchCooldown ==
    /\ cycle.step = "claim" /\ cycle.at + 1 <= searched
    /\ End
    /\ UNCHANGED <<clock, database, cooldowns, kills>>

\* unsent_model_events.
Withheld(story, t) == sent[story] # 0 /\ t < sent[story] - 1 + Cooldown

\* The search finds some of what is published; at most MaxPerCycle stories that the
\* model was not sent go on to it.
Search(found) ==
    /\ cycle.step = "search"
    /\ \A s \in found : Published[s] <= clock
    /\ LET unseen == {s \in found : ~Withheld(s, cycle.at)}
       IN IF unseen = {} THEN End
          ELSE \E batch \in SUBSET unseen :
                  /\ Cardinality(batch) <= MaxPerCycle
                  /\ batch = unseen \/ Cardinality(batch) = MaxPerCycle
                  /\ cycle' = [cycle EXCEPT !.step = "analyze", !.batch = batch]
    /\ UNCHANGED <<clock, database, cooldowns, kills>>

\* The provider or the model fails: failed closed.
DiscoveryFails ==
    /\ cycle.step \in {"search", "analyze"}
    /\ End
    /\ UNCHANGED <<clock, database, cooldowns, kills>>

\* The model names tickers; what it calls a duplicate is passed over.
Analyze(named) ==
    /\ cycle.step = "analyze"
    /\ \A e \in named : StoryOf[e] \in cycle.batch
    /\ cycle' = [cycle EXCEPT !.step = "ingest", !.todo = named, !.heard = clock]
    /\ UNCHANGED <<clock, database, cooldowns, kills>>

\* _persist_signals: a known fingerprint triggers no signal, ...
IngestKnown(e) ==
    /\ cycle.step = "ingest" /\ e \in cycle.todo /\ ledger[e] # "absent"
    /\ Done(e)
    /\ UNCHANGED <<clock, database, cooldowns, kills>>

\* ... a new event commits ...
IngestNew(e) ==
    /\ cycle.step = "ingest" /\ e \in cycle.todo /\ ledger[e] = "absent"
    /\ ledger' = [ledger EXCEPT ![e] = "pending"]
    /\ cycle' = [cycle EXCEPT !.step = "record", !.item = <<e>>, !.todo = @ \ {e}]
    /\ UNCHANGED <<clock, signals, proposals, labels, cooldowns, kills>>

\* ... and its signal with the mark on the event commits after it.
RecordSignal ==
    /\ cycle.step = "record"
    /\ signals' = Append(signals, [event |-> cycle.item[1], at |-> cycle.heard,
                                   verdict |-> "none", checked |-> cycle.heard])
    /\ ledger' = [ledger EXCEPT ![cycle.item[1]] = "emitted"]
    /\ cycle' = [cycle EXCEPT !.step = "ingest", !.item = <<>>,
                              !.fresh = @ \cup {Len(signals) + 1}]
    /\ UNCHANGED <<clock, proposals, labels, cooldowns, kills>>

MarkSent ==
    /\ cycle.step = "ingest" /\ cycle.todo = {}
    /\ sent' = [s \in Stories |-> IF s \in cycle.batch THEN cycle.heard + 1 ELSE sent[s]]
    /\ cycle' = [Idle EXCEPT !.step = "screen", !.at = cycle.at, !.todo = cycle.fresh]
    /\ UNCHANGED <<clock, database, searched, kills>>

Complete ==
    /\ cycle.step = "screen" /\ cycle.todo = {}
    /\ End
    /\ UNCHANGED <<clock, database, cooldowns, kills>>

-----------------------------------------------------------------------------

\* Time passes between cycles and while a cycle waits for quotes or the model.
Tick ==
    /\ cycle.step \in {"idle", "labels", "retry", "search", "analyze", "screen"}
    /\ clock < LastTime /\ clock' = clock + 1
    /\ UNCHANGED <<database, cooldowns, cycle, kills>>

\* The worker meets its deadline or dies.
Kill ==
    /\ cycle.step # "idle" /\ kills < MaxCrashes
    /\ kills' = kills + 1
    /\ End
    /\ UNCHANGED <<clock, database, cooldowns>>

LabelItems == (1..Cardinality(Events)) \X Horizons
ResolveLabels ==
    \/ \E item \in LabelItems :
          DeferLabel(item) \/ \E quoted \in 0..clock : RecordLabel(item, quoted)
    \/ LabelsEnd

Screened(s) ==
    s \in SignalIds /\ \E verdict \in {"transient", "rejected", "passed"} : Observe(s, verdict)

Screen ==
    \/ \E s \in SignalIds : Screened(s)
    \/ ScreenFails \/ Propose

Discover ==
    \/ ClaimSearch \/ SearchCooldown \/ DiscoveryFails
    \/ \E found \in SUBSET Stories : Search(found)
    \/ \E named \in SUBSET Events : Analyze(named)
    \/ \E e \in Events : IngestKnown(e) \/ IngestNew(e)
    \/ RecordSignal \/ MarkSent

CycleStep ==
    ResolveLabels \/ Premarket \/ Retry \/ RetryEnds \/ Screen \/ Discover \/ Complete

Next == StartCycle \/ CycleStep \/ Tick \/ Kill

Spec == Init /\ [][Next]_vars

\* The scheduler starts a cycle every minute, a worker that is not killed goes on,
\* the clock advances; a current quote for a due label and a market context for a
\* listed signal are not refused for ever.
Fairness ==
    /\ WF_vars(StartCycle) /\ WF_vars(CycleStep) /\ SF_vars(Tick)
    /\ \A item \in LabelItems : SF_vars(RecordLabel(item, clock))
    /\ \A s \in 1..Cardinality(Events) : SF_vars(Screened(s))

FairSpec == Spec /\ Fairness

-----------------------------------------------------------------------------
(* Properties *)

\* A story that is sent to the model again after a kill or a cooldown, a signal
\* that is screened again and a label that is resolved again leave one signal per
\* event, one proposal per signal and one label per proposal and horizon.
IdempotentLedger ==
    /\ \A s, r \in SignalIds : signals[s].event = signals[r].event => s = r
    /\ \A p, q \in ProposalIds : proposals[p].signal = proposals[q].signal => p = q
    /\ \A l, m \in labels : l.proposal = m.proposal /\ l.horizon = m.horizon => l = m

Lost ==
    {e \in Events : ledger[e] = "pending" /\ ~(cycle.step = "record" /\ cycle.item[1] = e)}
    \cup {s \in Unproposed :
            signals[s].verdict = "passed" /\ ~(cycle.step = "propose" /\ cycle.item[1] = s)}

\* An event without its signal and a signal that passed without its proposal are
\* never taken up again: a resend is a duplicate, a passed signal is not retried.
\* Each kill costs at most one of them, and a story is withheld from the model only
\* once every signal the model gave is on record.
LossBoundedByKills ==
    /\ Cardinality(Lost) <= kills
    /\ \A e \in Events :
          cycle.step = "ingest" /\ e \in cycle.todo => ~Withheld(StoryOf[e], cycle.heard)

\* A label that is due is recorded in the end, valued or unavailable.
DueLabelResolved ==
    \A item \in LabelItems : item \in Due(clock) ~> item \notin Due(clock)

Blocked(s) ==
    s \in SignalIds /\ signals[s].verdict \in Transient /\ signals[s].checked < OpenTime

Crowded(s) ==
    Cardinality({r \in Unproposed \ {s} : signals[r].at >= signals[s].at}) >= MaxPerCycle

\* A signal that the premarket left without a usable quote is screened again after
\* the open, unless as many signals that are not older, rejected ones too, take up
\* the list (references/llm_news_drift_policy.md, step 7, has no such exception).
PremarketSignalRechecked ==
    \A s \in 1..Cardinality(Events) :
        Blocked(s) ~> (~Blocked(s) \/ Crowded(s))

=============================================================================
