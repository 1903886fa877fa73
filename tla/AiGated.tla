------------------------------ MODULE AiGated ------------------------------
(***************************************************************************)
(* The research cycles of the AI gated sleeve and of catalyst discovery    *)
(* (scripts/discovery/ai_gated_pipeline.py and catalyst_pipeline.py), the  *)
(* monitor of the sleeve, and the cooldown file that both cycles read and  *)
(* rewrite (evidence_store.py).                                            *)
(*                                                                         *)
(* The cycles are worker processes; the job runner keeps two apart that    *)
(* use a resource in common (JobRunner).  The file has no lock of its own: *)
(* a mark reads all of it, changes the entries of one scope and ticker,    *)
(* and writes all of it back.  The market events that catalyst discovery   *)
(* sent to a model are marked in the same way and left out here.           *)
(*                                                                         *)
(* An event belongs to one ticker.  What a search finds, how candidates    *)
(* are ranked and what the models decide are choices; prices and sizes are *)
(* left out (PaperBroker), a sale is one step (EndOfDay and AllocatorPlan  *)
(* are about a sale that is interrupted).                                  *)
(*                                                                         *)
(* The operators named Fault... are the seeded faults of PROJECT.json.     *)
(***************************************************************************)
EXTENDS Integers, FiniteSets

CONSTANTS
    Tickers,
    Events,    \* fingerprints of the events that are ever published
    About,     \* event -> ticker
    Published, \* event -> time
    DeepLimit, \* top_deep_research_candidates
    Cooldown,  \* event_cooldown_hours
    Validity,  \* max_entry_validity_seconds
    OrderExpiry, \* open_order_expiry_seconds
    LastTime,  \* bound on the clock
    MaxKills   \* bound on the workers that are killed

ConstantsOK ==
    /\ About \in [Events -> Tickers] /\ Published \in [Events -> Nat]
    /\ {DeepLimit, Cooldown, Validity, OrderExpiry, LastTime, MaxKills} \subseteq Nat

VARIABLES
    clock,      \* the time, in parts of a trading day
    researched, \* catalyst_cooldowns.json: scope and event -> time of research
    entry,      \* ticker -> its entry order at work
    position,   \* ticker -> day its position was opened, or None
    stopped,    \* ticker -> day of its last sale for a stop, or None
    cycle,      \* job -> where its worker stands
    used,       \* event -> research time of the last entry that it justified
    repeats,    \* event -> entries that it justified inside its cooldown
    kills

gatedVars ==
    <<clock, researched, entry, position, stopped, cycle, used, repeats, kills>>

None == -1
Jobs == {"ai_gated", "ai_monitor", "catalyst"}
Scopes == {"ai_gated", "catalyst"}

\* Seeded fault: catalyst discovery does not take the evidence store.
FaultResources(j) ==
    CASE j = "ai_gated" -> {"ai_account", "evidence_store"}
      [] j = "ai_monitor" -> {"ai_account"}
      [] j = "catalyst" -> {"main_account"}

Resources(j) ==
    CASE j = "ai_gated" -> {"ai_account", "evidence_store"}
      [] j = "ai_monitor" -> {"ai_account"}
      [] j = "catalyst" -> {"main_account", "evidence_store"}

\* Five parts make a day: outside of the regular session, its hours with time for
\* research, and the end of it, where only the monitor works and flattens.
DayOf(t) == t \div 5
Part(t) == IF t % 5 = 0 THEN "pre_market" ELSE IF t % 5 = 4 THEN "preclose" ELSE "regular"
IsRegular(t) == Part(t) # "pre_market"

Steps ==
    {"off", "process", "exit", "search", "deep", "submit", "read", "write"}

\* at is the decision time of the monitor, later that of the research; done counts the
\* analyses of a catalyst cycle; evidence is what is marked next; file is what the
\* worker has read.
Off ==
    [step |-> "off", research_only |-> FALSE, at |-> 0, todo |-> {}, done |-> 0, fresh |-> {},
     evidence |-> {}, item |-> "none", file |-> <<>>]

File == [Scopes \X Events -> None..LastTime]
NoEntry == [status |-> "none", at |-> 0]

GatedTypeOK ==
    /\ clock \in 0..LastTime
    /\ researched \in File
    /\ entry \in [Tickers -> [status : {"none", "created", "open"}, at : 0..LastTime]]
    /\ position \in [Tickers -> None..DayOf(LastTime)]
    /\ stopped \in [Tickers -> None..DayOf(LastTime)]
    /\ cycle \in [Jobs -> [step : Steps, research_only : BOOLEAN, at : 0..LastTime,
                           todo : SUBSET Tickers, done : 0..DeepLimit, fresh : SUBSET Events,
                           evidence : SUBSET Events, item : Tickers \cup {"none"},
                           file : File \cup {<<>>}]]
    /\ used \in [Events -> None..LastTime]
    /\ repeats \in [Events -> Nat]
    /\ kills \in 0..MaxKills

GatedInit ==
    /\ clock = 0
    /\ researched = [k \in Scopes \X Events |-> None]
    /\ entry = [t \in Tickers |-> NoEntry]
    /\ position = [t \in Tickers |-> None]
    /\ stopped = [t \in Tickers |-> None]
    /\ cycle = [j \in Jobs |-> Off]
    /\ used = [e \in Events |-> None]
    /\ repeats = [e \in Events |-> 0]
    /\ kills = 0

Goto(j, step, todo) == cycle' = [cycle EXCEPT ![j].step = step, ![j].todo = todo]
Done(j, t) == cycle' = [cycle EXCEPT ![j].todo = @ \ {t}]
End(j) == cycle' = [cycle EXCEPT ![j] = Off]
OnlyCycles == UNCHANGED <<clock, researched, entry, position, stopped, used, repeats, kills>>

InPosition == {t \in Tickers : position[t] # None}
AtWork == {t \in Tickers : entry[t].status # "none"}
Overnight(time) == \E t \in InPosition : position[t] < DayOf(time)

-----------------------------------------------------------------------------
(* Workers *)

Conflict(j) ==
    \E k \in Jobs : cycle[k].step # "off" /\ Resources(j) \cap Resources(k) # {}

\* monitor_only is the whole of ai_monitor and the first part of the gated cycle;
\* before the open it does nothing, and the cycles may research all the same.
Start(j) ==
    /\ ~Conflict(j)
    /\ LET pre == Part(clock) = "pre_market"
       IN /\ IF j = "catalyst" THEN Part(clock) \in {"pre_market", "regular"}
             ELSE IsRegular(clock) \/ (pre /\ j = "ai_gated")
          /\ cycle' = [cycle EXCEPT ![j] =
                 [Off EXCEPT !.step = IF pre \/ j = "catalyst" THEN "search" ELSE "process",
                             !.at = clock, !.research_only = pre,
                             !.todo = IF j = "catalyst" \/ pre THEN {}
                                      ELSE {t \in Tickers : entry[t].status = "open"}]]
    /\ OnlyCycles

\* The worker is killed, by its deadline or from outside; every file is whole.
Kill(j) ==
    /\ cycle[j].step # "off" /\ kills < MaxKills
    /\ kills' = kills + 1
    /\ End(j)
    /\ UNCHANGED <<clock, researched, entry, position, stopped, used, repeats>>

Advance ==
    /\ clock < LastTime
    /\ clock' = clock + 1
    /\ UNCHANGED <<researched, entry, position, stopped, cycle, used, repeats, kills>>

-----------------------------------------------------------------------------
(* monitor_only *)

EntryTime(t) == Part(t) = "regular"

\* A resting entry expires, is rejected by a gate, fills, or rests on from now.
Process(j, t) ==
    /\ cycle[j].step = "process" /\ t \in cycle[j].todo
    /\ \/ /\ entry' = [entry EXCEPT ![t] = NoEntry]
          /\ UNCHANGED position
       \/ /\ cycle[j].at - entry[t].at < OrderExpiry /\ EntryTime(cycle[j].at)
          /\ \/ /\ entry' = [entry EXCEPT ![t].at = cycle[j].at]
                /\ UNCHANGED position
             \/ /\ entry' = [entry EXCEPT ![t] = NoEntry]
                /\ position' = [position EXCEPT ![t] = DayOf(cycle[j].at)]
    /\ Done(j, t)
    /\ UNCHANGED <<clock, researched, stopped, used, repeats, kills>>

ProcessEnd(j) ==
    /\ cycle[j].step = "process" /\ cycle[j].todo = {}
    /\ Goto(j, "exit", InPosition)
    /\ OnlyCycles

Flatten(j, t) == Part(cycle[j].at) = "preclose" \/ position[t] < DayOf(cycle[j].at)

\* A sale before the close or of an overnight position has that as its reason, any
\* other one may be for a stop; a missing quote, or the closed market, prevents it.
Exit(j, t) ==
    /\ cycle[j].step = "exit" /\ t \in cycle[j].todo
    /\ \/ UNCHANGED <<position, stopped>>
       \/ /\ IsRegular(clock)
          /\ position' = [position EXCEPT ![t] = None]
          /\ \/ UNCHANGED stopped
             \/ ~Flatten(j, t) /\ stopped' = [stopped EXCEPT ![t] = DayOf(clock)]
    /\ Done(j, t)
    /\ UNCHANGED <<clock, researched, entry, used, repeats, kills>>

ExitEnd(j) ==
    /\ cycle[j].step = "exit" /\ cycle[j].todo = {}
    /\ IF j = "ai_gated" /\ Part(cycle[j].at) = "regular" /\ ~Overnight(cycle[j].at)
       THEN Goto(j, "search", {}) ELSE End(j)
    /\ OnlyCycles

-----------------------------------------------------------------------------
(* The evidence store *)

\* Seeded fault: an event is cooled down by the research of any scope but its own.
FaultFresh(scope, e) ==
    \A s \in Scopes \ {scope} :
        researched[s, e] = None \/ clock - researched[s, e] >= Cooldown

\* research_eligibility: the events that may go to a model.
\* The cooldown of the ticker only words the reason of a refusal.
Fresh(scope, e) ==
    researched[scope, e] = None \/ clock - researched[scope, e] >= Cooldown

Found(scope, tickers) ==
    {e \in Events : Published[e] <= clock /\ About[e] \in tickers /\ Fresh(scope, e)}

\* mark_researched: the file is read ...
ReadCooldowns(j) ==
    /\ cycle[j].step = "read"
    /\ cycle' = [cycle EXCEPT ![j].step = "write", ![j].file = researched]
    /\ OnlyCycles

\* ... and written with the evidence marked.
WriteCooldowns(j) ==
    /\ cycle[j].step = "write"
    /\ researched' = [k \in DOMAIN researched |->
           IF k[1] = j /\ k[2] \in cycle[j].evidence THEN cycle[j].at
           ELSE cycle[j].file[k]]
    /\ cycle' = [cycle EXCEPT ![j] =
           [@ EXCEPT !.step = "deep", !.file = <<>>, !.evidence = {}]]
    /\ UNCHANGED <<clock, entry, position, stopped, used, repeats, kills>>

-----------------------------------------------------------------------------
(* Research *)

\* Seeded fault: the time of the stop is compared, not its session.
FaultStoppedToday(t, time) == stopped[t] = time

StoppedToday(t, time) == stopped[t] = DayOf(time)

\* The gated cycle searches all candidates at once; at most DeepLimit of those with
\* evidence go on to deep research.
Search(found) ==
    /\ cycle["ai_gated"].step = "search"
    /\ found \subseteq Found("ai_gated",
           {t \in Tickers \ (InPosition \cup AtWork) : ~StoppedToday(t, cycle["ai_gated"].at)})
    /\ LET tickers == {About[e] : e \in found}
       IN /\ Cardinality(tickers) <= DeepLimit
          /\ cycle' = [cycle EXCEPT !["ai_gated"] =
                 [@ EXCEPT !.step = "deep", !.at = clock, !.todo = tickers, !.fresh = found]]
    /\ OnlyCycles

\* The catalyst cycle searches the market, ranks what it finds, and then researches
\* one ticker after the other.
Discover ==
    /\ cycle["catalyst"].step = "search"
    /\ Goto("catalyst", "deep", Tickers)
    /\ OnlyCycles

\* The evidence of an analysis is marked, unless it was made before the open.
ToMark(j, t, evidence, at) ==
    LET c == cycle[j]
    IN cycle' = [cycle EXCEPT ![j] =
           [c EXCEPT !.step = IF c.research_only THEN "deep" ELSE "read",
                     !.todo = c.todo \ {t}, !.at = at,
                     !.done = IF j = "catalyst" THEN c.done + 1 ELSE c.done,
                     !.fresh = {e \in c.fresh : About[e] # t}, !.item = "none",
                     !.evidence = IF c.research_only THEN {} ELSE evidence]]

\* The catalyst cycle searches a ticker and analyses the evidence, if there is any.
Analyze(t, found) ==
    /\ cycle["catalyst"].step = "deep" /\ t \in cycle["catalyst"].todo
    /\ cycle["catalyst"].done < DeepLimit
    /\ found \subseteq Found("catalyst", {t}) /\ found # {}
    /\ ToMark("catalyst", t, found, clock)
    /\ OnlyCycles

\* The gated cycle adds primary evidence, whether fresh or not, and analyses.
Evidence(t, primary) == {e \in cycle["ai_gated"].fresh : About[e] = t} \cup primary
Primary(t) == {e \in Events : Published[e] <= clock /\ About[e] = t}
Deep(t) == cycle["ai_gated"].step = "deep" /\ t \in cycle["ai_gated"].todo

NoTrade(t) ==
    /\ Deep(t)
    /\ \E primary \in SUBSET Primary(t) :
          ToMark("ai_gated", t, Evidence(t, primary), cycle["ai_gated"].at)
    /\ OnlyCycles

\* _execute: an entry inside the validity of its authorization, unless the sleeve
\* holds an overnight position or a stop has sold the ticker today.
CreateEntry(t) ==
    /\ Deep(t) /\ ~cycle["ai_gated"].research_only
    /\ LET at == cycle["ai_gated"].at
           fresh == {e \in cycle["ai_gated"].fresh : About[e] = t}
       IN /\ ~Overnight(at) /\ ~StoppedToday(t, at)
          /\ clock - at <= Validity
          /\ used' = [e \in Events |-> IF e \in fresh THEN at ELSE used[e]]
          /\ repeats' = [e \in Events |->
                 IF e \in fresh /\ used[e] # None /\ at - used[e] < Cooldown
                 THEN repeats[e] + 1 ELSE repeats[e]]
    /\ entry' = [entry EXCEPT ![t] = [status |-> "created", at |-> clock]]
    /\ \E primary \in SUBSET Primary(t) :
          cycle' = [cycle EXCEPT !["ai_gated"] =
              [@ EXCEPT !.step = "submit", !.item = t, !.evidence = Evidence(t, primary)]]
    /\ UNCHANGED <<clock, researched, position, stopped, kills>>

\* submit_order rejects it, or it fills or rests; it is dated by its creation.
SubmitEntry ==
    /\ cycle["ai_gated"].step = "submit"
    /\ LET t == cycle["ai_gated"].item
       IN /\ \/ entry' = [entry EXCEPT ![t] = NoEntry] /\ UNCHANGED position
             \/ /\ EntryTime(entry[t].at)
                /\ \/ entry' = [entry EXCEPT ![t].status = "open"] /\ UNCHANGED position
                   \/ /\ entry' = [entry EXCEPT ![t] = NoEntry]
                      /\ position' = [position EXCEPT ![t] = DayOf(entry[t].at)]
          /\ ToMark("ai_gated", t, cycle["ai_gated"].evidence, cycle["ai_gated"].at)
    /\ UNCHANGED <<clock, researched, stopped, used, repeats, kills>>

\* A cycle ends after its last candidate, or when what it depends on fails.
CycleEnds(j) ==
    /\ cycle[j].step \in {"search", "deep"}
    /\ End(j)
    /\ OnlyCycles

-----------------------------------------------------------------------------

GatedNext ==
    \/ Advance \/ SubmitEntry \/ Discover
    \/ \E found \in SUBSET Events : Search(found)
    \/ \E t \in Tickers :
          \/ NoTrade(t) \/ CreateEntry(t)
          \/ \E found \in SUBSET Events : Analyze(t, found)
    \/ \E j \in Jobs :
          \/ Start(j) \/ Kill(j) \/ CycleEnds(j)
          \/ ProcessEnd(j) \/ ExitEnd(j) \/ ReadCooldowns(j) \/ WriteCooldowns(j)
          \/ \E t \in Tickers : Process(j, t) \/ Exit(j, t)

GatedSpec == GatedInit /\ [][GatedNext]_gatedVars

-----------------------------------------------------------------------------
(* Properties *)

\* "Same-session stop loss blocks ticker reentry": no position is opened, by a new
\* order or by one that rested, on the day a stop has sold the ticker, although the
\* sale and the entry are made by different workers and the check is made on a time
\* read before the research.
NoReentryAfterStop ==
    [][\A t \in Tickers :
          position[t] = None /\ position'[t] # None => stopped[t] # position'[t]]_gatedVars

\* The same event justifies a second entry inside its cooldown only if a worker was
\* killed between the order and the mark, however the cycles that share the
\* cooldown file are interleaved.
EvidenceTradedOnce == \A e \in Events : repeats[e] <= kills

\* A mark is never lost: whichever cycle writes the file, no event of any scope
\* becomes fresh again before its cooldown is over.
MarksAreKept ==
    [][\A k \in DOMAIN researched : researched'[k] >= researched[k]]_gatedVars
=============================================================================
