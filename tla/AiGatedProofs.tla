--------------------------- MODULE AiGatedProofs ---------------------------
(***************************************************************************)
(* What the gated cycle, its monitor and catalyst discovery guarantee for  *)
(* any tickers, events, limits and any number of kills: no mark is lost in *)
(* the cooldown file that the cycles rewrite without a lock, an event      *)
(* justifies a second entry only after a kill, and no position is opened   *)
(* on the day of a stop.                                                   *)
(***************************************************************************)
EXTENDS AiGated, TLAPS

gated == cycle["ai_gated"]
Working == {"deep", "submit", "read", "write"}

\* The steps that each worker can reach, and the workers that the resources keep
\* apart.
Apart ==
    /\ cycle["ai_monitor"].step \in {"off", "process", "exit"}
    /\ cycle["catalyst"].step \in {"off", "search", "deep", "read", "write"}
    /\ gated.step # "off" =>
          cycle["ai_monitor"].step = "off" /\ cycle["catalyst"].step = "off"

\* Nothing is dated in the future.
Dated ==
    /\ \A k \in DOMAIN researched : researched[k] <= clock
    /\ \A t \in Tickers : entry[t].at <= clock /\ stopped[t] <= DayOf(clock)

\* What a worker has at hand is as it was read: the file it is about to write, with
\* marks that are not older, the entries it retries and the positions it may sell.
JobIsCurrent(c) ==
    /\ c.at <= clock
    /\ c.step = "write" => c.file = researched
    /\ c.step \in {"read", "write"} => \A k \in DOMAIN researched : researched[k] <= c.at
    /\ c.step = "process" => \A t \in c.todo : t \in AtWork /\ entry[t].at <= c.at
    /\ c.step = "exit" => c.todo \subseteq InPosition

\* Since the search of the gated cycle its evidence stays fresh, no stop has sold a
\* candidate, and the candidates that are left have neither an entry nor a position;
\* what is marked is taken off the evidence first.
GatedIsCurrent(c) ==
    c.step \in Working =>
        /\ \A k \in DOMAIN researched : researched[k] <= c.at
        /\ \A e \in c.fresh :
              \/ researched[<<"ai_gated", e>>] = None
              \/ c.at - researched[<<"ai_gated", e>>] >= Cooldown
        /\ c.step \in {"read", "write"} => c.evidence \cap c.fresh = {}
        /\ c.step = "submit" =>
              /\ ~c.research_only /\ c.item \in AtWork
              /\ \A e \in c.evidence : About[e] = c.item
        /\ \A t \in Tickers : stopped[t] <= DayOf(c.at)
        /\ \A t \in c.todo :
              (c.step = "submit" /\ t = c.item) \/ t \notin InPosition \cup AtWork

JobsAreCurrent == (\A j \in Jobs : JobIsCurrent(cycle[j])) /\ GatedIsCurrent(gated)

\* An event that justified an entry and is not marked yet is on its way to the file,
\* or its worker was killed.
Unmarked(e) == used[e] # None /\ researched[<<"ai_gated", e>>] < used[e]
Pending(e) ==
    gated.step \in {"submit", "read", "write"} /\ e \in gated.evidence /\ gated.at = used[e]
UnmarkedIsKilled ==
    \A e \in Events : repeats[e] + (IF Unmarked(e) /\ ~Pending(e) THEN 1 ELSE 0) <= kills

\* A ticker has no entry at work besides a position, and its entry is younger than
\* the day of its last stop.
EntriesAreSingle ==
    /\ InPosition \cap AtWork = {}
    /\ \A t \in AtWork : stopped[t] < DayOf(entry[t].at)

IInv ==
    /\ GatedTypeOK /\ Apart /\ Dated /\ JobsAreCurrent /\ UnmarkedIsKilled /\ EntriesAreSingle

-----------------------------------------------------------------------------
(* Types *)

Cycles ==
    [step : Steps, research_only : BOOLEAN, at : 0..LastTime, todo : SUBSET Tickers,
     done : 0..DeepLimit, fresh : SUBSET Events, evidence : SUBSET Events,
     item : Tickers \cup {"none"}, file : File \cup {<<>>}]

LEMMA CycleShape ==
    ASSUME GatedTypeOK, NEW j \in Jobs
    PROVE  /\ cycle[j] \in Cycles
           /\ cycle[j] =
                 [step |-> cycle[j].step, research_only |-> cycle[j].research_only,
                  at |-> cycle[j].at, todo |-> cycle[j].todo, done |-> cycle[j].done,
                  fresh |-> cycle[j].fresh, evidence |-> cycle[j].evidence,
                  item |-> cycle[j].item, file |-> cycle[j].file]
<1>1. cycle[j] \in Cycles BY DEF GatedTypeOK, Cycles
<1> QED BY <1>1 DEF Cycles

\* One worker moves.
LEMMA CycleSet ==
    ASSUME GatedTypeOK, NEW j \in Jobs, NEW new, cycle' = [cycle EXCEPT ![j] = new]
    PROVE  /\ cycle'[j] = new /\ \A k \in Jobs \ {j} : cycle'[k] = cycle[k]
           /\ new \in Cycles => cycle' \in [Jobs -> Cycles]
BY DEF GatedTypeOK, Cycles

LEMMA OffTypes == ConstantsOK => Off \in Cycles
BY DEF ConstantsOK, Off, Cycles, Steps

\* Days are natural numbers that grow with the time.
LEMMA Days ==
    /\ \A x \in Nat : DayOf(x) \in Nat
    /\ \A x, y \in Nat : x <= y => DayOf(x) <= DayOf(y)
    /\ \A x \in Nat : \A y \in 0..x : DayOf(y) \in 0..DayOf(x)
BY DEF DayOf

LEMMA InitIInv == ConstantsOK /\ GatedInit => IInv
<1> SUFFICES ASSUME ConstantsOK, GatedInit PROVE IInv
    OBVIOUS
<1> USE DEF GatedInit
<1>1. \A j \in Jobs : cycle[j] = Off OBVIOUS
<1>2. InPosition = {} /\ AtWork = {} BY DEF InPosition, AtWork, NoEntry
<1>3. 0 \in 0..LastTime /\ 0 \in 0..MaxKills /\ None \in None..LastTime
      /\ None \in None..DayOf(LastTime)
  BY Days DEF ConstantsOK, None
<1>4. GatedTypeOK
  <2>1. cycle \in [Jobs -> Cycles] BY <1>1, OffTypes
  <2>2. NoEntry \in [status : {"none", "created", "open"}, at : 0..LastTime]
    BY <1>3 DEF NoEntry
  <2>3. researched \in File BY <1>3 DEF File
  <2> QED BY <1>3, <2>1, <2>2, <2>3 DEF GatedTypeOK, Cycles
<1>5. Apart BY <1>1 DEF Apart, gated, Jobs, Off
<1>6. Dated
  <2>1. None <= 0 /\ None <= DayOf(0) BY DEF None, DayOf
  <2> QED BY <2>1 DEF Dated, NoEntry
<1>7. JobsAreCurrent
  BY <1>1 DEF JobsAreCurrent, JobIsCurrent, GatedIsCurrent, gated, Jobs, Off, Working
<1>8. UnmarkedIsKilled BY DEF UnmarkedIsKilled, Unmarked
<1>9. EntriesAreSingle BY <1>2 DEF EntriesAreSingle
<1> QED BY <1>4, <1>5, <1>6, <1>7, <1>8, <1>9 DEF IInv

-----------------------------------------------------------------------------
(* Steps that move one worker and write no file *)

\* What a worker may become in such a step.
LEMMA MoveStep ==
    ASSUME ConstantsOK, IInv,
           UNCHANGED <<clock, researched, entry, position, stopped, used, repeats>>,
           kills' \in 0..MaxKills,
           NEW j \in Jobs, NEW new \in Cycles, cycle' = [cycle EXCEPT ![j] = new],
           cycle[j].step = "off" /\ new.step # "off" => ~Conflict(j),
           j = "ai_monitor" => new.step \in {"off", "process", "exit"},
           j = "catalyst" => new.step \in {"off", "search", "deep", "read", "write"},
           JobIsCurrent(new), j = "ai_gated" => GatedIsCurrent(new),
           UnmarkedIsKilled'
    PROVE  IInv'
<1>1. GatedTypeOK /\ Apart /\ Dated /\ JobsAreCurrent /\ EntriesAreSingle BY DEF IInv
<1>2. /\ cycle'[j] = new /\ \A k \in Jobs \ {j} : cycle'[k] = cycle[k]
      /\ cycle' \in [Jobs -> Cycles]
  BY <1>1, CycleSet
<1>3. InPosition' = InPosition /\ AtWork' = AtWork BY DEF InPosition, AtWork
<1>4. GatedTypeOK' BY <1>1, <1>2 DEF GatedTypeOK, Cycles
<1>5. Apart'
  <2>1. j = "ai_gated" \/ j = "ai_monitor" \/ j = "catalyst" BY DEF Jobs
  <2>2. ASSUME cycle[j].step = "off", new.step # "off", NEW k \in Jobs,
               Resources(j) \cap Resources(k) # {}
        PROVE  cycle[k].step = "off"
    BY <2>2 DEF Conflict
  <2>3. Resources("ai_gated") \cap Resources("ai_monitor") # {}
        /\ Resources("ai_gated") \cap Resources("catalyst") # {}
        /\ Resources("ai_monitor") \cap Resources("ai_gated") # {}
        /\ Resources("catalyst") \cap Resources("ai_gated") # {}
    BY DEF Resources
  <2> QED BY <1>1, <1>2, <2>1, <2>2, <2>3 DEF Apart, gated, Jobs
<1>6. Dated' /\ EntriesAreSingle' BY <1>1, <1>3 DEF Dated, EntriesAreSingle
<1>7. JobsAreCurrent'
  <2>1. \A k \in Jobs : JobIsCurrent(cycle'[k]) BY <1>1, <1>2 DEF JobsAreCurrent
  <2>2. \A k \in Jobs : JobIsCurrent(cycle[k])' BY <1>3, <2>1 DEF JobIsCurrent
  <2>3. GatedIsCurrent(cycle'["ai_gated"])
    BY <1>1, <1>2 DEF JobsAreCurrent, gated, Jobs
  <2>4. GatedIsCurrent(gated)' BY <1>3, <2>3 DEF GatedIsCurrent, gated
  <2> QED BY <2>2, <2>4 DEF JobsAreCurrent
<1> QED BY <1>4, <1>5, <1>6, <1>7 DEF IInv

\* A step of one worker that leaves everything else as it is.
LEMMA QuietStep ==
    ASSUME ConstantsOK, IInv, OnlyCycles,
           NEW j \in Jobs, NEW new \in Cycles, cycle' = [cycle EXCEPT ![j] = new],
           cycle[j].step = "off" /\ new.step # "off" => ~Conflict(j),
           j = "ai_monitor" => new.step \in {"off", "process", "exit"},
           j = "catalyst" => new.step \in {"off", "search", "deep", "read", "write"},
           JobIsCurrent(new), j = "ai_gated" => GatedIsCurrent(new),
           cycle[j].step \in {"submit", "read", "write"} =>
              /\ new.step \in {"submit", "read", "write"}
              /\ new.evidence = cycle[j].evidence /\ new.at = cycle[j].at
    PROVE  IInv'
<1>1. GatedTypeOK /\ UnmarkedIsKilled BY DEF IInv
<1>2. cycle'[j] = new /\ \A k \in Jobs \ {j} : cycle'[k] = cycle[k] BY <1>1, CycleSet
<1>3. ASSUME NEW e \in Events, Pending(e) PROVE Pending(e)'
  BY <1>2, <1>3 DEF Pending, gated, Jobs, OnlyCycles
<1>4. UnmarkedIsKilled'
  <2>1. \A e \in Events : Unmarked(e)' <=> Unmarked(e) BY DEF Unmarked, OnlyCycles
  <2>2. repeats \in [Events -> Nat] /\ kills \in Nat BY <1>1 DEF GatedTypeOK
  <2> SUFFICES ASSUME NEW e \in Events
               PROVE  repeats'[e] + (IF Unmarked(e)' /\ ~Pending(e)' THEN 1 ELSE 0) <= kills'
    BY DEF UnmarkedIsKilled
  <2>3. repeats[e] + (IF Unmarked(e) /\ ~Pending(e) THEN 1 ELSE 0) <= kills
    BY <1>1 DEF UnmarkedIsKilled
  <2>4. repeats'[e] = repeats[e] /\ kills' = kills BY DEF OnlyCycles
  <2>5. Unmarked(e)' /\ ~Pending(e)' => Unmarked(e) /\ ~Pending(e) BY <1>3, <2>1
  <2>6. repeats[e] \in Nat BY <2>2
  <2> QED BY ONLY <2>2, <2>3, <2>4, <2>5, <2>6
<1>5. kills' \in 0..MaxKills BY <1>1 DEF GatedTypeOK, OnlyCycles
<1> QED BY <1>4, <1>5, MoveStep DEF OnlyCycles

\* What Goto makes of a worker.
LEMMA Moved ==
    ASSUME GatedTypeOK, NEW j \in Jobs, NEW step \in Steps, NEW todo \in SUBSET Tickers,
           Goto(j, step, todo)
    PROVE  \E new \in Cycles :
              /\ cycle' = [cycle EXCEPT ![j] = new]
              /\ new.step = step /\ new.todo = todo
              /\ new.research_only = cycle[j].research_only
              /\ new.at = cycle[j].at /\ new.done = cycle[j].done
              /\ new.fresh = cycle[j].fresh /\ new.evidence = cycle[j].evidence
              /\ new.item = cycle[j].item /\ new.file = cycle[j].file
<1> DEFINE new == [cycle[j] EXCEPT !.step = step, !.todo = todo]
<1>1. cycle[j] \in Cycles BY CycleShape
<1>2. cycle' = [cycle EXCEPT ![j] = new] BY DEF Goto, GatedTypeOK
<1>3. new \in Cycles BY <1>1 DEF Cycles
<1>4. /\ new.step = step /\ new.todo = todo
      /\ new.research_only = cycle[j].research_only
      /\ new.at = cycle[j].at /\ new.done = cycle[j].done
      /\ new.fresh = cycle[j].fresh /\ new.evidence = cycle[j].evidence
      /\ new.item = cycle[j].item /\ new.file = cycle[j].file
  BY <1>1 DEF Cycles
<1> QED BY <1>2, <1>3, <1>4

LEMMA OffIsCurrent ==
    GatedTypeOK /\ ConstantsOK => JobIsCurrent(Off) /\ GatedIsCurrent(Off)
BY DEF GatedTypeOK, ConstantsOK, Off, JobIsCurrent, GatedIsCurrent, Working

LEMMA StartStep ==
    ASSUME ConstantsOK, IInv, NEW j \in Jobs, Start(j)
    PROVE  IInv'
<1> DEFINE pre == Part(clock) = "pre_market"
           step == IF pre \/ j = "catalyst" THEN "search" ELSE "process"
           todo == IF j = "catalyst" \/ pre THEN {}
                   ELSE {t \in Tickers : entry[t].status = "open"}
           new == [Off EXCEPT !.step = step, !.at = clock, !.research_only = pre,
                              !.todo = todo]
<1>1. GatedTypeOK /\ Dated BY DEF IInv
<1>2. /\ ~Conflict(j) /\ OnlyCycles /\ cycle' = [cycle EXCEPT ![j] = new]
      /\ j = "ai_monitor" => step = "process"
  BY DEF Start, IsRegular
<1>3. step \in {"search", "process"} /\ (j = "catalyst" => step = "search") OBVIOUS
<1>4. clock \in 0..LastTime /\ todo \subseteq Tickers
      /\ \A t \in todo : t \in AtWork /\ entry[t].at <= clock
  BY <1>1 DEF GatedTypeOK, Dated, AtWork
<1>5. cycle[j].step = "off"
  <2>1. Resources(j) # {} BY DEF Jobs, Resources
  <2> QED BY <1>2, <2>1 DEF Conflict
<1> HIDE DEF step, todo
<1>6. new \in Cycles BY <1>3, <1>4, OffTypes DEF Cycles, Steps
<1>7. new.step = step /\ new.at = clock /\ new.todo = todo BY OffTypes DEF Cycles
<1> HIDE DEF new
<1>8. JobIsCurrent(new) BY <1>3, <1>4, <1>7 DEF JobIsCurrent
<1>9. GatedIsCurrent(new) BY <1>3, <1>7 DEF GatedIsCurrent, Working
<1> QED BY <1>2, <1>3, <1>5, <1>6, <1>7, <1>8, <1>9, QuietStep

LEMMA EndStep ==
    ASSUME ConstantsOK, IInv, NEW j \in Jobs, End(j), OnlyCycles,
           cycle[j].step \notin {"submit", "read", "write"}
    PROVE  IInv'
<1>1. GatedTypeOK BY DEF IInv
<1>2. cycle' = [cycle EXCEPT ![j] = Off] /\ Off \in Cycles BY OffTypes DEF End
<1>3. Off.step = "off" BY DEF Off
<1> QED BY <1>1, <1>2, <1>3, OffIsCurrent, QuietStep

\* A worker goes on to its exits, its search or the research of what it found.
LEMMA GotoStep ==
    ASSUME ConstantsOK, IInv, OnlyCycles, NEW j \in Jobs, NEW step \in Steps,
           NEW todo \in SUBSET Tickers, Goto(j, step, todo),
           \/ j # "catalyst" /\ cycle[j].step = "process" /\ step = "exit" /\ todo = InPosition
           \/ j = "ai_gated" /\ cycle[j].step = "exit" /\ step = "search"
           \/ j = "catalyst" /\ cycle[j].step = "search" /\ step = "deep"
    PROVE  IInv'
<1>1. GatedTypeOK /\ JobsAreCurrent BY DEF IInv
<1>2. PICK new \in Cycles :
         /\ cycle' = [cycle EXCEPT ![j] = new]
         /\ new.step = step /\ new.todo = todo /\ new.at = cycle[j].at
  BY <1>1, Moved
<1>3. JobIsCurrent(new) BY <1>1, <1>2 DEF JobIsCurrent, JobsAreCurrent
<1>4. j = "ai_gated" => GatedIsCurrent(new) BY <1>2 DEF GatedIsCurrent, Working
<1> QED BY <1>2, <1>3, <1>4, QuietStep

LEMMA ProcessEndStep ==
    ASSUME ConstantsOK, IInv, NEW j \in Jobs, ProcessEnd(j)
    PROVE  IInv'
<1>1. Goto(j, "exit", InPosition) /\ cycle[j].step = "process" /\ OnlyCycles BY DEF ProcessEnd
<1>2. "exit" \in Steps /\ InPosition \in SUBSET Tickers BY DEF Steps, InPosition
<1>3. j # "catalyst" BY <1>1 DEF Apart, IInv
<1> QED BY <1>1, <1>2, <1>3, GotoStep

LEMMA ExitEndStep ==
    ASSUME ConstantsOK, IInv, NEW j \in Jobs, ExitEnd(j)
    PROVE  IInv'
<1>1. cycle[j].step = "exit" /\ OnlyCycles BY DEF ExitEnd
<1>2. CASE End(j) BY <1>1, <1>2, EndStep
<1>3. CASE j = "ai_gated" /\ Goto(j, "search", {})
  <2>1. "search" \in Steps /\ {} \in SUBSET Tickers BY DEF Steps
  <2> QED BY <1>1, <1>3, <2>1, GotoStep
<1> QED BY <1>2, <1>3 DEF ExitEnd

LEMMA DiscoverStep ==
    ASSUME ConstantsOK, IInv, Discover
    PROVE  IInv'
<1>1. /\ Goto("catalyst", "deep", Tickers) /\ cycle["catalyst"].step = "search"
      /\ OnlyCycles
  BY DEF Discover
<1>2. "catalyst" \in Jobs /\ "deep" \in Steps /\ Tickers \in SUBSET Tickers
  BY DEF Jobs, Steps
<1> QED BY <1>1, <1>2, GotoStep

LEMMA CycleEndsStep ==
    ASSUME ConstantsOK, IInv, NEW j \in Jobs, CycleEnds(j)
    PROVE  IInv'
BY EndStep DEF CycleEnds

\* A kill may lose one event that has justified an entry and is not marked.
LEMMA KillStep ==
    ASSUME ConstantsOK, IInv, NEW j \in Jobs, Kill(j)
    PROVE  IInv'
<1>1. GatedTypeOK /\ UnmarkedIsKilled BY DEF IInv
<1>2. /\ UNCHANGED <<clock, researched, entry, position, stopped, used, repeats>>
      /\ kills < MaxKills /\ kills' = kills + 1 /\ cycle' = [cycle EXCEPT ![j] = Off]
  BY DEF Kill, End
<1>3. kills \in 0..MaxKills /\ repeats \in [Events -> Nat] BY <1>1 DEF GatedTypeOK
<1>4. kills' \in 0..MaxKills BY <1>2, <1>3 DEF ConstantsOK
<1>5. UnmarkedIsKilled'
  <2> SUFFICES ASSUME NEW e \in Events
               PROVE  repeats'[e] + (IF Unmarked(e)' /\ ~Pending(e)' THEN 1 ELSE 0) <= kills'
    BY DEF UnmarkedIsKilled
  <2>1. repeats[e] + (IF Unmarked(e) /\ ~Pending(e) THEN 1 ELSE 0) <= kills
    BY <1>1 DEF UnmarkedIsKilled
  <2>2. repeats[e] \in Nat /\ repeats'[e] = repeats[e] /\ kills \in Nat BY <1>2, <1>3
  <2> QED BY ONLY <1>2, <2>1, <2>2
<1>6. Off.step = "off" /\ Off \in Cycles BY OffTypes DEF Off
<1> QED BY <1>1, <1>2, <1>4, <1>5, <1>6, OffIsCurrent, MoveStep

LEMMA ReadCooldownsStep ==
    ASSUME ConstantsOK, IInv, NEW j \in Jobs, ReadCooldowns(j)
    PROVE  IInv'
<1>1. GatedTypeOK /\ Apart /\ JobsAreCurrent BY DEF IInv
<1> DEFINE new == [cycle[j] EXCEPT !.step = "write", !.file = researched]
<1>2. cycle[j].step = "read" /\ OnlyCycles /\ cycle' = [cycle EXCEPT ![j] = new]
  BY <1>1 DEF ReadCooldowns, GatedTypeOK
<1>3. cycle[j] \in Cycles /\ researched \in File BY <1>1, CycleShape DEF GatedTypeOK
<1>4. new \in Cycles BY <1>3 DEF Cycles, Steps
<1>5. /\ new.step = "write" /\ new.file = researched /\ new.at = cycle[j].at
      /\ new.evidence = cycle[j].evidence /\ new.fresh = cycle[j].fresh
      /\ new.todo = cycle[j].todo
  BY <1>3 DEF Cycles
<1> HIDE DEF new
<1>6. JobIsCurrent(new) BY <1>1, <1>2, <1>5 DEF JobIsCurrent, JobsAreCurrent
<1>7. j = "ai_gated" => GatedIsCurrent(new)
  BY <1>1, <1>2, <1>5 DEF GatedIsCurrent, JobsAreCurrent, gated, Working
<1>8. j # "ai_monitor" BY <1>1, <1>2 DEF Apart
<1> QED BY <1>2, <1>4, <1>5, <1>6, <1>7, <1>8, QuietStep

LEMMA SearchStep ==
    ASSUME ConstantsOK, IInv, NEW found \in SUBSET Events, Search(found)
    PROVE  IInv'
<1>1. GatedTypeOK /\ Dated /\ JobsAreCurrent BY DEF IInv
<1> DEFINE tickers == {About[e] : e \in found}
           new == [gated EXCEPT !.step = "deep", !.at = clock, !.todo = tickers,
                                !.fresh = found]
<1>2. /\ gated.step = "search" /\ OnlyCycles
      /\ cycle' = [cycle EXCEPT !["ai_gated"] = new]
      /\ found \subseteq Found("ai_gated",
            {t \in Tickers \ (InPosition \cup AtWork) : ~StoppedToday(t, gated.at)})
  BY <1>1 DEF Search, gated, GatedTypeOK, Jobs
<1>3. "ai_gated" \in Jobs /\ gated \in Cycles /\ clock \in 0..LastTime
  BY <1>1, CycleShape DEF Jobs, gated, GatedTypeOK
<1>4. tickers \subseteq Tickers \ (InPosition \cup AtWork) BY <1>2 DEF Found
<1>5. \A e \in found : \/ researched[<<"ai_gated", e>>] = None
                       \/ clock - researched[<<"ai_gated", e>>] >= Cooldown
  BY <1>2 DEF Found, Fresh
<1> HIDE DEF tickers
<1>6. new \in Cycles BY <1>3, <1>4 DEF Cycles, Steps
<1>7. new.step = "deep" /\ new.at = clock /\ new.todo = tickers /\ new.fresh = found
  BY <1>3 DEF Cycles
<1> HIDE DEF new
<1>8. JobIsCurrent(new) BY <1>1, <1>3, <1>7 DEF JobIsCurrent
<1>9. GatedIsCurrent(new) BY <1>1, <1>4, <1>5, <1>7 DEF GatedIsCurrent, Dated
<1> QED BY <1>2, <1>3, <1>6, <1>7, <1>8, <1>9, QuietStep DEF gated

\* What ToMark makes of a worker.
Marks(c, new, t, evidence, at) ==
    /\ new.step = (IF c.research_only THEN "deep" ELSE "read")
    /\ new.at = at /\ new.todo = c.todo \ {t}
    /\ \A e \in new.fresh : e \in c.fresh /\ About[e] # t
    /\ new.evidence = (IF c.research_only THEN {} ELSE evidence)

LEMMA ToMarkMoves ==
    ASSUME GatedTypeOK, ConstantsOK, NEW j \in Jobs, NEW t \in Tickers,
           NEW evidence \in SUBSET Events, NEW at \in 0..LastTime,
           j = "catalyst" => cycle[j].done < DeepLimit,
           ToMark(j, t, evidence, at)
    PROVE  \E new \in Cycles :
              /\ cycle' = [cycle EXCEPT ![j] = new]
              /\ Marks(cycle[j], new, t, evidence, at)
<1> DEFINE step == IF cycle[j].research_only THEN "deep" ELSE "read"
           done == IF j = "catalyst" THEN cycle[j].done + 1 ELSE cycle[j].done
           fresh == {e \in cycle[j].fresh : About[e] # t}
           marked == IF cycle[j].research_only THEN {} ELSE evidence
           new == [cycle[j] EXCEPT !.step = step, !.todo = cycle[j].todo \ {t}, !.at = at,
                                   !.done = done, !.fresh = fresh, !.item = "none",
                                   !.evidence = marked]
<1>1. cycle[j] \in Cycles BY CycleShape
<1>2. cycle' = [cycle EXCEPT ![j] = new] BY DEF ToMark, GatedTypeOK
<1>3. /\ step \in Steps /\ fresh \in SUBSET Events /\ marked \in SUBSET Events
      /\ cycle[j].todo \ {t} \in SUBSET Tickers
  BY <1>1 DEF Cycles, Steps
<1>4. done \in 0..DeepLimit BY <1>1 DEF Cycles, ConstantsOK
<1> HIDE DEF step, done, fresh, marked
<1>5. new \in Cycles BY <1>1, <1>3, <1>4 DEF Cycles
<1>6. /\ new.step = step /\ new.at = at /\ new.todo = cycle[j].todo \ {t}
      /\ new.fresh = fresh /\ new.evidence = marked
  BY <1>1 DEF Cycles
<1> HIDE DEF new
<1> QED BY <1>2, <1>5, <1>6 DEF step, fresh, marked, Marks

LEMMA AnalyzeStep ==
    ASSUME ConstantsOK, IInv, NEW t \in Tickers, NEW found \in SUBSET Events,
           Analyze(t, found)
    PROVE  IInv'
<1>1. GatedTypeOK /\ Dated BY DEF IInv
<1>2. /\ cycle["catalyst"].step = "deep" /\ cycle["catalyst"].done < DeepLimit
      /\ ToMark("catalyst", t, found, clock) /\ OnlyCycles
  BY DEF Analyze
<1>3. "catalyst" \in Jobs /\ clock \in 0..LastTime BY <1>1 DEF Jobs, GatedTypeOK
<1>4. PICK new \in Cycles : /\ cycle' = [cycle EXCEPT !["catalyst"] = new]
                             /\ Marks(cycle["catalyst"], new, t, found, clock)
  BY ONLY <1>1, <1>2, <1>3, ConstantsOK, t \in Tickers, found \in SUBSET Events,
          ToMarkMoves
<1>5. new.step \in {"deep", "read"} /\ new.at = clock BY <1>4 DEF Marks
<1>6. JobIsCurrent(new) BY <1>1, <1>3, <1>5 DEF JobIsCurrent, Dated
<1> QED BY <1>2, <1>3, <1>4, <1>5, <1>6, QuietStep

\* The evidence of an analysis is all about the ticker and leaves the fresh evidence.
LEMMA NoTradeStep ==
    ASSUME ConstantsOK, IInv, NEW t \in Tickers, NoTrade(t)
    PROVE  IInv'
<1>1. GatedTypeOK /\ Dated /\ JobsAreCurrent BY DEF IInv
<1>2. PICK primary \in SUBSET Primary(t) :
         ToMark("ai_gated", t, Evidence(t, primary), gated.at)
  BY DEF NoTrade, gated
<1> DEFINE evidence == Evidence(t, primary)
<1>3. gated.step = "deep" /\ t \in gated.todo /\ OnlyCycles BY DEF NoTrade, Deep, gated
<1>4. "ai_gated" \in Jobs /\ gated \in Cycles BY <1>1, CycleShape DEF Jobs, gated
<1>5. evidence \in SUBSET Events /\ \A e \in evidence : About[e] = t
  BY <1>4 DEF Evidence, Primary, Cycles, gated
<1>6. gated.at \in 0..LastTime BY <1>4 DEF Cycles
<1>7. PICK new \in Cycles : /\ cycle' = [cycle EXCEPT !["ai_gated"] = new]
                             /\ Marks(gated, new, t, evidence, gated.at)
  <2>1. PICK at \in 0..LastTime, marked \in SUBSET Events :
           at = gated.at /\ marked = evidence
    BY <1>5, <1>6
  <2>2. ToMark("ai_gated", t, marked, at) BY <1>2, <2>1
  <2>3. "ai_gated" = "catalyst" => cycle["ai_gated"].done < DeepLimit OBVIOUS
  <2>4. PICK new \in Cycles : /\ cycle' = [cycle EXCEPT !["ai_gated"] = new]
                               /\ Marks(cycle["ai_gated"], new, t, marked, at)
    BY ONLY <1>1, <1>4, <2>2, <2>3, ConstantsOK, t \in Tickers, ToMarkMoves
  <2> QED BY <2>1, <2>4 DEF gated
<1> HIDE DEF evidence
<1>8. GatedIsCurrent(gated) /\ gated.at <= clock
  BY <1>1, <1>4 DEF JobsAreCurrent, JobIsCurrent, gated
<1>9. \A k \in DOMAIN researched : researched[k] <= gated.at
  BY <1>3, <1>8 DEF GatedIsCurrent, Working
<1>10. JobIsCurrent(new) BY <1>7, <1>8, <1>9 DEF JobIsCurrent, Marks
<1>11. GatedIsCurrent(new)
  <2>1. new.evidence \cap new.fresh = {} BY <1>5, <1>7 DEF Marks
  <2>2. new.step \in {"deep", "read"} BY <1>7 DEF Marks
  <2> QED BY <1>3, <1>7, <1>8, <2>1, <2>2 DEF GatedIsCurrent, Working, Marks
<1> QED BY <1>3, <1>4, <1>7, <1>10, <1>11, QuietStep DEF gated

-----------------------------------------------------------------------------
(* Time and the monitor *)

LEMMA TickStep == ConstantsOK /\ IInv /\ Advance => IInv'
<1> SUFFICES ASSUME ConstantsOK, IInv, Advance PROVE IInv'
    OBVIOUS
<1>1. GatedTypeOK /\ Apart /\ Dated /\ JobsAreCurrent /\ UnmarkedIsKilled /\ EntriesAreSingle
  BY DEF IInv
<1>2. /\ clock < LastTime /\ clock' = clock + 1
      /\ UNCHANGED <<researched, entry, position, stopped, cycle, used, repeats, kills>>
  BY DEF Advance
<1>3. clock \in 0..LastTime /\ clock' \in 0..LastTime
  BY <1>1, <1>2 DEF GatedTypeOK, ConstantsOK
<1>4. GatedTypeOK' BY <1>1, <1>2, <1>3 DEF GatedTypeOK
<1>5. Dated'
  <2>1. DayOf(clock) <= DayOf(clock') /\ DayOf(clock) \in Nat /\ DayOf(clock') \in Nat
    BY <1>2, <1>3, Days DEF ConstantsOK
  <2>2. /\ researched \in File
        /\ \A t \in Tickers :
              entry[t].at \in 0..LastTime /\ stopped[t] \in None..DayOf(LastTime)
    BY <1>1 DEF GatedTypeOK
  <2>3. \A k \in DOMAIN researched : researched[k] \in Int BY <2>2 DEF File, None
  <2>4. \A t \in Tickers : entry[t].at \in Int /\ stopped[t] \in Int
    <3>1. DayOf(LastTime) \in Nat BY Days DEF ConstantsOK
    <3> QED BY <2>2, <3>1 DEF None, ConstantsOK
  <2> QED BY <1>1, <1>2, <1>3, <2>1, <2>3, <2>4 DEF Dated, ConstantsOK
<1>6. JobsAreCurrent'
  <2>1. \A j \in Jobs : JobIsCurrent(cycle[j]) /\ cycle[j].at \in 0..LastTime
    BY <1>1 DEF JobsAreCurrent, GatedTypeOK
  <2>2. \A j \in Jobs : JobIsCurrent(cycle[j])'
    BY <1>2, <1>3, <2>1 DEF JobIsCurrent, InPosition, AtWork
  <2>3. GatedIsCurrent(gated)'
    BY <1>1, <1>2 DEF JobsAreCurrent, GatedIsCurrent, gated, InPosition, AtWork
  <2> QED BY <2>2, <2>3 DEF JobsAreCurrent
<1>7. Apart' BY <1>1, <1>2 DEF Apart, gated
<1>8. UnmarkedIsKilled' BY <1>1, <1>2 DEF UnmarkedIsKilled, Unmarked, Pending, gated
<1>9. EntriesAreSingle' BY <1>1, <1>2 DEF EntriesAreSingle, InPosition, AtWork
<1> QED BY <1>4, <1>5, <1>6, <1>7, <1>8, <1>9 DEF IInv

EntryType == [status : {"none", "created", "open"}, at : 0..LastTime]

\* A step of monitor_only on one ticker: no other worker has anything at hand that it
\* disturbs.
LEMMA MonitorStep ==
    ASSUME ConstantsOK, IInv, NEW j \in Jobs, NEW t \in Tickers,
           cycle[j].step \in {"process", "exit"}, Done(j, t),
           UNCHANGED <<clock, researched, used, repeats, kills>>,
           entry' \in [Tickers -> EntryType], position' \in [Tickers -> None..DayOf(LastTime)],
           stopped' \in [Tickers -> None..DayOf(LastTime)],
           \A u \in Tickers : entry'[u].at <= clock /\ stopped'[u] <= DayOf(clock),
           cycle[j].step = "process" =>
              \A u \in cycle[j].todo \ {t} : u \in AtWork' /\ entry'[u].at <= cycle[j].at,
           cycle[j].step = "exit" => cycle[j].todo \ {t} \subseteq InPosition',
           EntriesAreSingle'
    PROVE  IInv'
<1>1. GatedTypeOK /\ Apart /\ Dated /\ JobsAreCurrent /\ UnmarkedIsKilled
  BY DEF IInv
<1> DEFINE new == [cycle[j] EXCEPT !.todo = cycle[j].todo \ {t}]
<1>2. cycle' = [cycle EXCEPT ![j] = new] BY <1>1 DEF Done, GatedTypeOK
<1>3. cycle[j] \in Cycles BY <1>1, CycleShape
<1>4. new \in Cycles BY <1>3 DEF Cycles
<1>5. new.step = cycle[j].step /\ new.at = cycle[j].at /\ new.todo = cycle[j].todo \ {t}
  BY <1>3 DEF Cycles
<1> HIDE DEF new
<1>6. /\ cycle'[j] = new /\ \A k \in Jobs \ {j} : cycle'[k] = cycle[k]
      /\ cycle' \in [Jobs -> Cycles]
  BY <1>1, <1>2, <1>4, CycleSet
<1>7. /\ j # "catalyst" /\ gated.step \notin Working
      /\ \A k \in Jobs \ {j} : cycle[k].step \notin {"process", "exit"}
  BY <1>1 DEF Apart, Jobs, gated, Working
<1>8. GatedTypeOK' BY <1>1, <1>6 DEF GatedTypeOK, Cycles, EntryType
<1>9. \A k \in Jobs : cycle'[k].step = cycle[k].step BY <1>5, <1>6
<1>10. Apart' BY <1>1, <1>9 DEF Apart, gated, Jobs
<1>11. Dated' BY <1>1 DEF Dated
<1>12. JobsAreCurrent'
  <2>1. gated'.step \notin Working BY <1>7, <1>9 DEF gated, Jobs
  <2>2. GatedIsCurrent(gated)' BY <2>1 DEF GatedIsCurrent, gated, Working
  <2>3. JobIsCurrent(cycle[j])'
    BY <1>1, <1>5, <1>6 DEF JobsAreCurrent, JobIsCurrent
  <2>4. ASSUME NEW k \in Jobs \ {j} PROVE JobIsCurrent(cycle[k])'
    BY <1>1, <1>6, <1>7 DEF JobsAreCurrent, JobIsCurrent
  <2> QED BY <2>2, <2>3, <2>4 DEF JobsAreCurrent
<1>13. UnmarkedIsKilled'
  <2>1. \A e \in Events : ~Pending(e) /\ ~Pending(e)'
    BY <1>7, <1>9 DEF Pending, gated, Working, Jobs
  <2>2. \A e \in Events : Unmarked(e)' <=> Unmarked(e) BY DEF Unmarked
  <2> QED BY <1>1, <2>1, <2>2 DEF UnmarkedIsKilled
<1> QED BY <1>8, <1>10, <1>11, <1>12, <1>13 DEF IInv

\* Times and days of the accounts, for both kinds of steps.
LEMMA Accounts ==
    ASSUME ConstantsOK, IInv
    PROVE  /\ clock \in 0..LastTime /\ DayOf(clock) \in 0..DayOf(LastTime)
           /\ entry \in [Tickers -> EntryType]
           /\ position \in [Tickers -> None..DayOf(LastTime)]
           /\ stopped \in [Tickers -> None..DayOf(LastTime)]
           /\ \A u \in Tickers : /\ entry[u].at \in 0..LastTime /\ entry[u].at <= clock
                                 /\ DayOf(entry[u].at) \in 0..DayOf(clock)
                                 /\ stopped[u] <= DayOf(clock) /\ stopped[u] \in Int
           /\ NoEntry \in EntryType /\ NoEntry.status = "none" /\ NoEntry.at = 0
<1>1. GatedTypeOK /\ Dated BY DEF IInv
<1>2. clock \in 0..LastTime /\ LastTime \in Nat BY <1>1 DEF GatedTypeOK, ConstantsOK
<1>3. DayOf(clock) \in 0..DayOf(LastTime) /\ DayOf(LastTime) \in Nat BY <1>2, Days
<1>4. /\ entry \in [Tickers -> EntryType] /\ stopped \in [Tickers -> None..DayOf(LastTime)]
      /\ position \in [Tickers -> None..DayOf(LastTime)]
  BY <1>1 DEF GatedTypeOK, EntryType
<1>5. ASSUME NEW u \in Tickers
      PROVE  /\ entry[u].at \in 0..LastTime /\ entry[u].at <= clock
             /\ DayOf(entry[u].at) \in 0..DayOf(clock)
             /\ stopped[u] <= DayOf(clock) /\ stopped[u] \in Int
  <2>1. entry[u].at \in 0..LastTime BY <1>4 DEF EntryType
  <2>2. entry[u].at <= clock /\ stopped[u] <= DayOf(clock) BY <1>1 DEF Dated
  <2>3. entry[u].at \in 0..clock /\ clock \in Nat BY <1>2, <2>1, <2>2
  <2>4. stopped[u] \in Int BY <1>3, <1>4 DEF None
  <2> QED BY <2>1, <2>2, <2>3, <2>4, Days
<1>6. NoEntry \in EntryType /\ NoEntry.status = "none" /\ NoEntry.at = 0
  BY <1>2 DEF NoEntry, EntryType
<1> QED BY <1>2, <1>3, <1>4, <1>5, <1>6

\* The monitor sells no ticker that has an entry at work.
LEMMA ExitStep ==
    ASSUME ConstantsOK, IInv, NEW j \in Jobs, NEW t \in Tickers, Exit(j, t)
    PROVE  IInv'
<1>1. GatedTypeOK /\ JobsAreCurrent /\ EntriesAreSingle BY DEF IInv
<1>2. /\ cycle[j].step = "exit" /\ t \in cycle[j].todo /\ Done(j, t)
      /\ UNCHANGED <<clock, researched, entry, used, repeats, kills>>
      /\ \/ UNCHANGED <<position, stopped>>
         \/ /\ position' = [position EXCEPT ![t] = None]
            /\ UNCHANGED stopped \/ stopped' = [stopped EXCEPT ![t] = DayOf(clock)]
  BY DEF Exit
<1>3. cycle[j].todo \subseteq InPosition BY <1>1, <1>2 DEF JobsAreCurrent, JobIsCurrent
<1>4. t \notin AtWork BY <1>1, <1>2, <1>3 DEF EntriesAreSingle
<1>5. /\ DayOf(clock) \in 0..DayOf(LastTime) /\ DayOf(LastTime) \in Nat
      /\ position \in [Tickers -> None..DayOf(LastTime)]
      /\ stopped \in [Tickers -> None..DayOf(LastTime)]
      /\ entry \in [Tickers -> EntryType]
      /\ \A u \in Tickers : entry[u].at <= clock /\ stopped[u] <= DayOf(clock)
  BY Accounts, Days DEF ConstantsOK
<1>6. /\ \A u \in Tickers \ {t} : position'[u] = position[u] /\ stopped'[u] = stopped[u]
      /\ stopped'[t] \in {stopped[t], DayOf(clock)} /\ position'[t] \in {position[t], None}
      /\ position' \in [Tickers -> None..DayOf(LastTime)]
      /\ stopped' \in [Tickers -> None..DayOf(LastTime)]
  BY <1>2, <1>5 DEF None
<1>7. \A u \in Tickers : entry'[u].at <= clock /\ stopped'[u] <= DayOf(clock)
  BY <1>2, <1>5, <1>6
<1>8. /\ InPosition' \subseteq InPosition /\ InPosition \ {t} \subseteq InPosition'
      /\ AtWork' = AtWork
  BY <1>2, <1>6 DEF InPosition, AtWork
<1>9. EntriesAreSingle'
  <2>1. \A u \in AtWork : u # t /\ u \in Tickers BY <1>4 DEF AtWork
  <2>2. \A u \in AtWork' : stopped'[u] < DayOf(entry[u].at)'
    BY <1>1, <1>2, <1>6, <1>8, <2>1 DEF EntriesAreSingle
  <2> QED BY <1>1, <1>8, <2>2 DEF EntriesAreSingle
<1> QED BY <1>2, <1>3, <1>5, <1>6, <1>7, <1>8, <1>9, MonitorStep

\* A resting entry that the monitor meets is no older than its decision time; it ends,
\* rests on from that time, or becomes a position of that day.
LEMMA ProcessMoves ==
    ASSUME ConstantsOK, IInv, NEW j \in Jobs, NEW t \in Tickers, Process(j, t)
    PROVE  /\ cycle[j].step = "process" /\ t \in AtWork /\ t \notin InPosition
           /\ cycle[j].at \in 0..LastTime /\ cycle[j].at <= clock
           /\ DayOf(cycle[j].at) \in 0..DayOf(clock)
           /\ DayOf(cycle[j].at) \in 0..DayOf(LastTime)
           /\ stopped[t] < DayOf(cycle[j].at)
           /\ \/ entry' = [entry EXCEPT ![t] = NoEntry] /\ UNCHANGED position
              \/ entry' = [entry EXCEPT ![t].at = cycle[j].at] /\ UNCHANGED position
              \/ /\ entry' = [entry EXCEPT ![t] = NoEntry]
                 /\ position' = [position EXCEPT ![t] = DayOf(cycle[j].at)]
<1>1. GatedTypeOK /\ JobsAreCurrent /\ EntriesAreSingle BY DEF IInv
<1>2. /\ cycle[j].step = "process" /\ t \in cycle[j].todo
      /\ \/ entry' = [entry EXCEPT ![t] = NoEntry] /\ UNCHANGED position
         \/ entry' = [entry EXCEPT ![t].at = cycle[j].at] /\ UNCHANGED position
         \/ /\ entry' = [entry EXCEPT ![t] = NoEntry]
            /\ position' = [position EXCEPT ![t] = DayOf(cycle[j].at)]
  BY DEF Process
<1>3. t \in AtWork /\ entry[t].at <= cycle[j].at /\ cycle[j].at <= clock
  BY <1>1, <1>2 DEF JobsAreCurrent, JobIsCurrent
<1>4. cycle[j].at \in 0..LastTime BY <1>1 DEF GatedTypeOK
<1>5. clock \in Nat /\ entry[t].at \in Nat /\ stopped[t] \in Int /\ LastTime \in Nat
  BY Accounts DEF ConstantsOK
<1>6. /\ cycle[j].at \in Nat /\ cycle[j].at \in 0..clock
      /\ entry[t].at \in 0..cycle[j].at
  BY <1>3, <1>4, <1>5
<1>7. /\ DayOf(cycle[j].at) \in 0..DayOf(clock) /\ DayOf(cycle[j].at) \in 0..DayOf(LastTime)
      /\ DayOf(entry[t].at) \in 0..DayOf(cycle[j].at) /\ DayOf(cycle[j].at) \in Nat
  BY <1>4, <1>5, <1>6, Days
<1>8. t \notin InPosition /\ stopped[t] < DayOf(entry[t].at)
  BY <1>1, <1>3 DEF EntriesAreSingle
<1> QED BY <1>2, <1>3, <1>4, <1>5, <1>7, <1>8

LEMMA ProcessStep ==
    ASSUME ConstantsOK, IInv, NEW j \in Jobs, NEW t \in Tickers, Process(j, t)
    PROVE  IInv'
<1> DEFINE at == cycle[j].at
<1>1. GatedTypeOK /\ JobsAreCurrent /\ EntriesAreSingle BY DEF IInv
<1>2. /\ Done(j, t) /\ UNCHANGED <<clock, researched, stopped, used, repeats, kills>>
  BY DEF Process
<1>3. /\ cycle[j].step = "process" /\ t \in AtWork /\ t \notin InPosition
      /\ at \in 0..LastTime /\ at <= clock
      /\ DayOf(at) \in 0..DayOf(LastTime) /\ stopped[t] < DayOf(at)
      /\ \/ entry' = [entry EXCEPT ![t] = NoEntry] /\ UNCHANGED position
         \/ entry' = [entry EXCEPT ![t].at = at] /\ UNCHANGED position
         \/ /\ entry' = [entry EXCEPT ![t] = NoEntry]
            /\ position' = [position EXCEPT ![t] = DayOf(at)]
  BY ProcessMoves
<1>4. /\ entry \in [Tickers -> EntryType] /\ clock \in Nat
      /\ position \in [Tickers -> None..DayOf(LastTime)]
      /\ stopped \in [Tickers -> None..DayOf(LastTime)]
      /\ \A u \in Tickers : entry[u].at <= clock /\ stopped[u] <= DayOf(clock)
      /\ NoEntry \in EntryType /\ NoEntry.status = "none" /\ NoEntry.at = 0
      /\ DayOf(LastTime) \in Nat
  BY Accounts, Days DEF ConstantsOK
<1> HIDE DEF at
<1>5. /\ \A u \in Tickers \ {t} : entry'[u] = entry[u] /\ position'[u] = position[u]
      /\ entry' \in [Tickers -> EntryType] /\ position' \in [Tickers -> None..DayOf(LastTime)]
      /\ \/ entry'[t].status = "none" /\ entry'[t].at = 0
         \/ /\ entry'[t].status = entry[t].status /\ entry'[t].at = at
            /\ position'[t] = position[t]
  <2>1. CASE entry' = [entry EXCEPT ![t] = NoEntry] /\ UNCHANGED position
    BY <1>4, <2>1
  <2>2. CASE entry' = [entry EXCEPT ![t].at = at] /\ UNCHANGED position
    BY <1>3, <1>4, <2>2 DEF EntryType
  <2>3. CASE /\ entry' = [entry EXCEPT ![t] = NoEntry]
             /\ position' = [position EXCEPT ![t] = DayOf(at)]
    BY <1>3, <1>4, <2>3 DEF None
  <2> QED BY <1>3, <2>1, <2>2, <2>3
<1>6. \A u \in Tickers : entry'[u].at <= clock /\ stopped'[u] <= DayOf(clock)
  BY <1>2, <1>3, <1>4, <1>5
<1>7. \A u \in cycle[j].todo \ {t} : u \in AtWork' /\ entry'[u].at <= cycle[j].at
  <2>1. \A u \in cycle[j].todo : u \in AtWork /\ entry[u].at <= cycle[j].at
    BY <1>1, <1>3 DEF JobsAreCurrent, JobIsCurrent
  <2> QED BY <1>5, <2>1 DEF AtWork
<1>8. EntriesAreSingle'
  <2>1. /\ \A u \in AtWork : stopped[u] < DayOf(entry[u].at) /\ InPosition \cap AtWork = {}
    BY <1>1 DEF EntriesAreSingle
  <2>2. ASSUME NEW u \in AtWork'
        PROVE  u \notin InPosition' /\ stopped'[u] < DayOf(entry'[u].at)
    <3>1. u \in Tickers BY DEF AtWork
    <3>2. CASE u = t
      <4>1. entry'[t].at = at /\ position'[t] = position[t] BY <1>5, <2>2, <3>2 DEF AtWork
      <4> QED BY <1>2, <1>3, <3>2, <4>1 DEF InPosition
    <3>3. CASE u # t
      <4>1. entry'[u] = entry[u] /\ position'[u] = position[u] BY <1>5, <3>1, <3>3
      <4>2. u \in AtWork /\ (u \in InPosition' <=> u \in InPosition)
        BY <2>2, <4>1 DEF AtWork, InPosition
      <4> QED BY <1>2, <2>1, <4>1, <4>2
    <3> QED BY <3>2, <3>3
  <2> QED BY <2>2 DEF EntriesAreSingle, DayOf
<1> QED BY <1>2, <1>3, <1>4, <1>5, <1>6, <1>7, <1>8, MonitorStep

-----------------------------------------------------------------------------
(* The cooldown file *)

\* The worker that writes is alone with the file, and its marks are not older.
LEMMA MarksGrow ==
    ASSUME ConstantsOK, IInv, NEW j \in Jobs, WriteCooldowns(j)
    PROVE  /\ j \in Scopes /\ (j = "catalyst" => gated.step = "off")
           /\ \A k \in Jobs \ {j} : cycle[k].step \notin {"read", "write"}
           /\ researched \in File /\ researched' \in File
           /\ \A k \in Scopes \X Events :
                 /\ researched[k] \in Int /\ researched'[k] >= researched[k]
                 /\ researched'[k] \in Int
                 /\ k[1] = j /\ k[2] \in cycle[j].evidence => researched'[k] = cycle[j].at
                 /\ ~(k[1] = j /\ k[2] \in cycle[j].evidence) =>
                       researched'[k] = researched[k]
<1>1. GatedTypeOK /\ Apart /\ JobsAreCurrent BY DEF IInv
<1>2. /\ cycle[j].step = "write"
      /\ researched' = [k \in DOMAIN researched |->
            IF k[1] = j /\ k[2] \in cycle[j].evidence THEN cycle[j].at
            ELSE cycle[j].file[k]]
  BY DEF WriteCooldowns
<1>3. /\ j \in Scopes /\ (j = "catalyst" => gated.step = "off")
      /\ \A k \in Jobs \ {j} : cycle[k].step \notin {"read", "write"}
  BY <1>1, <1>2 DEF Apart, Jobs, Scopes, gated
<1>4. cycle[j].file = researched /\ \A k \in DOMAIN researched : researched[k] <= cycle[j].at
  BY <1>1, <1>2 DEF JobsAreCurrent, JobIsCurrent
<1>5. researched \in File /\ cycle[j].at \in 0..LastTime BY <1>1 DEF GatedTypeOK
<1>6. /\ DOMAIN researched = Scopes \X Events
      /\ \A k \in Scopes \X Events : researched[k] \in None..LastTime
      /\ LastTime \in Nat
  BY <1>5 DEF File, ConstantsOK
<1>7. ASSUME NEW k \in Scopes \X Events
      PROVE  /\ k[1] = j /\ k[2] \in cycle[j].evidence => researched'[k] = cycle[j].at
             /\ ~(k[1] = j /\ k[2] \in cycle[j].evidence) => researched'[k] = researched[k]
  BY <1>2, <1>4, <1>6
<1>8. ASSUME NEW k \in Scopes \X Events
      PROVE  researched'[k] \in {researched[k], cycle[j].at}
  BY <1>7
<1>9. \A k \in Scopes \X Events :
         /\ researched[k] \in Int /\ researched'[k] >= researched[k]
         /\ researched'[k] \in Int /\ researched'[k] \in None..LastTime
  BY <1>4, <1>5, <1>6, <1>8 DEF None
<1>10. researched' \in File BY <1>2, <1>6, <1>9 DEF File
<1> QED BY <1>3, <1>5, <1>7, <1>9, <1>10

LEMMA WriteCooldownsStep ==
    ASSUME ConstantsOK, IInv, NEW j \in Jobs, WriteCooldowns(j)
    PROVE  IInv'
<1>1. GatedTypeOK /\ Apart /\ Dated /\ JobsAreCurrent /\ UnmarkedIsKilled /\ EntriesAreSingle
  BY DEF IInv
<1> DEFINE new == [cycle[j] EXCEPT !.step = "deep", !.file = <<>>, !.evidence = {}]
<1>2. /\ cycle[j].step = "write" /\ cycle' = [cycle EXCEPT ![j] = new]
      /\ UNCHANGED <<clock, entry, position, stopped, used, repeats, kills>>
  BY <1>1 DEF WriteCooldowns, GatedTypeOK
<1>3. /\ j \in Scopes /\ (j = "catalyst" => gated.step = "off")
      /\ \A k \in Jobs \ {j} : cycle[k].step \notin {"read", "write"}
      /\ researched \in File /\ researched' \in File
  BY MarksGrow
<1>4. \A k \in Scopes \X Events :
         /\ researched[k] \in Int /\ researched'[k] >= researched[k] /\ researched'[k] \in Int
         /\ k[1] = j /\ k[2] \in cycle[j].evidence => researched'[k] = cycle[j].at
         /\ ~(k[1] = j /\ k[2] \in cycle[j].evidence) => researched'[k] = researched[k]
  BY MarksGrow
<1>5. cycle[j] \in Cycles BY <1>1, CycleShape
<1>6. new \in Cycles BY <1>5 DEF Cycles, Steps
<1>7. new.step = "deep" /\ new.at = cycle[j].at /\ new.fresh = cycle[j].fresh
      /\ new.todo = cycle[j].todo
  BY <1>5 DEF Cycles
<1> HIDE DEF new
<1>8. /\ cycle'[j] = new /\ \A k \in Jobs \ {j} : cycle'[k] = cycle[k]
      /\ cycle' \in [Jobs -> Cycles]
  BY <1>1, <1>2, <1>6, CycleSet
<1>9. DOMAIN researched = Scopes \X Events /\ DOMAIN researched' = Scopes \X Events
  BY <1>3 DEF File
<1>10. /\ cycle[j].at <= clock /\ clock \in Nat /\ cycle[j].at \in 0..LastTime
       /\ LastTime \in Nat
  BY <1>1 DEF JobsAreCurrent, JobIsCurrent, GatedTypeOK, ConstantsOK
<1>11. InPosition' = InPosition /\ AtWork' = AtWork BY <1>2 DEF InPosition, AtWork
<1>12. GatedTypeOK' BY <1>1, <1>2, <1>3, <1>8 DEF GatedTypeOK, Cycles
<1>13. Apart' BY <1>1, <1>2, <1>3, <1>7, <1>8 DEF Apart, gated, Jobs, Scopes
<1>14. Dated' BY <1>1, <1>2, <1>4, <1>9, <1>10 DEF Dated
<1>15. JobsAreCurrent'
  <2>1. JobIsCurrent(cycle[j])' BY <1>2, <1>7, <1>8, <1>10 DEF JobIsCurrent
  <2>2. ASSUME NEW k \in Jobs \ {j} PROVE JobIsCurrent(cycle[k])'
    BY <1>1, <1>2, <1>3, <1>8, <1>11 DEF JobsAreCurrent, JobIsCurrent
  <2>3. CASE j = "catalyst"
    <3>1. gated' = gated BY <1>8, <2>3 DEF gated, Jobs
    <3> QED BY <1>3, <2>1, <2>2, <2>3, <3>1 DEF JobsAreCurrent, GatedIsCurrent, Working
  <2>4. CASE j = "ai_gated"
    <3>1. gated = cycle[j] /\ gated' = new BY <1>8, <2>4 DEF gated
    <3>2. /\ \A k \in DOMAIN researched : researched[k] <= cycle[j].at
          /\ \A e \in cycle[j].fresh :
                \/ researched[<<"ai_gated", e>>] = None
                \/ cycle[j].at - researched[<<"ai_gated", e>>] >= Cooldown
          /\ cycle[j].evidence \cap cycle[j].fresh = {}
          /\ \A t \in Tickers : stopped[t] <= DayOf(cycle[j].at)
          /\ \A t \in cycle[j].todo : t \notin InPosition \cup AtWork
      BY <1>1, <1>2, <3>1 DEF JobsAreCurrent, GatedIsCurrent, Working
    <3>3. \A k \in DOMAIN researched' : researched'[k] <= new.at
      BY <1>4, <1>7, <1>9, <1>10, <3>2
    <3>4. ASSUME NEW e \in new.fresh
          PROVE  \/ researched'[<<"ai_gated", e>>] = None
                 \/ new.at - researched'[<<"ai_gated", e>>] >= Cooldown
      <4>1. e \in Events /\ e \notin cycle[j].evidence
        BY <1>5, <1>7, <3>2 DEF Cycles
      <4>2. <<"ai_gated", e>> \in Scopes \X Events BY <4>1 DEF Scopes
      <4>3. researched'[<<"ai_gated", e>>] = researched[<<"ai_gated", e>>]
        BY <1>4, <4>1, <4>2
      <4> QED BY <1>7, <3>2, <4>3
    <3>5. GatedIsCurrent(gated)'
      BY <1>2, <1>7, <1>11, <3>1, <3>2, <3>3, <3>4 DEF GatedIsCurrent
    <3> QED BY <2>1, <2>2, <3>5 DEF JobsAreCurrent
  <2> QED BY <1>3, <2>3, <2>4 DEF Scopes
<1>16. UnmarkedIsKilled'
  <2>1. ASSUME NEW e \in Events, Unmarked(e)' PROVE Unmarked(e) /\ ~Pending(e)
    <3>1. <<"ai_gated", e>> \in Scopes \X Events BY DEF Scopes
    <3>2. used'[e] = used[e] /\ used[e] \in Int
      BY <1>1, <1>2, <1>10 DEF GatedTypeOK, None
    <3>3. Unmarked(e) BY <1>4, <2>1, <3>1, <3>2 DEF Unmarked
    <3>4. ASSUME Pending(e) PROVE FALSE
      <4>1. j = "ai_gated" /\ e \in cycle[j].evidence /\ cycle[j].at = used[e]
        BY <1>3, <3>4 DEF Pending, gated, Scopes
      <4>2. researched'[<<"ai_gated", e>>] = used[e] BY <1>4, <3>1, <4>1
      <4> QED BY <2>1, <3>2, <4>2 DEF Unmarked
    <3> QED BY <3>3, <3>4
  <2> SUFFICES ASSUME NEW e \in Events
               PROVE  repeats'[e] + (IF Unmarked(e)' /\ ~Pending(e)' THEN 1 ELSE 0) <= kills'
    BY DEF UnmarkedIsKilled
  <2>2. repeats[e] + (IF Unmarked(e) /\ ~Pending(e) THEN 1 ELSE 0) <= kills
    BY <1>1 DEF UnmarkedIsKilled
  <2>3. repeats[e] \in Nat /\ kills \in Nat /\ repeats'[e] = repeats[e] /\ kills' = kills
    BY <1>1, <1>2 DEF GatedTypeOK
  <2> QED BY ONLY <2>1, <2>2, <2>3, e \in Events
<1>17. EntriesAreSingle' BY <1>1, <1>2, <1>11 DEF EntriesAreSingle
<1> QED BY <1>12, <1>13, <1>14, <1>15, <1>16, <1>17 DEF IInv

-----------------------------------------------------------------------------
(* The entries of the gated cycle *)

\* A step from the research of the gated cycle to its file: the other workers that could
\* see the accounts are off.
LEMMA EntryStep ==
    ASSUME ConstantsOK, IInv, gated.step \in Working,
           NEW new \in Cycles, cycle' = [cycle EXCEPT !["ai_gated"] = new],
           UNCHANGED <<clock, researched, stopped, kills>>,
           new.step \in {"submit", "read"}, new.at = gated.at,
           entry' \in [Tickers -> EntryType], position' \in [Tickers -> None..DayOf(LastTime)],
           used' \in [Events -> None..LastTime], repeats' \in [Events -> Nat],
           \A u \in Tickers : entry'[u].at <= clock,
           GatedIsCurrent(gated)', UnmarkedIsKilled', EntriesAreSingle'
    PROVE  IInv'
<1>1. GatedTypeOK /\ Apart /\ Dated /\ JobsAreCurrent BY DEF IInv
<1>2. /\ "ai_gated" \in Jobs /\ cycle'["ai_gated"] = new
      /\ \A k \in Jobs \ {"ai_gated"} : cycle'[k] = cycle[k]
      /\ cycle' \in [Jobs -> Cycles]
  <2>1. "ai_gated" \in Jobs BY DEF Jobs
  <2> QED BY <1>1, <2>1, CycleSet
<1>3. \A k \in Jobs \ {"ai_gated"} : cycle[k].step = "off"
  BY <1>1 DEF Apart, Jobs, Working
<1>4. GatedTypeOK' BY <1>1, <1>2 DEF GatedTypeOK, Cycles, EntryType
<1>5. Apart' BY <1>2, <1>3 DEF Apart, Jobs
<1>6. Dated' BY <1>1 DEF Dated
<1>7. JobsAreCurrent'
  <2>1. gated.at <= clock /\ \A k \in DOMAIN researched : researched[k] <= gated.at
    BY <1>1, <1>2 DEF JobsAreCurrent, JobIsCurrent, GatedIsCurrent, gated
  <2>2. JobIsCurrent(cycle["ai_gated"])' BY <1>2, <2>1 DEF JobIsCurrent
  <2>3. ASSUME NEW k \in Jobs \ {"ai_gated"} PROVE JobIsCurrent(cycle[k])'
    BY <1>1, <1>2, <1>3 DEF JobsAreCurrent, JobIsCurrent
  <2> QED BY <2>2, <2>3 DEF JobsAreCurrent
<1> QED BY <1>4, <1>5, <1>6, <1>7 DEF IInv

\* An event that justifies an entry inside its cooldown was not marked by the entry
\* before it, and is on its way to the file now.
LEMMA CreateEntryStep ==
    ASSUME ConstantsOK, IInv, NEW t \in Tickers, CreateEntry(t)
    PROVE  IInv'
<1> DEFINE at == gated.at
           fresh == {e \in gated.fresh : About[e] = t}
<1>1. GatedTypeOK /\ Dated /\ JobsAreCurrent /\ UnmarkedIsKilled /\ EntriesAreSingle
  BY DEF IInv
<1>2. /\ gated.step = "deep" /\ t \in gated.todo /\ ~gated.research_only
      /\ stopped[t] # DayOf(at)
      /\ used' = [e \in Events |-> IF e \in fresh THEN at ELSE used[e]]
      /\ repeats' = [e \in Events |->
            IF e \in fresh /\ used[e] # None /\ at - used[e] < Cooldown
            THEN repeats[e] + 1 ELSE repeats[e]]
      /\ entry' = [entry EXCEPT ![t] = [status |-> "created", at |-> clock]]
      /\ UNCHANGED <<clock, researched, position, stopped, kills>>
  BY DEF CreateEntry, Deep, gated, StoppedToday
<1>3. "ai_gated" \in Jobs /\ gated \in Cycles BY <1>1, CycleShape DEF Jobs, gated
<1>4. PICK primary \in SUBSET Primary(t) :
         cycle' = [cycle EXCEPT !["ai_gated"] =
            [gated EXCEPT !.step = "submit", !.item = t, !.evidence = Evidence(t, primary)]]
  BY <1>1, <1>3 DEF CreateEntry, GatedTypeOK, gated
<1> DEFINE evidence == Evidence(t, primary)
           new == [gated EXCEPT !.step = "submit", !.item = t, !.evidence = evidence]
<1>5. /\ evidence \in SUBSET Events /\ \A e \in evidence : About[e] = t
      /\ fresh \subseteq evidence
  BY <1>3 DEF Evidence, Primary, Cycles, gated
<1>6. \A e \in fresh : e \in gated.fresh /\ e \in Events BY <1>3 DEF Cycles
<1> HIDE DEF evidence, fresh
<1>7. new \in Cycles BY <1>3, <1>5 DEF Cycles, Steps
<1>8. /\ new.step = "submit" /\ new.item = t /\ new.evidence = evidence /\ new.at = at
      /\ new.fresh = gated.fresh /\ new.todo = gated.todo
      /\ new.research_only = gated.research_only
  BY <1>3 DEF Cycles
<1>9. cycle' = [cycle EXCEPT !["ai_gated"] = new] BY <1>4 DEF evidence
<1> HIDE DEF new
<1>10. gated' = new BY <1>1, <1>3, <1>9 DEF gated, GatedTypeOK
<1>11. /\ \A k \in DOMAIN researched : researched[k] <= at
       /\ \A e \in gated.fresh : \/ researched[<<"ai_gated", e>>] = None
                                 \/ at - researched[<<"ai_gated", e>>] >= Cooldown
       /\ \A u \in Tickers : stopped[u] <= DayOf(at)
       /\ \A u \in gated.todo : u \notin InPosition \cup AtWork
       /\ at <= clock /\ at \in 0..LastTime
  BY <1>1, <1>2, <1>3
     DEF JobsAreCurrent, GatedIsCurrent, JobIsCurrent, Working, gated, Cycles
<1>12. /\ clock \in 0..LastTime /\ entry \in [Tickers -> EntryType]
       /\ position \in [Tickers -> None..DayOf(LastTime)]
       /\ \A u \in Tickers : entry[u].at <= clock /\ stopped[u] \in Int
       /\ LastTime \in Nat /\ Cooldown \in Nat
  BY Accounts DEF ConstantsOK
<1>13. /\ entry' \in [Tickers -> EntryType]
       /\ entry'[t] = [status |-> "created", at |-> clock]
       /\ \A u \in Tickers \ {t} : entry'[u] = entry[u]
  <2>1. [status |-> "created", at |-> clock] \in EntryType BY <1>12 DEF EntryType
  <2> QED BY <1>2, <1>12, <2>1
<1>14. \A u \in Tickers : entry'[u].at <= clock BY <1>12, <1>13
<1>15. InPosition' = InPosition /\ AtWork' = AtWork \cup {t}
  BY <1>2, <1>13 DEF InPosition, AtWork
<1>16. GatedIsCurrent(gated)'
  BY <1>2, <1>5, <1>8, <1>10, <1>11, <1>15 DEF GatedIsCurrent
<1>17. EntriesAreSingle'
  <2>1. stopped[t] < DayOf(clock)
    <3>1. DayOf(at) <= DayOf(clock) /\ DayOf(at) \in Nat /\ DayOf(clock) \in Nat
      BY <1>11, <1>12, Days
    <3> QED BY <1>2, <1>11, <1>12, <3>1
  <2>2. t \notin InPosition BY <1>2, <1>11
  <2>3. ASSUME NEW u \in AtWork' PROVE stopped'[u] < DayOf(entry'[u].at)
    <3>1. CASE u = t BY <1>2, <1>13, <2>1, <3>1
    <3>2. CASE u # t
      BY <1>1, <1>2, <1>13, <1>15, <2>3, <3>2 DEF EntriesAreSingle, AtWork
    <3> QED BY <3>1, <3>2
  <2> QED BY <1>1, <1>15, <2>2, <2>3 DEF EntriesAreSingle, DayOf
<1>18. /\ used \in [Events -> None..LastTime] /\ repeats \in [Events -> Nat]
       /\ kills \in Nat /\ researched \in File
  BY <1>1 DEF GatedTypeOK
<1>19. UnmarkedIsKilled'
  <2> SUFFICES ASSUME NEW e \in Events
               PROVE  repeats'[e] + (IF Unmarked(e)' /\ ~Pending(e)' THEN 1 ELSE 0) <= kills'
    BY DEF UnmarkedIsKilled
  <2>1. repeats[e] + (IF Unmarked(e) /\ ~Pending(e) THEN 1 ELSE 0) <= kills
    BY <1>1 DEF UnmarkedIsKilled
  <2>2. ~Pending(e) BY <1>2 DEF Pending
  <2>3. repeats[e] \in Nat /\ kills' = kills /\ used[e] \in None..LastTime
    BY <1>2, <1>18
  <2>4. CASE e \notin fresh
    <3>1. used'[e] = used[e] /\ repeats'[e] = repeats[e] BY <1>2, <2>4
    <3>2. Unmarked(e)' <=> Unmarked(e) BY <1>2, <3>1 DEF Unmarked
    <3> QED BY ONLY <1>18, <2>1, <2>2, <2>3, <3>1, <3>2
  <2>5. CASE e \in fresh
    <3>1. used'[e] = at BY <1>2, <2>5
    <3>2. Pending(e)' BY <1>5, <1>8, <1>10, <2>5, <3>1 DEF Pending
    <3>3. CASE repeats'[e] = repeats[e]
      BY ONLY <1>18, <2>1, <2>3, <3>2, <3>3
    <3>4. CASE used[e] # None /\ at - used[e] < Cooldown /\ repeats'[e] = repeats[e] + 1
      <4>1. <<"ai_gated", e>> \in Scopes \X Events BY DEF Scopes
      <4>2. researched[<<"ai_gated", e>>] \in None..LastTime BY <1>18, <4>1 DEF File
      <4>3. \/ researched[<<"ai_gated", e>>] = None
            \/ at - researched[<<"ai_gated", e>>] >= Cooldown
        BY <1>6, <1>11, <2>5
      <4>4. researched[<<"ai_gated", e>>] < used[e]
        BY <1>11, <1>12, <2>3, <3>4, <4>2, <4>3 DEF None
      <4>5. Unmarked(e) BY <3>4, <4>4 DEF Unmarked
      <4> QED BY ONLY <1>18, <2>1, <2>2, <2>3, <3>2, <3>4, <4>5
    <3> QED BY <1>2, <2>5, <3>3, <3>4
  <2> QED BY <2>4, <2>5
<1>20. used' \in [Events -> None..LastTime] /\ repeats' \in [Events -> Nat]
  <2>1. at \in None..LastTime BY <1>11, <1>12 DEF None
  <2> QED BY <1>2, <1>18, <2>1
<1> QED
  <2>1. gated.step \in Working BY <1>2 DEF Working
  <2> QED
    BY <1>2, <1>7, <1>8, <1>9, <1>12, <1>13, <1>14, <1>16, <1>17, <1>19, <1>20, <2>1,
       EntryStep

\* The order of an entry ends, rests, or becomes a position of the day it was created.
LEMMA SubmitMoves ==
    ASSUME ConstantsOK, IInv, SubmitEntry
    PROVE  LET t == gated.item
           IN /\ gated.step = "submit" /\ ~gated.research_only
              /\ t \in AtWork /\ t \notin InPosition /\ t \in Tickers
              /\ DayOf(entry[t].at) \in 0..DayOf(LastTime) /\ stopped[t] < DayOf(entry[t].at)
              /\ \/ entry' = [entry EXCEPT ![t] = NoEntry] /\ UNCHANGED position
                 \/ entry' = [entry EXCEPT ![t].status = "open"] /\ UNCHANGED position
                 \/ /\ entry' = [entry EXCEPT ![t] = NoEntry]
                    /\ position' = [position EXCEPT ![t] = DayOf(entry[t].at)]
              /\ ToMark("ai_gated", t, gated.evidence, gated.at)
              /\ UNCHANGED <<clock, researched, stopped, used, repeats, kills>>
<1> DEFINE t == gated.item
<1>1. GatedTypeOK /\ JobsAreCurrent /\ EntriesAreSingle BY DEF IInv
<1>2. /\ gated.step = "submit"
      /\ \/ entry' = [entry EXCEPT ![t] = NoEntry] /\ UNCHANGED position
         \/ entry' = [entry EXCEPT ![t].status = "open"] /\ UNCHANGED position
         \/ /\ entry' = [entry EXCEPT ![t] = NoEntry]
            /\ position' = [position EXCEPT ![t] = DayOf(entry[t].at)]
      /\ ToMark("ai_gated", t, gated.evidence, gated.at)
      /\ UNCHANGED <<clock, researched, stopped, used, repeats, kills>>
  BY DEF SubmitEntry, gated
<1>3. ~gated.research_only /\ t \in AtWork
  BY <1>1, <1>2 DEF JobsAreCurrent, GatedIsCurrent, Working
<1>4. t \in Tickers BY <1>3 DEF AtWork
<1>5. t \notin InPosition /\ stopped[t] < DayOf(entry[t].at) BY <1>1, <1>3 DEF EntriesAreSingle
<1>6. DayOf(entry[t].at) \in 0..DayOf(LastTime)
  <2>1. entry[t].at \in 0..LastTime BY <1>4, Accounts
  <2> QED BY <2>1, Days DEF ConstantsOK
<1> QED BY <1>2, <1>3, <1>4, <1>5, <1>6

LEMMA SubmitStep ==
    ASSUME ConstantsOK, IInv, SubmitEntry
    PROVE  IInv'
<1> DEFINE t == gated.item
<1>1. GatedTypeOK /\ Dated /\ JobsAreCurrent /\ UnmarkedIsKilled /\ EntriesAreSingle
  BY DEF IInv
<1>2. /\ gated.step = "submit" /\ ~gated.research_only
      /\ t \in AtWork /\ t \notin InPosition /\ t \in Tickers
      /\ DayOf(entry[t].at) \in 0..DayOf(LastTime) /\ stopped[t] < DayOf(entry[t].at)
      /\ \/ entry' = [entry EXCEPT ![t] = NoEntry] /\ UNCHANGED position
         \/ entry' = [entry EXCEPT ![t].status = "open"] /\ UNCHANGED position
         \/ /\ entry' = [entry EXCEPT ![t] = NoEntry]
            /\ position' = [position EXCEPT ![t] = DayOf(entry[t].at)]
      /\ ToMark("ai_gated", t, gated.evidence, gated.at)
      /\ UNCHANGED <<clock, researched, stopped, used, repeats, kills>>
  BY SubmitMoves
<1>3. "ai_gated" \in Jobs /\ gated \in Cycles BY <1>1, CycleShape DEF Jobs, gated
<1>4. gated.at \in 0..LastTime /\ gated.evidence \in SUBSET Events BY <1>3 DEF Cycles
<1>5. PICK item \in Tickers, at \in 0..LastTime, evidence \in SUBSET Events :
         item = gated.item /\ at = gated.at /\ evidence = gated.evidence
  BY <1>2, <1>4
<1>6. PICK new \in Cycles : /\ cycle' = [cycle EXCEPT !["ai_gated"] = new]
                            /\ Marks(gated, new, item, evidence, at)
  <2>1. ToMark("ai_gated", item, evidence, at) BY <1>2, <1>5
  <2>2. "ai_gated" = "catalyst" => cycle["ai_gated"].done < DeepLimit OBVIOUS
  <2>3. PICK new \in Cycles : /\ cycle' = [cycle EXCEPT !["ai_gated"] = new]
                              /\ Marks(cycle["ai_gated"], new, item, evidence, at)
    BY ONLY <1>1, <1>3, <2>1, <2>2, ConstantsOK, item \in Tickers, at \in 0..LastTime,
            evidence \in SUBSET Events, ToMarkMoves
  <2> QED BY <2>3 DEF gated
<1>7. /\ new.step = "read" /\ new.at = gated.at /\ new.todo = gated.todo \ {t}
      /\ \A e \in new.fresh : e \in gated.fresh /\ About[e] # t
      /\ new.evidence = gated.evidence
  BY <1>2, <1>5, <1>6 DEF Marks
<1>8. gated' = new BY <1>1, <1>3, <1>6 DEF gated, GatedTypeOK
<1>9. /\ entry \in [Tickers -> EntryType] /\ position \in [Tickers -> None..DayOf(LastTime)]
      /\ \A u \in Tickers : entry[u].at <= clock
      /\ NoEntry \in EntryType /\ NoEntry.status = "none" /\ NoEntry.at = 0
      /\ clock \in Nat /\ DayOf(LastTime) \in Nat
  BY Accounts, Days DEF ConstantsOK
<1> HIDE DEF t
<1>10. /\ \A u \in Tickers \ {t} : entry'[u] = entry[u] /\ position'[u] = position[u]
       /\ entry' \in [Tickers -> EntryType] /\ position' \in [Tickers -> None..DayOf(LastTime)]
       /\ \/ entry'[t].status = "none" /\ entry'[t].at = 0
          \/ entry'[t].at = entry[t].at /\ position'[t] = position[t]
  <2>1. CASE entry' = [entry EXCEPT ![t] = NoEntry] /\ UNCHANGED position
    BY <1>2, <1>9, <2>1
  <2>2. CASE entry' = [entry EXCEPT ![t].status = "open"] /\ UNCHANGED position
    BY <1>2, <1>9, <2>2 DEF EntryType
  <2>3. CASE /\ entry' = [entry EXCEPT ![t] = NoEntry]
             /\ position' = [position EXCEPT ![t] = DayOf(entry[t].at)]
    BY <1>2, <1>9, <2>3 DEF None
  <2> QED BY <1>2, <2>1, <2>2, <2>3
<1>11. \A u \in Tickers : entry'[u].at <= clock BY <1>9, <1>10
<1>12. GatedIsCurrent(gated)'
  <2>1. /\ \A k \in DOMAIN researched : researched[k] <= gated.at
        /\ \A e \in gated.fresh : \/ researched[<<"ai_gated", e>>] = None
                                  \/ gated.at - researched[<<"ai_gated", e>>] >= Cooldown
        /\ \A e \in gated.evidence : About[e] = t
        /\ \A u \in Tickers : stopped[u] <= DayOf(gated.at)
        /\ \A u \in gated.todo : u = t \/ u \notin InPosition \cup AtWork
    BY <1>1, <1>2 DEF JobsAreCurrent, GatedIsCurrent, Working, t
  <2>2. new.evidence \cap new.fresh = {} BY <1>7, <2>1
  <2>3. ASSUME NEW u \in new.todo PROVE u \notin (InPosition \cup AtWork)'
    <3>1. u \in Tickers \ {t} /\ u \notin InPosition \cup AtWork
      BY <1>3, <1>7, <2>1 DEF Cycles
    <3>2. entry'[u] = entry[u] /\ position'[u] = position[u] BY <1>10, <3>1
    <3> QED BY <3>1, <3>2 DEF InPosition, AtWork
  <2> QED BY <1>2, <1>7, <1>8, <2>1, <2>2, <2>3 DEF GatedIsCurrent
<1>13. EntriesAreSingle'
  <2>1. ASSUME NEW u \in AtWork'
        PROVE  u \notin InPosition' /\ stopped'[u] < DayOf(entry'[u].at)
    <3>1. u \in Tickers BY DEF AtWork
    <3>2. CASE u = t
      <4>1. entry'[t].at = entry[t].at /\ position'[t] = position[t]
        BY <1>10, <2>1, <3>2 DEF AtWork
      <4> QED BY <1>2, <3>2, <4>1 DEF InPosition
    <3>3. CASE u # t
      <4>1. entry'[u] = entry[u] /\ position'[u] = position[u] BY <1>10, <3>1, <3>3
      <4>2. u \in AtWork /\ (u \in InPosition' <=> u \in InPosition)
        BY <2>1, <4>1 DEF AtWork, InPosition
      <4> QED BY <1>1, <1>2, <4>1, <4>2 DEF EntriesAreSingle
    <3> QED BY <3>2, <3>3
  <2> QED BY <2>1 DEF EntriesAreSingle, DayOf
<1>14. UnmarkedIsKilled'
  <2>1. \A e \in Events : Unmarked(e)' <=> Unmarked(e) BY <1>2 DEF Unmarked
  <2>2. \A e \in Events : Pending(e)' <=> Pending(e) BY <1>2, <1>7, <1>8 DEF Pending
  <2> QED BY <1>1, <1>2, <2>1, <2>2 DEF UnmarkedIsKilled
<1>15. used' \in [Events -> None..LastTime] /\ repeats' \in [Events -> Nat]
  BY <1>1, <1>2 DEF GatedTypeOK
<1> QED
  <2>1. gated.step \in Working /\ new.step \in {"submit", "read"} BY <1>2, <1>7 DEF Working
  <2> QED
    BY <1>2, <1>6, <1>7, <1>10, <1>11, <1>12, <1>13, <1>14, <1>15, <2>1, EntryStep

-----------------------------------------------------------------------------
(* The specification *)

LEMMA StutterStep == IInv /\ UNCHANGED gatedVars => IInv'
<1> SUFFICES ASSUME IInv, UNCHANGED gatedVars PROVE IInv'
    OBVIOUS
<1> USE DEF gatedVars
<1>1. GatedTypeOK' BY DEF IInv, GatedTypeOK
<1>2. Apart' BY DEF IInv, Apart, gated
<1>3. Dated' BY DEF IInv, Dated
<1>4. JobsAreCurrent'
  BY DEF IInv, JobsAreCurrent, JobIsCurrent, GatedIsCurrent, gated, InPosition, AtWork
<1>5. UnmarkedIsKilled' BY DEF IInv, UnmarkedIsKilled, Unmarked, Pending, gated
<1>6. EntriesAreSingle' BY DEF IInv, EntriesAreSingle, InPosition, AtWork
<1> QED BY <1>1, <1>2, <1>3, <1>4, <1>5, <1>6 DEF IInv

LEMMA StepIInv == ConstantsOK /\ IInv /\ [GatedNext]_gatedVars => IInv'
<1> SUFFICES ASSUME ConstantsOK, IInv, [GatedNext]_gatedVars PROVE IInv'
    OBVIOUS
<1>1. CASE UNCHANGED gatedVars BY <1>1, StutterStep
<1>2. CASE Advance BY <1>2, TickStep
<1>3. CASE SubmitEntry BY <1>3, SubmitStep
<1>4. CASE Discover BY <1>4, DiscoverStep
<1>5. CASE \E found \in SUBSET Events : Search(found) BY <1>5, SearchStep
<1>6. CASE \E t \in Tickers : NoTrade(t) BY <1>6, NoTradeStep
<1>7. CASE \E t \in Tickers : CreateEntry(t) BY <1>7, CreateEntryStep
<1>8. CASE \E t \in Tickers : \E found \in SUBSET Events : Analyze(t, found)
  BY <1>8, AnalyzeStep
<1>9. CASE \E j \in Jobs : Start(j) BY <1>9, StartStep
<1>10. CASE \E j \in Jobs : Kill(j) BY <1>10, KillStep
<1>11. CASE \E j \in Jobs : CycleEnds(j) BY <1>11, CycleEndsStep
<1>12. CASE \E j \in Jobs : ProcessEnd(j) BY <1>12, ProcessEndStep
<1>13. CASE \E j \in Jobs : ExitEnd(j) BY <1>13, ExitEndStep
<1>14. CASE \E j \in Jobs : ReadCooldowns(j) BY <1>14, ReadCooldownsStep
<1>15. CASE \E j \in Jobs : WriteCooldowns(j) BY <1>15, WriteCooldownsStep
<1>16. CASE \E j \in Jobs : \E t \in Tickers : Process(j, t) BY <1>16, ProcessStep
<1>17. CASE \E j \in Jobs : \E t \in Tickers : Exit(j, t) BY <1>17, ExitStep
<1> QED
  BY <1>1, <1>2, <1>3, <1>4, <1>5, <1>6, <1>7, <1>8, <1>9, <1>10, <1>11, <1>12, <1>13,
     <1>14, <1>15, <1>16, <1>17 DEF GatedNext

\* The inductive invariant: the workers that share the sleeve or the cooldown file are
\* apart, what each has at hand is as it was read, a use that the file does not show is
\* on its way to it or was killed, and an entry is younger than the day of the stop.
THEOREM IInvHolds ==
    ASSUME ConstantsOK
    PROVE  GatedSpec => []IInv
BY InitIInv, StepIInv, PTL DEF GatedSpec

\* evidence_store.mark_researched after _execute: an event justifies a second entry
\* inside its cooldown at most once for each worker that was killed, whatever the two
\* cycles that rewrite the cooldown file are, and however many.
THEOREM EvidenceTradedOnceHolds ==
    ASSUME ConstantsOK
    PROVE  GatedSpec => []EvidenceTradedOnce
<1>1. IInv => EvidenceTradedOnce
  <2> SUFFICES ASSUME IInv, NEW e \in Events PROVE repeats[e] <= kills
    BY DEF EvidenceTradedOnce
  <2>1. repeats[e] + (IF Unmarked(e) /\ ~Pending(e) THEN 1 ELSE 0) <= kills
    BY DEF IInv, UnmarkedIsKilled
  <2>2. repeats[e] \in Nat /\ kills \in Nat BY DEF IInv, GatedTypeOK
  <2> QED BY <2>1, <2>2
<1> QED BY <1>1, IInvHolds, PTL

\* No step of any cycle takes a mark from catalyst_cooldowns.json or makes it older,
\* although each reads the whole file in one step and writes it in another.
THEOREM MarksAreKeptHolds ==
    ASSUME ConstantsOK
    PROVE  GatedSpec => MarksAreKept
<1> DEFINE Kept == \A k \in DOMAIN researched : researched'[k] >= researched[k]
<1>1. IInv /\ [GatedNext]_gatedVars => [Kept]_gatedVars
  <2> SUFFICES ASSUME IInv, GatedNext PROVE Kept
    OBVIOUS
  <2>1. researched \in File BY DEF IInv, GatedTypeOK
  <2>2. /\ DOMAIN researched = Scopes \X Events
        /\ \A k \in DOMAIN researched : researched[k] \in Int
    BY <2>1 DEF File, None, ConstantsOK
  <2>3. CASE \E j \in Jobs : WriteCooldowns(j) BY <2>2, <2>3, MarksGrow
  <2>4. CASE UNCHANGED researched BY <2>2, <2>4
  <2>5. UNCHANGED researched \/ \E j \in Jobs : WriteCooldowns(j)
    BY DEF GatedNext, Advance, SubmitEntry, Discover, Search, NoTrade, CreateEntry, Analyze,
           Start, Kill, CycleEnds, ProcessEnd, ExitEnd, ReadCooldowns, Process, Exit, OnlyCycles
  <2> QED BY <2>3, <2>4, <2>5
<1> QED BY <1>1, IInvHolds, PTL DEF GatedSpec, MarksAreKept

\* _execute and monitor_only: whether a new order fills or one that rested, the position
\* is not opened on the day on which a stop has sold its ticker.
THEOREM NoReentryAfterStopHolds ==
    ASSUME ConstantsOK
    PROVE  GatedSpec => NoReentryAfterStop
<1> DEFINE Barred == \A t \in Tickers :
               position[t] = None /\ position'[t] # None => stopped[t] # position'[t]
<1>1. IInv /\ [GatedNext]_gatedVars => [Barred]_gatedVars
  <2> SUFFICES ASSUME IInv, GatedNext, NEW t \in Tickers,
                      position[t] = None, position'[t] # None
               PROVE  stopped[t] # position'[t]
    OBVIOUS
  <2>1. position \in [Tickers -> None..DayOf(LastTime)] /\ stopped[t] \in Int BY Accounts
  <2>2. CASE SubmitEntry
    <3>1. /\ gated.item \in Tickers /\ stopped[gated.item] < DayOf(entry[gated.item].at)
          /\ DayOf(entry[gated.item].at) \in 0..DayOf(LastTime)
          /\ \/ UNCHANGED position
             \/ position' = [position EXCEPT ![gated.item] = DayOf(entry[gated.item].at)]
      BY <2>2, SubmitMoves
    <3> QED BY <2>1, <3>1
  <2>3. ASSUME NEW j \in Jobs, NEW u \in Tickers, Process(j, u)
        PROVE  stopped[t] # position'[t]
    <3>1. /\ stopped[u] < DayOf(cycle[j].at) /\ DayOf(cycle[j].at) \in 0..DayOf(LastTime)
          /\ \/ UNCHANGED position
             \/ position' = [position EXCEPT ![u] = DayOf(cycle[j].at)]
      BY <2>3, ProcessMoves
    <3> QED BY <2>1, <3>1
  <2>4. ASSUME NEW j \in Jobs, NEW u \in Tickers, Exit(j, u) PROVE FALSE
    <3>1. UNCHANGED position \/ position' = [position EXCEPT ![u] = None] BY <2>4 DEF Exit
    <3> QED BY <2>1, <3>1
  <2>5. \/ UNCHANGED position \/ SubmitEntry
        \/ \E j \in Jobs, u \in Tickers : Process(j, u) \/ Exit(j, u)
    BY DEF GatedNext, Advance, Discover, Search, NoTrade, CreateEntry, Analyze, Start, Kill,
           CycleEnds, ProcessEnd, ExitEnd, ReadCooldowns, WriteCooldowns, OnlyCycles
  <2> QED BY <2>2, <2>3, <2>4, <2>5
<1> QED BY <1>1, IInvHolds, PTL DEF GatedSpec, NoReentryAfterStop
=============================================================================
