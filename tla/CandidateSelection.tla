------------------------- MODULE CandidateSelection -------------------------
(***************************************************************************)
(* From seeds to deep research: which tickers a line spends its model      *)
(* calls on.  The technical lines (scripts/discovery/ai_gated_pipeline.py, *)
(* and ai_instrument_allocator_pipeline.py, which inherits the selection)  *)
(* screen by score and reserve places for reported earnings and for each   *)
(* direction; the catalyst line (catalyst_pipeline.py) merges its seeds    *)
(* with what a model extracts.  A model then ranks what was researched,    *)
(* and anything may stand in its answer.                                   *)
(*                                                                         *)
(* A score is a small number; prices, features and events are left out.    *)
(* Before the ranking a ticker may drop out for any reason: no market      *)
(* context, an invalid instrument, a failed search, a cooldown.            *)
(*                                                                         *)
(* The operators named Fault... are the seeded faults of PROJECT.json.     *)
(***************************************************************************)
EXTENDS Naturals, Sequences, FiniteSets, Functions

CONSTANTS
    Symbols,      \* in the order of the seeds: numbers
    Stranger,     \* a ticker that was not researched
    MaxScore,
    MinScore,     \* minimum_technical_prefilter_score
    MinRank,      \* minimum_model_rank_score
    Top,          \* top_technical_candidates
    Priority,     \* reported_earnings_priority_candidates
    PerDirection, \* minimum_candidates_per_direction
    Limit,        \* max_candidates_before_ranking of the catalyst line
    DeepLimit,    \* top_deep_research_candidates
    BearReserve,  \* minimum_bearish_deep_research_candidates
    Answers       \* bound on the items of a ranking

\* The places of the shipped profiles suffice for every reservation.
ChoiceConstantsOK ==
    /\ Symbols \subseteq Nat /\ IsFiniteSet(Symbols) /\ Stranger \notin Symbols
    /\ MaxScore \in Nat /\ Top \in Nat /\ Priority \in Nat /\ PerDirection \in Nat
    /\ Limit \in Nat /\ DeepLimit \in Nat /\ BearReserve \in Nat
    /\ Priority + 2 * PerDirection <= Top

VARIABLES
    line,       \* "technical" or "catalyst"
    seeds,      \* ticker -> score, direction and reported earnings surprise
    selected,   \* the candidates to research, in order
    researched, \* the tickers that the ranker is shown
    ranked,     \* the validated ranking
    deep,       \* the items to research deeply
    level

choiceVars == <<line, seeds, selected, researched, ranked, deep, level>>

Directions == {"bullish", "bearish"}
Seed == [score : 0..MaxScore, direction : Directions, reported : 0..1]
NoSeed == [score |-> 0, direction |-> "bullish", reported |-> 0]
NoSeeds == [t \in Symbols |-> NoSeed]
Item == [ticker : Symbols \cup {Stranger}, score : 0..MaxScore, direction : Directions]

ChoiceTypeOK ==
    /\ line \in {"technical", "catalyst"}
    /\ seeds \in [Symbols -> Seed]
    /\ selected \in Seq(Symbols) /\ researched \subseteq Symbols
    /\ ranked \in Seq(Item) /\ deep \in Seq(Item)
    /\ level \in {"seeds", "selected", "researched", "ranked", "deep"}

ChoiceInit ==
    /\ line \in {"technical", "catalyst"}
    /\ seeds \in [Symbols -> Seed]
    /\ line = "catalyst" => \A t \in Symbols : seeds[t].reported = 0
    /\ selected = <<>> /\ researched = {} /\ ranked = <<>> /\ deep = <<>>
    /\ level = "seeds"

\* The elements of a set in the order of a stable sort, the highest key first: the one
\* that n - 1 others come before stands in place n.
Before(key, i, j) == key[i] > key[j] \/ (key[i] = key[j] /\ i < j)
Descending(S, key) ==
    [n \in 1..Cardinality(S) |->
        CHOOSE i \in S : Cardinality({j \in S : Before(key, j, i)}) = n - 1]
First(s, n) == SubSeq(s, 1, IF n < Len(s) THEN n ELSE Len(s))

-----------------------------------------------------------------------------
(* _technical_candidates *)

\* _confirmed_reported_earnings: a report that is out by now.
Reported(t) == seeds[t].reported > 0

\* A reported surprise passes whatever the score.
Screened == {t \in Symbols : seeds[t].score >= MinScore \/ Reported(t)}

Candidates(S) == Descending(S, [t \in S |-> seeds[t].score])

-----------------------------------------------------------------------------
(* _select_technical_candidates *)

\* add, below the quota of a group.
Takes(chosen, t, group, quota) ==
    /\ t \notin Range(chosen) /\ Len(chosen) < Top
    /\ Cardinality(group \cap Range(chosen)) < quota

\* What is chosen after the loop over a list.
FillPlaces(chosen, list, group, quota) ==
    LET after[i \in 0..Len(list)] ==
            IF i = 0 THEN chosen
            ELSE IF Takes(after[i - 1], list[i], group, quota)
                 THEN Append(after[i - 1], list[i]) ELSE after[i - 1]
    IN after[Len(list)]

\* The largest surprise first.
Earnings ==
    LET reported == {t \in Screened : Reported(t)}
        surprise == [t \in reported |-> seeds[t].reported * (MaxScore + 1) + seeds[t].score]
    IN FillPlaces(<<>>, First(Descending(reported, surprise), Priority), Screened, Top)

Toward(direction) == {t \in Screened : seeds[t].direction = direction}

\* Seeded fault: the reservation counts whoever was chosen so far.
FaultReserve(direction, chosen) ==
    FillPlaces(chosen, Candidates(Toward(direction)), Screened, PerDirection)

Reserve(direction, chosen) ==
    FillPlaces(chosen, Candidates(Toward(direction)), Toward(direction), PerDirection)

Selection ==
    FillPlaces(Reserve("bearish", Reserve("bullish", Earnings)),
               Candidates(Screened), Screened, Top)

Screen ==
    /\ level = "seeds" /\ line = "technical"
    /\ selected' = Selection
    /\ level' = "selected"
    /\ UNCHANGED <<line, seeds, researched, ranked, deep>>

-----------------------------------------------------------------------------
(* _merge_candidates *)

SeedScore == 1

\* What the model extracts has a score of its own, also for a seed, and may be a ticker
\* without a seed; the market context decides later.
Merged(deterministic, extracted) ==
    LET tickers == deterministic \cup extracted
        score == [t \in tickers |-> IF t \in extracted THEN seeds[t].score ELSE SeedScore]
    IN First(Descending(tickers, score), Limit)

Merge(deterministic, extracted) ==
    /\ level = "seeds" /\ line = "catalyst"
    /\ selected' = Merged(deterministic, extracted)
    /\ level' = "selected"
    /\ UNCHANGED <<line, seeds, researched, ranked, deep>>

-----------------------------------------------------------------------------
(* Research, ranking and deep research *)

ResearchKept(kept) ==
    /\ level = "selected"
    /\ researched' = kept /\ selected' = <<>> /\ seeds' = NoSeeds
    /\ level' = "researched"
    /\ UNCHANGED <<line, ranked, deep>>

\* Of the valid items the first of each ticker, in the order of their scores.
Ranking(answer, valid) ==
    LET kept == {i \in valid : \A j \in valid : j < i => answer[j].ticker # answer[i].ticker}
        order == Descending(kept, [i \in kept |-> answer[i].score])
    IN [n \in DOMAIN order |-> answer[order[n]]]

\* Seeded fault: the tickers of the answer are taken as they are.
FaultValidatedRanking(answer) ==
    Ranking(answer, {i \in DOMAIN answer : answer[i].score >= MinRank})

\* An item below the minimum does not stand in the way of a better one of its ticker.
ValidatedRanking(answer) ==
    Ranking(answer, {i \in DOMAIN answer :
                        answer[i].ticker \in researched /\ answer[i].score >= MinRank})

\* CatalystPipeline._validated_ranking has no minimum, and a bound (max_ranked_candidates),
\* for all that it ranks is researched.
CatalystRanking(answer) ==
    First(Ranking(answer, {i \in DOMAIN answer : answer[i].ticker \in researched}), DeepLimit)

Rank(answer) ==
    /\ level = "researched" /\ researched # {}
    /\ ranked' = IF line = "technical" THEN ValidatedRanking(answer)
                 ELSE CatalystRanking(answer)
    /\ level' = "ranked"
    /\ UNCHANGED <<line, seeds, selected, researched, deep>>

\* _select_deep_research_candidates: the bearish ones first, as many as are reserved.
DeepResearch ==
    LET bearish == {i \in DOMAIN ranked : ranked[i].direction = "bearish"}
        first == {i \in bearish : Cardinality({j \in bearish : j < i}) < BearReserve}
        order == Descending(DOMAIN ranked,
                            [i \in DOMAIN ranked |-> IF i \in first THEN 1 ELSE 0])
    IN First([n \in DOMAIN order |-> ranked[order[n]]], DeepLimit)

Deep ==
    /\ level = "ranked"
    /\ deep' = IF line = "technical" THEN DeepResearch ELSE ranked
    /\ level' = "deep"
    /\ UNCHANGED <<line, seeds, selected, researched, ranked>>

ChoiceNext ==
    \/ Screen
    \/ \E deterministic, extracted \in SUBSET Symbols : Merge(deterministic, extracted)
    \/ \E kept \in SUBSET Range(selected) : ResearchKept(kept)
    \/ \E n \in 0..Answers : \E answer \in [1..n -> Item] : Rank(answer)
    \/ Deep

ChoiceSpec == ChoiceInit /\ [][ChoiceNext]_choiceVars

-----------------------------------------------------------------------------
(* Properties *)

AtMost(n, m) == IF n < m THEN n ELSE m

\* Every place is filled, once, and the reservations do not eat each other: however the
\* reported tickers fall, each direction has its places if it has the candidates, and
\* whoever is left out is outranked by all but the reserved.
PlacesAreFair ==
    level = "selected" /\ line = "technical" =>
        LET chosen == Range(selected) IN
           /\ Len(selected) = AtMost(Top, Cardinality(Screened))
           /\ Cardinality(chosen) = Len(selected)
           /\ \A d \in Directions :
                 Cardinality(chosen \cap Toward(d))
                     >= AtMost(PerDirection, Cardinality(Toward(d)))
           /\ \A out \in Screened \ chosen :
                 Cardinality({t \in chosen : seeds[t].score < seeds[out].score})
                     <= Priority + 2 * PerDirection

\* Whatever the ranker answers, deep research is about tickers that were researched,
\* each once, within the limit, and a bearish one is not crowded out of its places.
DeepIsGrounded ==
    level = "deep" =>
        /\ \A i, j \in DOMAIN deep :
              deep[i].ticker \in researched /\ (deep[i].ticker = deep[j].ticker => i = j)
        /\ Len(deep) <= DeepLimit
        /\ line = "technical" =>
              LET Bears(s) == Cardinality({i \in DOMAIN s : s[i].direction = "bearish"})
              IN Bears(deep) >= AtMost(AtMost(BearReserve, DeepLimit), Bears(ranked))
=============================================================================
