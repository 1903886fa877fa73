-------------------------- MODULE OutcomeLearning --------------------------
(***************************************************************************)
(* What the weighted strategy learns from: CandidateOutcomeLabeler         *)
(* (scripts/evaluation/outcome_labeler.py) keeps the observations that     *)
(* wait for their horizon, and AdaptiveWeightStore                         *)
(* (scripts/strategies/technical_scoring.py) the loss of the features and  *)
(* the number of samples.                                                  *)
(*                                                                         *)
(* The forward cycle first resolves what is due and then registers what it *)
(* has scored.  resolve writes the weights for each observation it labels, *)
(* and the observations that remain once, at the end: a cycle that is      *)
(* killed in between labels some of them again.                            *)
(*                                                                         *)
(* A label, a loss and a price are left out: what counts is which          *)
(* observation was learned from how often, and when it was made.           *)
(*                                                                         *)
(* The operators named Fault... are the seeded faults of PROJECT.json.     *)
(***************************************************************************)
EXTENDS Naturals, FiniteSets

CONSTANTS
    Tickers,
    Sampling,  \* outcome_sampling_minutes
    Horizon,   \* outcome_horizon_minutes
    Delay,     \* max_outcome_label_delay_minutes
    Keep,      \* the seven days after which a pending observation is dropped
    Regular,   \* the minutes of the regular session
    LastTime,  \* bound on the clock
    MaxKills   \* bound on the kills of a cycle

\* An observation is not due in the minute in which it is made: the shipped profile
\* labels after six hours.
LabelConstantsOK ==
    /\ Sampling \in Nat /\ Horizon \in Nat \ {0} /\ Delay \in Nat /\ Keep \in Nat
    /\ LastTime \in Nat /\ MaxKills \in Nat /\ Regular \subseteq Nat

VARIABLES
    minute,
    pending,  \* pending_candidate_outcomes.json
    made,     \* every observation that was registered
    learned,  \* the observations in the weights, with the number of times
    cycle,    \* where the forward cycle stands
    kills

labelVars == <<minute, pending, made, learned, cycle, kills>>

Observations == [ticker : Tickers, at : 0..LastTime]
IdleCycle == [step |-> "idle", at |-> 0, todo |-> {}, remaining |-> {}]

LabelTypeOK ==
    /\ minute \in 0..LastTime
    /\ pending \subseteq made /\ made \subseteq Observations
    /\ learned \in [made -> 0..MaxKills + 1]
    /\ cycle \in [step : {"idle", "resolve", "score"}, at : 0..LastTime,
                  todo : SUBSET Observations, remaining : SUBSET Observations]
    /\ kills \in 0..MaxKills

LabelInit ==
    /\ minute = 0
    /\ pending = {} /\ made = {} /\ learned = [o \in {} |-> 0]
    /\ cycle = IdleCycle /\ kills = 0

Target(o) == o.at + Horizon

-----------------------------------------------------------------------------
(* resolve *)

\* run_once reads pending once.
BeginCycle ==
    /\ cycle.step = "idle" /\ minute \in Regular
    /\ cycle' = [step |-> "resolve", at |-> minute, todo |-> pending, remaining |-> {}]
    /\ UNCHANGED <<minute, pending, made, learned, kills>>

Resolving(o) == cycle.step = "resolve" /\ o \in cycle.todo
Settled(o) == cycle' = [cycle EXCEPT !.todo = @ \ {o}]

\* _record_expired: the quote came too late, or the target is out of session.
ExpireOutcome(o) ==
    /\ Resolving(o)
    /\ Target(o) \notin Regular \/ cycle.at > Target(o) + Delay
    /\ Settled(o)
    /\ UNCHANGED <<minute, pending, made, learned, kills>>

\* No quote of the time after the target yet.
Wait(o) ==
    /\ Resolving(o)
    /\ Target(o) \in Regular
    /\ cycle' = [cycle EXCEPT !.todo = @ \ {o},
                              !.remaining = IF cycle.at - o.at <= Keep THEN @ \cup {o} ELSE @]
    /\ UNCHANGED <<minute, pending, made, learned, kills>>

\* A quote from the time after the target, though perhaps older than the cycle:
\* AdaptiveWeightStore.observe, which writes.
Learn(o) ==
    /\ Resolving(o)
    /\ Target(o) \in Regular /\ cycle.at >= Target(o)
    /\ learned' = [learned EXCEPT ![o] = @ + 1]
    /\ Settled(o)
    /\ UNCHANGED <<minute, pending, made, kills>>

\* Seeded fault: the file keeps what was resolved.
FaultWriteRemaining ==
    /\ cycle.step = "resolve" /\ cycle.todo = {}
    /\ cycle' = [cycle EXCEPT !.step = "score"]
    /\ UNCHANGED <<minute, pending, made, learned, kills>>

WriteRemaining ==
    /\ cycle.step = "resolve" /\ cycle.todo = {}
    /\ pending' = cycle.remaining
    /\ cycle' = [cycle EXCEPT !.step = "score"]
    /\ UNCHANGED <<minute, made, learned, kills>>

-----------------------------------------------------------------------------
(* register *)

Sampled(ticker) == \E o \in pending : o.ticker = ticker /\ cycle.at - o.at < Sampling

Register(ticker) ==
    LET o == [ticker |-> ticker, at |-> cycle.at]
    IN /\ cycle.step = "score"
       /\ ~Sampled(ticker) /\ Target(o) \in Regular
       /\ pending' = pending \cup {o} /\ made' = made \cup {o}
       /\ learned' = [p \in made \cup {o} |-> IF p \in made THEN learned[p] ELSE 0]
       /\ UNCHANGED <<minute, cycle, kills>>

CycleEnds ==
    /\ cycle.step = "score"
    /\ cycle' = IdleCycle
    /\ UNCHANGED <<minute, pending, made, learned, kills>>

-----------------------------------------------------------------------------
(* The environment *)

\* The supervisor kills a cycle that meets its deadline.
Kill ==
    /\ cycle.step # "idle" /\ kills < MaxKills
    /\ cycle' = IdleCycle /\ kills' = kills + 1
    /\ UNCHANGED <<minute, pending, made, learned>>

MinutePasses ==
    /\ minute < LastTime /\ minute' = minute + 1
    /\ UNCHANGED <<pending, made, learned, cycle, kills>>

LabelNext ==
    \/ BeginCycle \/ WriteRemaining \/ CycleEnds \/ Kill \/ MinutePasses
    \/ \E o \in cycle.todo : ExpireOutcome(o) \/ Wait(o) \/ Learn(o)
    \/ \E ticker \in Tickers : Register(ticker)

LabelSpec == LabelInit /\ [][LabelNext]_labelVars

-----------------------------------------------------------------------------
(* Properties *)

\* One observation is one sample: it is learned from again only if a cycle was
\* killed between the weights and the rest of the pending observations, once for
\* each kill.
LearnedOnce == \A o \in made : learned[o] <= 1 + kills
=============================================================================
