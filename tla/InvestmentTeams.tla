-------------------------- MODULE InvestmentTeams --------------------------
(***************************************************************************)
(* The teams of model agents: ApiProvider.generate with its attempts and   *)
(* its usage records (scripts/llm), and the four teams of scripts/agents   *)
(* that put a question to a news, a challenge and a decision agent and     *)
(* guard the answer.  For the allocator also what its stages do with the   *)
(* result: a plan made overnight is updated and revalidated before the     *)
(* open, each time with new evidence only                                  *)
(* (scripts/discovery/ai_instrument_allocator_pipeline.py).                *)
(*                                                                         *)
(* An answer is what the guards tell apart: the ticker it is about, the    *)
(* sources it cites, a veto, an action and whether the action is complete. *)
(* Prompts, schemas, prices and probabilities are left out; an attempt     *)
(* that gets a response costs one unit of tokens.                          *)
(*                                                                         *)
(* External: the model, which answers anything, late or not at all.        *)
(*                                                                         *)
(* The operators named Fault... are the seeded faults of PROJECT.json.     *)
(***************************************************************************)
EXTENDS Naturals

CONSTANTS
    Sources,     \* the URLs of the evidence
    Horizons,    \* forecast horizons
    MaxRetries,  \* max_retries
    MaxAnalyses  \* bound on the analyses

TeamConstantsOK == MaxRetries \in Nat /\ MaxAnalyses \in Nat

VARIABLES
    team,       \* the team at work
    configured, \* there is a key, a model and a base URL
    stage,      \* the stage of the pipeline that asks
    step,       \* the agent that is asked
    supplied,   \* the evidence in the snapshot of this analysis
    known,      \* the evidence of every analysis from which the plan descends
    heard,      \* the answers so far
    call,       \* the attempts of one generate, and the tokens they cost
    usage,      \* records of this analysis, and what the provider bills for it
    plan,       \* the entry that is proposed, or NoPlan
    outcome,    \* allocator_decision_outcome of the last analysis
    analyses

teamVars ==
    <<team, configured, stage, step, supplied, known, heard, call, usage, plan, outcome,
      analyses>>

Teams == {"api", "catalyst", "ai_gated", "allocator"}
Fresh == {"overnight", "intraday"}
Refreshes == {"premarket_update", "preopen_revalidation"}

News == [own : BOOLEAN, cites : SUBSET Sources]
Challenges == [veto : BOOLEAN, valid : BOOLEAN]
Decisions ==
    [own : BOOLEAN, action : {"enter", "watch", "none"}, complete : BOOLEAN,
     cites : SUBSET Sources, horizon : Horizons]

Nothing ==
    [news |-> [own |-> TRUE, cites |-> {}], challenge |-> [veto |-> FALSE, valid |-> TRUE]]
NoCall == [attempt |-> 0, tokens |-> 0]
NoUsage == [records |-> 0, tokens |-> 0, billed |-> 0, escaped |-> FALSE]
NoPlan == [cites |-> {}, horizon |-> "none"]
Plan == [cites : SUBSET Sources, horizon : Horizons]
TokenCounts == 0..(3 * (MaxRetries + 1))

TeamTypeOK ==
    /\ team \in Teams /\ configured \in BOOLEAN
    /\ stage \in Fresh \cup Refreshes \cup {"none"}
    /\ step \in {"idle", "input", "news", "challenge", "decision"}
    /\ supplied \subseteq Sources /\ known \subseteq Sources
    /\ heard \in [news : News, challenge : Challenges]
    /\ call \in [attempt : 0..MaxRetries, tokens : 0..MaxRetries]
    /\ usage \in [records : 0..3, tokens : TokenCounts, billed : TokenCounts, escaped : BOOLEAN]
    /\ plan \in Plan \cup {NoPlan}
    /\ outcome \in {"none", "enter", "watch", "no_trade", "hard_veto", "escaped"}
    /\ analyses \in 0..MaxAnalyses

TeamInit ==
    /\ team \in Teams /\ configured \in BOOLEAN
    /\ stage = "none" /\ step = "idle"
    /\ supplied = {} /\ known = {} /\ heard = Nothing
    /\ call = NoCall /\ usage = NoUsage
    /\ plan = NoPlan /\ outcome = "none" /\ analyses = 0

Context == <<team, configured, stage, supplied, known, analyses>>

-----------------------------------------------------------------------------
(* What an analysis ends with *)

Incremental == stage \in Refreshes
Revalidates == stage = "preopen_revalidation"

EndAnalysis(result, kept) ==
    /\ step' = "idle" /\ call' = NoCall /\ heard' = Nothing
    /\ outcome' = result /\ plan' = kept

\* _fail_closed, _failed: a result that proposes nothing, with the reason.
FailClosed == EndAnalysis("hard_veto", NoPlan)

\* Every team but the allocator's catches whatever was raised.  The allocator's
\* catches ProviderError and ValueError; its two refreshing stages close the plan on
\* any other exception, and of the fresh ones the worker dies.
Raise(exception) ==
    IF team # "allocator" \/ exception = "caught" THEN FailClosed
    ELSE EndAnalysis("escaped", IF stage \in Fresh THEN plan ELSE NoPlan)

-----------------------------------------------------------------------------
(* ApiProvider.generate *)

Asking == step \in {"news", "challenge", "decision"}

\* UsageTracker.record
Record(tokens) ==
    usage' = [usage EXCEPT !.records = @ + 1, !.tokens = @ + call.tokens + tokens,
                           !.billed = @ + tokens]

Unconfigured ==
    /\ Asking /\ ~configured
    /\ Record(0)
    /\ Raise("caught")
    /\ UNCHANGED Context

\* Seeded fault: what a failed attempt cost is forgotten.
FaultRetry(tokens) ==
    /\ Asking /\ configured /\ call.attempt < MaxRetries
    /\ call' = [attempt |-> call.attempt + 1, tokens |-> call.tokens]
    /\ usage' = [usage EXCEPT !.billed = @ + tokens]
    /\ UNCHANGED <<Context, step, heard, plan, outcome>>

\* No response, or one without a JSON object, or a record that could not be written.
RetryCall(tokens) ==
    /\ Asking /\ configured /\ call.attempt < MaxRetries
    /\ call' = [attempt |-> call.attempt + 1, tokens |-> call.tokens + tokens]
    /\ usage' = [usage EXCEPT !.billed = @ + tokens]
    /\ UNCHANGED <<Context, step, heard, plan, outcome>>

GiveUp(tokens) ==
    /\ Asking /\ configured /\ call.attempt = MaxRetries
    /\ Record(tokens)
    /\ Raise("caught")
    /\ UNCHANGED Context

\* An object that does not match the schema raises ValidationError, which is no
\* ValueError: generate neither retries nor records it.  A last record that cannot
\* be written escapes in the same way.
Escape ==
    /\ Asking /\ configured
    /\ usage' = [usage EXCEPT !.billed = @ + 1, !.escaped = TRUE]
    /\ Raise("other")
    /\ UNCHANGED Context

Answered ==
    /\ configured
    /\ Record(1)
    /\ UNCHANGED Context

Heard(next, answers) ==
    /\ step' = next /\ heard' = answers
    /\ call' = NoCall
    /\ UNCHANGED <<plan, outcome>>

-----------------------------------------------------------------------------
(* The guards of the teams *)

Declines(d) == IF d.action = "watch" THEN "watch" ELSE "no_trade"

\* The news of the API team cite nothing that it could check; the risk gate has the
\* last word (complete).
ApiDecision(d) ==
    IF d.own /\ ~heard.challenge.veto /\ d.action = "enter" /\ d.complete
    THEN EndAnalysis("enter", [cites |-> {}, horizon |-> d.horizon])
    ELSE EndAnalysis("no_trade", NoPlan)

\* An entry is complete if action and instrument fit, and it is immediate, with a price
\* and an expiry.
CatalystDecision(d) ==
    IF /\ heard.news.own /\ d.own
       /\ heard.news.cites \subseteq supplied
       /\ ~heard.challenge.veto
       /\ d.action = "enter" /\ d.complete
    THEN EndAnalysis("enter", [cites |-> heard.news.cites, horizon |-> d.horizon])
    ELSE EndAnalysis("no_trade", NoPlan)

GatedDecision(d) == CatalystDecision(d)

\* Seeded fault: only what the news cite is checked.
FaultSupported(d) ==
    /\ heard.news.own /\ d.own
    /\ Incremental => d.horizon = plan.horizon
    /\ heard.news.cites \subseteq supplied

\* The guards of analyze.  A refreshed signal may cite what the prior one cited.
Supported(d) ==
    /\ heard.news.own /\ d.own
    /\ Incremental => d.horizon = plan.horizon
    /\ heard.news.cites \subseteq supplied
    /\ d.cites \subseteq supplied \cup IF Incremental THEN plan.cites ELSE {}

\* A signal that is not valid raises ValueError.
AllocatorDecision(d) ==
    IF ~d.complete THEN FailClosed
    ELSE IF heard.challenge.veto \/ ~Supported(d) THEN EndAnalysis("hard_veto", NoPlan)
    ELSE IF d.action = "enter"
    THEN EndAnalysis("enter", [cites |-> d.cites, horizon |-> d.horizon])
    ELSE EndAnalysis(Declines(d), NoPlan)

\* revalidate asks for no decision: the prior signal stands, or nothing does.
Revalidate(challenge) ==
    IF challenge.veto \/ ~heard.news.own \/ ~heard.news.cites \subseteq supplied
    THEN EndAnalysis("hard_veto", NoPlan) ELSE EndAnalysis("enter", plan)

-----------------------------------------------------------------------------
(* The analysis of one snapshot *)

Start(s, evidence) ==
    /\ step = "idle" /\ analyses < MaxAnalyses
    /\ IF team = "allocator"
       THEN s \in Fresh \cup IF plan = NoPlan THEN {} ELSE Refreshes
       ELSE s = "none"
    /\ stage' = s /\ supplied' = evidence
    /\ known' = IF s \in Refreshes THEN known \cup evidence ELSE
                IF team = "allocator" THEN known ELSE evidence
    /\ plan' = IF team = "allocator" THEN plan ELSE NoPlan
    /\ step' = "input" /\ heard' = Nothing /\ call' = NoCall /\ usage' = NoUsage
    /\ outcome' = "none"
    /\ analyses' = analyses + 1
    /\ UNCHANGED <<team, configured>>

\* validate_agent_input, and the prior signal, whose thesis may have expired.
ValidateInput ==
    /\ step = "input"
    /\ \/ step' = "news" /\ UNCHANGED <<heard, call, outcome, plan>>
       \/ \E exception \in {"caught", "other"} : Raise(exception)
    /\ UNCHANGED <<Context, usage>>

\* run_regime_agent, run_technical_agent: no candidate, no call.
NotACandidate ==
    /\ step = "input" /\ team = "api"
    /\ EndAnalysis("no_trade", NoPlan)
    /\ UNCHANGED <<Context, usage>>

HearNews(n) ==
    /\ step = "news"
    /\ Answered
    /\ IF team = "api" /\ n.cites = {} THEN EndAnalysis("no_trade", NoPlan)
       ELSE Heard("challenge", [heard EXCEPT !.news = n])

\* normalize_allocator_challenge derives the veto from the reasons, whose codes it
\* checks.
HearChallenge(c) ==
    /\ step = "challenge"
    /\ Answered
    /\ IF team = "allocator" /\ ~c.valid THEN FailClosed
       ELSE IF Revalidates THEN Revalidate(c)
       ELSE Heard("decision", [heard EXCEPT !.challenge = c])

HearDecision(d) ==
    /\ step = "decision"
    /\ configured
    /\ Record(1)
    /\ \/ team = "api" /\ ApiDecision(d)
       \/ team = "catalyst" /\ CatalystDecision(d)
       \/ team = "ai_gated" /\ GatedDecision(d)
       \/ team = "allocator" /\ AllocatorDecision(d)
    /\ known' = IF team = "allocator" /\ stage \in Fresh THEN supplied ELSE known
    /\ UNCHANGED <<team, configured, stage, supplied, analyses>>

TeamNext ==
    \/ \E s \in Fresh \cup Refreshes \cup {"none"}, evidence \in SUBSET Sources :
          Start(s, evidence)
    \/ ValidateInput \/ NotACandidate
    \/ Unconfigured \/ Escape
    \/ \E tokens \in {0, 1} : RetryCall(tokens) \/ GiveUp(tokens)
    \/ \E n \in News : HearNews(n)
    \/ \E c \in Challenges : HearChallenge(c)
    \/ \E d \in Decisions : HearDecision(d)

TeamSpec == TeamInit /\ [][TeamNext]_teamVars

-----------------------------------------------------------------------------
(* Properties *)

\* Every token that the provider bills for an analysis is in a usage record or in the
\* call that is under way, once, however many attempts it took; only a response that
\* does not match its schema can leave no record.
UsageRecorded == usage.billed = usage.tokens + call.tokens \/ usage.escaped

\* A plan that was updated and revalidated cites only evidence that one of its stages
\* was given, and no plan survives an analysis that ended in a veto, a guardrail or a
\* failure, on any of the ways such an analysis may end.
PlanIsSupported ==
    /\ plan.cites \subseteq known
    /\ outcome \notin {"none", "enter", "escaped"} => plan = NoPlan
=============================================================================
