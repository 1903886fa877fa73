----------------------------- MODULE MCResearch -----------------------------
(* From a candidate to an order, in parts that share no state: the two      *)
(* paper brokers (PaperBroker), the credentials of the brokerage whose      *)
(* quotes everything reads (TokenRefresh), the calls of an investment team  *)
(* (InvestmentTeams), the choice of what it researches                      *)
(* (CandidateSelection), what is bought for its forecast                    *)
(* (InstrumentAllocation) and what the technical score learns afterwards    *)
(* (OutcomeLearning).  A behaviour is one of them, as part says; the others *)
(* keep one initial state.                                                  *)
EXTENDS MCPaperBroker, TokenRefresh, InvestmentTeams, CandidateSelection,
        InstrumentAllocation, OutcomeLearning

CONSTANTS t1, t2, t3, t4, t5

VARIABLE part

MCTokens == {t1, t2, t3, t4, t5}
MCSources == {"s1"}
MCHorizons == {"next_close", "days"}

\* A session, a night, and the first minutes of the next session.
MCTickers == {"A"}
MCRegular == (0..5) \cup (8..10)

\* The caps of the lines are a little above one entry, so that two meet them.
MCStocks == {1, 2}
MCSharePrices == {200, 204}
MCOptionExits == {0, 300}

MCSymbols == 1..4

ASSUME ResearchAssumption ==
    /\ ConstantsOK /\ Timely /\ TeamConstantsOK /\ LabelConstantsOK
    /\ SizingConstantsOK /\ ChoiceConstantsOK

MCInit ==
    /\ part \in {"brokers", "credentials", "team", "choice", "sizing", "labels"}
    /\ part # "team" => team = "allocator" /\ configured = TRUE
    /\ part # "choice" => line = "technical" /\ seeds = NoSeeds
    /\ part # "sizing" => price = [t \in MCStocks |-> 200]
    /\ Init /\ TokenInit /\ TeamInit /\ SizingInit /\ LabelInit /\ ChoiceInit
MCNext ==
    \/ /\ part = "brokers" /\ Next
       /\ UNCHANGED <<part, tokenVars, teamVars, choiceVars, sizingVars, labelVars>>
    \/ /\ part = "credentials" /\ TokenNext
       /\ UNCHANGED <<part, vars, teamVars, choiceVars, sizingVars, labelVars>>
    \/ /\ part = "team" /\ TeamNext
       /\ UNCHANGED <<part, vars, tokenVars, choiceVars, sizingVars, labelVars>>
    \/ /\ part = "choice" /\ ChoiceNext
       /\ UNCHANGED <<part, vars, tokenVars, teamVars, sizingVars, labelVars>>
    \/ /\ part = "sizing" /\ SizingNext
       /\ UNCHANGED <<part, vars, tokenVars, teamVars, choiceVars, labelVars>>
    \/ /\ part = "labels" /\ LabelNext
       /\ UNCHANGED <<part, vars, tokenVars, teamVars, choiceVars, sizingVars>>
MCSpec ==
    MCInit /\ [][MCNext]_<<part, vars, tokenVars, teamVars, choiceVars, sizingVars, labelVars>>

\* Each of the six parts keeps its types.
PartsTypeOK ==
    /\ TypeOK /\ TokenTypeOK /\ TeamTypeOK /\ SizingTypeOK /\ LabelTypeOK
    /\ ChoiceTypeOK
=============================================================================
