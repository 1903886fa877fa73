---------------------------- MODULE MCAccountDay ----------------------------
(* The days of an account, at three levels that share no state: the orders  *)
(* and counters of the brokers over two days (PaperBroker), the jobs of the *)
(* service around the close (EndOfDay), and the research and monitor of the *)
(* AI sleeve with the cooldown file (AiGated).  A behaviour is one of them, *)
(* as part says.                                                            *)
(*                                                                          *)
(* The units of the close are five minutes: a window of ten, a cutoff five  *)
(* minutes before it, and a start in time for research.  The monitor of the *)
(* allocator and the catalyst cycle hold accounts that another job here     *)
(* holds for longer.  The sleeve researches one ticker, whose event may be  *)
(* researched again on the same day.                                        *)
EXTENDS MCPaperBroker, AiGated, EndOfDay

VARIABLE part

MCJobs ==
    {"forward", "eod_guard", "ai_monitor", "ai_gated", "allocator_intraday"}
MCDeadline ==
    [j \in DayJobs |->
        IF j \in {"ai_gated", "catalyst", "allocator_intraday"} THEN 2
        ELSE IF j = "forward" THEN 1 ELSE 0]

MCTickers == {A}
MCEvents == {"news"}
MCAbout == [e \in MCEvents |-> A]
MCPublished == [e \in MCEvents |-> 0]

ASSUME DayAssumption == DayConstantsOK /\ InTime /\ ConstantsOK

MCInit ==
    /\ part \in {"brokers", "close", "sleeve"}
    /\ Init /\ DayInit /\ GatedInit
MCNext ==
    \/ part = "brokers" /\ Next /\ UNCHANGED <<part, dayVars, gatedVars>>
    \/ part = "close" /\ DayNext /\ UNCHANGED <<part, vars, gatedVars>>
    \/ part = "sleeve" /\ GatedNext /\ UNCHANGED <<part, vars, dayVars>>
MCSpec == MCInit /\ [][MCNext]_<<part, vars, dayVars, gatedVars>>
=============================================================================
