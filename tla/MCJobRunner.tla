---------------------------- MODULE MCJobRunner ----------------------------
(* Instances of JobRunner for TLC, with jobs and resources of serve: the    *)
(* forward cycle and the AI cycle use one account each, the AI cycle has    *)
(* two triggers, and the end-of-day guard uses both accounts.               *)
EXTENDS JobRunner

CONSTANTS s1, s2, forwardCycle, aiCycle, aiOpen, eodInterval

MCOneService == {s1}
MCTwoServices == {s1, s2}
MCTriggers == {forwardCycle, aiCycle, aiOpen, eodInterval}
MCJobs == {"forward", "ai_gated", "eod_guard"}
MCJobOf ==
    [t \in MCTriggers |->
        IF t = forwardCycle THEN "forward"
        ELSE IF t = eodInterval THEN "eod_guard" ELSE "ai_gated"]
MCResources ==
    [j \in MCJobs |->
        IF j = "forward" THEN {"main_account"}
        ELSE IF j = "ai_gated" THEN {"ai_account", "evidence_store"}
        ELSE {"main_account", "ai_account", "allocator_account"}]
=============================================================================
