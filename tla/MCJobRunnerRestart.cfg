SPECIFICATION RunnerSpec
CONSTANTS
    s1 = s1
    s2 = s2
    forwardCycle = forwardCycle
    aiCycle = aiCycle
    aiOpen = aiOpen
    eodInterval = eodInterval
    Services <- MCTwoServices
    Triggers <- MCTriggers
    Jobs <- MCJobs
    JobOf <- MCJobOf
    Resources <- MCResources
    ServiceDies = FALSE
    KillFails = FALSE
CHECK_DEADLOCK FALSE
INVARIANT AccountExclusive
