SPECIFICATION MCSpec
CONSTANTS
    p1 = p1
    p2 = p2
    p3 = p3
    Procs <- MCProcs
    UnlinkWhileOpen = FALSE
    PidReuse = TRUE
    MaxCrashes = 2
    s1 = s1
    s2 = s2
    forwardCycle = forwardCycle
    aiCycle = aiCycle
    aiOpen = aiOpen
    eodInterval = eodInterval
    Services <- MCOneService
    Triggers <- MCTriggers
    Jobs <- MCJobs
    JobOf <- MCJobOf
    Resources <- MCResources
    ServiceDies = TRUE
    KillFails = TRUE
CHECK_DEADLOCK FALSE
INVARIANT MutualExclusion
INVARIANT HolderOwnsFile
PROPERTY StaleLockRecovered
INVARIANT SupervisedExclusive
PROPERTY EveryCallReturns
