SPECIFICATION MCSpec
CONSTANTS
    w1 = w1
    w2 = w2
    o1 = o1
    o2 = o2
    o3 = o3
    A = A
    B = B
    callA = callA
    Workers <- MCOneWorker
    OrderIds <- MCThreeOrders
    Equities <- MCEquities
    Contracts <- MCContracts
    UnderlyingOf <- MCUnderlyingOf
    Prices <- MCPrices
    Limits <- MCLimits
    Slippage = 1
    InitialCash = 20
    Expiry <- MCExpiry
    MaxTotalPositions = 1
    MaxDailyEntries = 1
    LineEntries <- MCLineEntries
    LinePositions <- MCLinePositions
    OrderPct <- MCOrderPct
    LinePct <- MCLinePct
    TotalPct = 55
    MaxDailyLoss = 2
    DayLength = 1
    MaxTime = 1
    Tickers <- MCTickers
    Events <- MCEvents
    About <- MCAbout
    Published <- MCPublished
    DeepLimit = 1
    Cooldown = 2
    Validity = 1
    OrderExpiry = 1
    LastTime = 6
    MaxKills = 1
    Enabled <- MCJobs
    Open = 4
    Window = 2
    Cutoff = 3
    OrderLife = 1
    Deadline <- MCDeadline
    Oldest = 3
    MaxFaults = 1
SYMMETRY MCSymmetry
CHECK_DEADLOCK FALSE
INVARIANT DailyEntryLimit
INVARIANT TotalPositionsBounded
INVARIANT FlatAtClose
PROPERTY NoEntryInRecovery
 
PROPERTY NoReentryAfterStop
 
