SPECIFICATION MCSpec
CONSTANTS
    w1 = w1
    w2 = w2
    o1 = o1
    o2 = o2
    o3 = o3
    A = A
    B = B
    callA = callA
    t1 = t1
    t2 = t2
    t3 = t3
    t4 = t4
    t5 = t5
    Workers <- MCTwoWorkers
    OrderIds <- MCTwoOrders
    Equities <- MCEquities
    Contracts <- MCContracts
    UnderlyingOf <- MCUnderlyingOf
    Prices <- MCPrices
    Limits <- MCLimits
    Slippage = 1
    InitialCash = 20
    Expiry <- MCExpiry
    MaxTotalPositions = 2
    MaxDailyEntries = 2
    LineEntries <- MCLineEntries
    LinePositions <- MCLinePositions
    OrderPct <- MCOrderPct
    LinePct <- MCLinePct
    TotalPct = 55
    MaxDailyLoss = 2
    DayLength = 3
    MaxTime = 2
    Clients <- MCTwoWorkers
    Tokens <- MCTokens
    NoToken = NoToken
    Lifetime = 4
    Skew = 1
    Cooldown = 1
    Deadline = 1
    MaxFaults = 1
    Sources <- MCSources
    Horizons <- MCHorizons
    MaxRetries = 1
    MaxAnalyses = 3
    Tickers <- MCTickers
    Sampling = 2
    Horizon = 3
    Delay = 1
    Keep = 5
    Regular <- MCRegular
    LastTime = 9
    MaxKills = 1
    Stocks <- MCStocks
    SharePrices <- MCSharePrices
    HalfSpread = 1
    ShareSlippage = 0
    Premium = 200
    OptionExits <- MCOptionExits
    Mass = 3
    InitialFunds = 8000
    EntryPct = 25
    OptionEntryPct = 3
    SharePct = 40
    OptionPct = 4
    BothPct = 42
    StopPct = 3
    RiskPct = 1
    OptionHurdle = 8
    MinMass = 55
    MinMargin = 15
    MaxAllocations = 2
    Symbols <- MCSymbols
    Stranger = 9
    MaxScore = 2
    MinScore = 1
    MinRank = 1
    Top = 3
    Priority = 1
    PerDirection = 1
    Limit = 2
    DeepLimit = 2
    BearReserve = 1
    Answers = 2
SYMMETRY MCSymmetry
CHECK_DEADLOCK FALSE
INVARIANT OneExposurePerUnderlying
 
INVARIANT OptionsFillBeforeExpiry
PROPERTY TerminalOrdersFinal
PROPERTY EntriesWithinCaps
INVARIANT PartsTypeOK
INVARIANT GrantKept
INVARIANT NoFalseBlock
 
INVARIANT PlanIsSupported
INVARIANT PlacesAreFair
INVARIANT DeepIsGrounded
PROPERTY CapsHold
PROPERTY NoChase
INVARIANT LearnedOnce
