SPECIFICATION Spec
CONSTANTS
    w1 = w1
    w2 = w2
    o1 = o1
    o2 = o2
    o3 = o3
    A = A
    B = B
    callA = callA
    Workers <- MCOneWorker
    OrderIds <- MCTwoOrders
    Equities <- MCEquities
    Contracts <- MCContracts
    UnderlyingOf <- MCUnderlyingOf
    Prices <- MCPrices
    Limits <- MCLimits
    Slippage = 1
    InitialCash = 20
    Expiry <- MCExpiry
    MaxTotalPositions = 2
    MaxDailyEntries = 2
    LineEntries <- MCLineEntries
    LinePositions <- MCLinePositions
    OrderPct <- MCOrderPct
    LinePct <- MCLinePct
    TotalPct = 55
    MaxDailyLoss = 2
    DayLength = 3
    MaxTime = 2
SYMMETRY MCSymmetry
CHECK_DEADLOCK FALSE
INVARIANT EquitiesFillBeforeExpiry
