SPECIFICATION Spec
CONSTANTS
    nvda = nvda
    nvdaShares = nvdaShares
    nvdaCall = nvdaCall
    Tickers <- MCTickers
    Exposures <- MCExposures
    Shares <- MCShares
    TickerOf <- MCTickerOf
    MaxPlans = 2
    MaxOrders = 2
    Signals <- MCSignals
    FirstTime = 4
    LastTime = 8
    MaxCrashes = 1
CHECK_DEADLOCK FALSE
INVARIANT LiveEntryKeepsMandate
