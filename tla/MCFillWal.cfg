SPECIFICATION FairSpec
CONSTANTS
    w1 = w1
    w2 = w2
    buy = buy
    sell = sell
    call = call
    Workers <- MCWorkers
    OptionOrders <- MCOptionOrders
    ExitOrders <- MCExitOrders
    Orders <- MCOrders
    MaxFaults = 3
INVARIANT DecidesOnWholeFills
INVARIANT ExactlyOnce
PROPERTY NoLostFill
PROPERTY ImplementsAtomicFill
PROPERTY PreparedIsCompleted
