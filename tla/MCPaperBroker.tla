--------------------------- MODULE MCPaperBroker ---------------------------
(* Instances of PaperBroker for TLC: two symbols, one option on the first,  *)
(* so that the two brokers compete for an underlying.  Quotes 4 and 5 with  *)
(* slippage 1 make a limit of 5 fill or rest; an account of 20 can afford   *)
(* two entries under the caps.                                              *)
EXTENDS PaperBroker, TLC

CONSTANTS w1, w2, o1, o2, o3, A, B, callA

MCOneWorker == {w1}
MCTwoWorkers == {w1, w2}
MCTwoOrders == {o1, o2}
MCThreeOrders == {o1, o2, o3}
MCEquities == {A, B}
MCOneEquity == {A}
MCContracts == {callA}
MCUnderlyingOf == [c \in MCContracts |-> A]
MCPrices == {4, 5}
MCLimits == {5}
MCExpiry == [l \in Lines |-> 2]
MCLineEntries == [l \in Lines |-> 2]
MCLinePositions == [l \in Lines |-> 2]
MCOrderPct == [l \in Lines |-> 30]
MCLinePct == [l \in Lines |-> 50]
MCSymmetry == Permutations(Workers) \cup Permutations(OrderIds)
=============================================================================
