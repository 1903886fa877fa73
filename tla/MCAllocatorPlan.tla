-------------------------- MODULE MCAllocatorPlan --------------------------
(* Instances of AllocatorPlan for TLC: one ticker with its shares and one   *)
(* option, from the evening before a trading day to the minutes before its  *)
(* close.                                                                   *)
EXTENDS AllocatorPlan

CONSTANTS nvda, nvdaShares, nvdaCall

MCTickers == {nvda}
MCExposures == {nvdaShares, nvdaCall}
MCShares == {nvdaShares}
MCTickerOf == [e \in MCExposures |-> nvda]
MCSignals == {[horizon |-> 0, lasts |-> 4]}
=============================================================================
