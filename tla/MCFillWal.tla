----------------------------- MODULE MCFillWal -----------------------------
(* Instances of FillWal for TLC: an equity buy, the equity sell that closes *)
(* it and an option buy, so that two fills share all, or only some, files.  *)
EXTENDS FillWal, TLC

CONSTANTS w1, w2, buy, sell, call

MCWorkers == {w1, w2}
MCOrders == {buy, sell, call}
MCOptionOrders == {call}
MCExitOrders == {sell} \cap Orders
=============================================================================
