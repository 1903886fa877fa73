--------------------------- MODULE MCProcessLock ---------------------------
(* Instances of ProcessLock for TLC: three processes that contend for one   *)
(* lock file are enough for a stale owner and two competing removers.       *)
EXTENDS ProcessLock

CONSTANTS p1, p2, p3

MCProcs == {p1, p2, p3}
============================================================================
