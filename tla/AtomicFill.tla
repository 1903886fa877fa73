----------------------------- MODULE AtomicFill -----------------------------
(***************************************************************************)
(* What one paper account promises about simulated fills, whatever files   *)
(* it is kept in: the fill of an order takes effect at one instant, at     *)
(* most once, and is computed from an account that shows every earlier     *)
(* fill and nothing else.                                                  *)
(***************************************************************************)
CONSTANTS Workers, Orders

VARIABLES
    applied,  \* the orders whose fill has taken effect
    view      \* the fills shown to a worker that has read the account

vars == <<applied, view>>

Unread == [read |-> FALSE, fills |-> {}]
Seen(fills) == [read |-> TRUE, fills |-> fills]

Init ==
    /\ applied = {}
    /\ view = [w \in Workers |-> Unread]

Read(w) ==
    /\ view' = [view EXCEPT ![w] = Seen(applied)]
    /\ UNCHANGED applied

\* The fill of an unfilled order, decided on an account that is up to date.
Fill(w, o) ==
    /\ view[w] = Seen(applied)
    /\ o \notin applied
    /\ applied' = applied \cup {o}
    /\ view' = [view EXCEPT ![w] = Unread]

\* The worker ends, fails or dies without a fill.
Forget(w) ==
    /\ view' = [view EXCEPT ![w] = Unread]
    /\ UNCHANGED applied

Next == \E w \in Workers : Read(w) \/ Forget(w) \/ \E o \in Orders : Fill(w, o)

Spec == Init /\ [][Next]_vars
=============================================================================
