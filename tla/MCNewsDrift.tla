---------------------------- MODULE MCNewsDrift ----------------------------
(* An instance of NewsDrift for TLC: a story with two tickers in it, so     *)
(* that a cycle persists and screens several signals, and one that names    *)
(* none and competes for the batch; one label per proposal.  A unit of the  *)
(* clock is the interval of the search; the limit per cycle is one, so that *)
(* it is met.                                                               *)
EXTENDS NewsDrift

CONSTANTS story, other, nvda, amd

MCStories == {story, other}
MCEvents == {nvda, amd}
MCStoryOf == [e \in MCEvents |-> story]
MCPublished == [s \in MCStories |-> 1]
=============================================================================
