----------------------------- MODULE Selections -----------------------------
(***************************************************************************)
(* What a filter leaves of a sequence: given the places it keeps, what is  *)
(* there, in order.                                                        *)
(***************************************************************************)
EXTENDS Naturals, FiniteSets

\* The n-th of a set of places, and what a sequence has at them.
Nth(places, n) == CHOOSE i \in places : Cardinality({j \in places : j <= i}) = n
Those(s, places) == [n \in 1 .. Cardinality(places) |-> s[Nth(places, n)]]
=============================================================================
