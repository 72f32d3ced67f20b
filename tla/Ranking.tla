------------------------------ MODULE Ranking ------------------------------
(* A finite set of numbers in ascending order, and the elements of a         *)
(* sequence that stand at some of its places.                                *)
EXTENDS Naturals, FiniteSets

Rank(S, x) == Cardinality({y \in S : y <= x})
Ranked(S) == [k \in 1..Cardinality(S) |-> CHOOSE x \in S : Rank(S, x) = k]
At(s, places) == [k \in 1..Cardinality(places) |-> s[Ranked(places)[k]]]
=============================================================================
