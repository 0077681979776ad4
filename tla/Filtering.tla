------------------------------ MODULE Filtering ------------------------------
(***************************************************************************)
(* What Array.filter returns, as a sequence that is not built step by      *)
(* step, so that its length and its elements can be reasoned about.        *)
(***************************************************************************)
EXTENDS Naturals, Sequences, FiniteSets

\* How many of the positions I come up to i.
Rank(I, i) == Cardinality({k \in I : k <= i})

\* The elements of s at the positions I, in their order.
AtPositions(s, I) ==
    [j \in 1 .. Cardinality(I) |-> s[CHOOSE i \in I : Rank(I, i) = j]]
=============================================================================
