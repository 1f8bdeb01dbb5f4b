------------------------------ MODULE Subsequence ------------------------------
(***************************************************************************)
(* A sequence without some of its entries: std::remove_if with erase on a  *)
(* std::vector.  It is what SelectSeq computes, defined by the positions   *)
(* that are kept instead of by recursion, so that it can be proved about.  *)
(***************************************************************************)
EXTENDS Integers, FiniteSets

\* The numbers in I in ascending order: one function, when I is a finite set of integers.
Ascending(I) ==
  {f \in [1..Cardinality(I) -> I] :
     /\ \A x \in I : \E k \in DOMAIN f : f[k] = x
     /\ \A j, k \in DOMAIN f : j < k => f[j] < f[k]}

\* The entries of s at the positions in I, in the order they have in s: one sequence.
Rests(s, I) == {[k \in 1..Cardinality(I) |-> s[f[k]]] : f \in Ascending(I)}
=============================================================================
