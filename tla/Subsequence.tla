----------------------------- MODULE Subsequence -----------------------------
(* Filtering of sequences, as functions of the positions that are kept.     *)
EXTENDS Naturals, FiniteSets

(* The entries of s at the positions in K, in their order.                  *)
Kept(s, K) ==
    [k \in 1..Cardinality(K) |->
        s[CHOOSE i \in K : Cardinality({j \in K : j < i}) = k - 1]]
==============================================================================
