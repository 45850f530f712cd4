-------------------------------- MODULE Ranks --------------------------------
(* Elements of a finite set of integers in increasing order, which is how a   *)
(* loop over an array of flags or slots meets them.                           *)
EXTENDS Integers, FiniteSets

\* The k-th smallest element of S.
Nth(S, k) == CHOOSE x \in S : Cardinality({y \in S : y < x}) = k - 1
=============================================================================
