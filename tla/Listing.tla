------------------------------ MODULE Listing -------------------------------
(* Keeping some entries of an array in their order, as the compacting loops *)
(* of the selector and of the supervisor do.                                *)
EXTENDS Integers, Sequences, FiniteSets

\* The members of a finite set of numbers, ascending: the k-th has k - 1
\* others below it.
InOrder(S) ==
  [k \in 1 .. Cardinality(S) |->
     CHOOSE i \in S : Cardinality({j \in S : j < i}) = k - 1]

\* The entries of s at the indices S.
Keep(s, S) == LET order == InOrder(S) IN [k \in DOMAIN order |-> s[order[k]]]

=============================================================================
