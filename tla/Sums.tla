-------------------------------- MODULE Sums --------------------------------
(* Sums of natural-valued functions over finite sets, defined by counting:   *)
(* a sum is the number of unit tokens the addends stand for.  The definition *)
(* needs no recursion, so that facts about sums follow from facts about      *)
(* cardinalities (SumsTheorems.tla).                                         *)
EXTENDS Naturals, FiniteSets

\* f[a] distinct tokens for every a in S.
Units(f, S) == UNION { {a} \X (1 .. f[a]) : a \in S }

\* The sum of f[a] over the a in S.
Total(f, S) == Cardinality(Units(f, S))

=============================================================================
