----------------------------- MODULE FiniteSums -----------------------------
(***************************************************************************)
(* Sums of natural-number weights over a finite set, as the cardinality of *)
(* the set of unit tokens <<x, k>> with k \in 1 .. f[x].  Written without  *)
(* recursion so that facts about sums follow from facts about              *)
(* cardinalities.                                                          *)
(***************************************************************************)
EXTENDS Naturals, FiniteSets

Units(f, S) == UNION {{x} \X (1 .. f[x]) : x \in S}

SumOver(f, S) == Cardinality(Units(f, S))
=============================================================================
