-------------------------------- MODULE Sums --------------------------------
(***************************************************************************)
(* The sum of the values of a function into the natural numbers, as the    *)
(* number of the units it counts.  A fold would say the same; a number of  *)
(* elements is what the theorems about finite sets speak of.               *)
(***************************************************************************)
EXTENDS Naturals, FiniteSets

Units(g) == UNION {{x} \X (1..g[x]) : x \in DOMAIN g}

SumOf(g) == Cardinality(Units(g))
=============================================================================
