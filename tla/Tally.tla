-------------------------------- MODULE Tally --------------------------------
(* What the values of a function add up to, counted one by one: a sum that *)
(* is a cardinality.                                                       *)
EXTENDS Naturals, FiniteSets

Units(f) == UNION {{i} \X (1..f[i]) : i \in DOMAIN f}
Total(f) == Cardinality(Units(f))
=============================================================================
