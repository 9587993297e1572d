------------------------- MODULE MCServingVariants -------------------------
(* Instances of ServingVariants: four pairs, three of them served from the  *)
(* start.  In MCPpsBeyond the fourth belongs to a PPS the matrix has no row  *)
(* for, as the pair (99, 88) of the two mains does.                         *)
EXTENDS ServingVariants, TLC

CONSTANTS a, b, c, d

MCPairs == {a, b, c, d}
MCInitialPairs == <<a, b, c>>
MCPps == [p \in MCPairs |-> 0]
MCPpsBeyond == [p \in MCPairs |-> IF p = d THEN 1 ELSE 0]
OnlyB == {b}
BAndD == {b, d}
AllImpls == {"cgo", "pure", "kotlin"}
=============================================================================
