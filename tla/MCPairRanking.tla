--------------------------- MODULE MCPairRanking ---------------------------
(* An instance of PairRanking: three orders for lists of two.  Two fine     *)
(* units make a unit of a slot, so that an odd change is cut.  Slots go from *)
(* -4 (in Go, -3) to 12: a change of 15 goes beyond either end of them for   *)
(* an order listed twice, and beyond what rust-impl adds; one base does so   *)
(* from the start.  Deadlines rank by three bits, from -4 to 3, of which     *)
(* only the deadline 5 is too far at the start; quantities are below, at and *)
(* above the threshold, and one event names the BinTag twice.                *)
EXTENDS PairRanking, TLC

CONSTANT t1

Small(due)  == [qty |-> 9,  deadline |-> due, base |-> 11, tpids |-> (t1 :> 1), listed |-> 1]
Exact(due)  == [qty |-> 10, deadline |-> due, base |-> 19, tpids |-> (t1 :> 2), listed |-> 1]
Full(due)   == [qty |-> 11, deadline |-> due, base |-> 31, tpids |-> (t1 :> 1), listed |-> 1]
Big(due)    == [qty |-> 11, deadline |-> due, base |-> 25, tpids |-> (t1 :> 0), listed |-> 1]
Repeated    == [qty |-> 11, deadline |-> -1,  base |-> 1,  tpids |-> (t1 :> 1), listed |-> 2]

MCEvents == (1 :> {Small(1), Exact(3)} @@ 2 :> {Full(2), Big(3)} @@ 3 :> {Big(5), Repeated})
AllImpls == {"rust", "go", "kotlin"}
LowestScore == -3
=============================================================================
