--------------------------- MODULE MCMatrixStore ---------------------------
(* Instances of MatrixStore: two orders, one item type, one BinTag, two rows *)
(* and a pair of a third PPS.  One event names the BinTag twice and has a     *)
(* base score out of range, one is for other BinTags only; one change is      *)
(* larger than the range of a slot.                                          *)
EXTENDS MatrixStore, TLC

CONSTANTS o1, o2, t1, b1

MCOrders == {o1, o2}
MCTpids == {t1}
MCTags == {b1}
MCEvents ==
  {[tpids |-> (t1 :> 1), tags |-> (b1 :> 2), base |-> -5],
   [tpids |-> (t1 :> 0), tags |-> (b1 :> 0), base |-> 1]}
MCDiffs == {(t1 :> 3), (t1 :> -1)}
MCScoreMin == -1
MCDeactivatable == {o2}
MCNewPairs == {Pair(2, b1)}
=============================================================================
