--------------------------- MODULE MCOrderStore ---------------------------
(* Instances of OrderStore: two orders, one item type, two BinTags.  Of the *)
(* events one names a BinTag twice and has a base score out of range, and    *)
(* one names no item type.                                                  *)
EXTENDS OrderStore, TLC

CONSTANTS o1, o2, t1, b1, b2

MCOrders == {o1, o2}
MCTpids == {t1}
MCTags == {b1, b2}
MCEvents ==
  {[tpids |-> (t1 :> 1), tags |-> (b1 :> 1 @@ b2 :> 0), base |-> 1],
   [tpids |-> (t1 :> 0), tags |-> (b1 :> 0 @@ b2 :> 2), base |-> 5]}
MCDiffs == {(t1 :> 0), (t1 :> -3), (t1 :> 1)}
MCScoreMin == -2
MCDeactivatable == {o2}
=============================================================================
