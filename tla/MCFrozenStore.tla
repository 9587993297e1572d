--------------------------- MODULE MCFrozenStore ---------------------------
(* Instances of FrozenStore: two orders, one item type, one or two BinTags, *)
(* and two contents: a second ingestion of an order moves it to the other   *)
(* BinTag and out of the item type's list.                                  *)
EXTENDS FrozenStore, TLC

CONSTANTS o1, o2, t1, b1, b2

MCOrders == {o1, o2}
MCTpids == {t1}
MCTags == {b1, b2}
MCEvents ==
  {[tpids |-> (t1 :> 1), tags |-> (b1 :> 1 @@ b2 :> 0), base |-> 1],
   [tpids |-> (t1 :> 0), tags |-> (b1 :> 0 @@ b2 :> 2), base |-> 5]}
MCDiffs == {(t1 :> 0), (t1 :> -3)}
MCScoreMin == -3
MCDeactivatable == {o2}
=============================================================================
