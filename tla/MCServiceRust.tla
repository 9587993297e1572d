--------------------------- MODULE MCServiceRust ---------------------------
(* An instance of ServiceRust: one row and two BinTags at the start, with     *)
(* the pairs in the order of main; both pairs of a second PPS may be          *)
(* announced, and the first of them withdrawn again.  Callers ask for a pair  *)
(* before the one that is withdrawn and for the pair behind it.  One order,   *)
(* which may be ingested for either BinTag; scores make no difference here.   *)
EXTENDS ServiceRust, TLC

CONSTANTS o1, t1, x, y

P(pps, tag) == [pps |-> pps, tag |-> tag]

MCTags == {x, y}
MCInitialPairs == <<P(0, x), P(0, y)>>
MCAnnounced == {P(1, x), P(1, y)}
MCPairs == ListRange(MCInitialPairs) \cup MCAnnounced
MCPps == [p \in MCPairs |-> p.pps]
MCRemovable == {P(1, x)}
MCAsked == {P(0, y), P(1, y)}
MCEvents == {[tpids |-> (t1 :> 0), tags |-> (x :> 1 @@ y :> 0), base |-> 0],
             [tpids |-> (t1 :> 0), tags |-> (x :> 0 @@ y :> 1), base |-> 0]}
MCDiffs == {(t1 :> 1)}
=============================================================================
