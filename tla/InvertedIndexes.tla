--------------------------- MODULE InvertedIndexes ---------------------------
(***************************************************************************)
(* The inverted indexes: the orders that need an item type, the orders     *)
(* that may be served at a BinTag, and for every order the lists it is in, *)
(* which is what lets an order be taken out of them again.  The lists are  *)
(* kept as bags.                                                           *)
(***************************************************************************)
EXTENDS ScoreArith

CONSTANTS
  Orders,         \* the order IDs, all below NumOrders
  Tags            \* the BinTag IDs

Indexes == [byTpid  : [Tpids -> Bag(Orders)], byTag  : [Tags -> Bag(Orders)],
            tpidsOf : [Orders -> Bag(Tpids)], tagsOf : [Orders -> Bag(Tags)]]

(* What an order event says of an order. *)
OrderEvents == [tpids : Bag(Tpids), tags : Bag(Tags), base : Int]

NoListing(S) == [k \in S |-> 0]

(* NewInvertedIndexes *)
EmptyIndexes ==
  [byTpid  |-> [t \in Tpids |-> NoListing(Orders)],
   byTag   |-> [b \in Tags |-> NoListing(Orders)],
   tpidsOf |-> [o \in Orders |-> NoListing(Tpids)],
   tagsOf  |-> [o \in Orders |-> NoListing(Tags)]]

Less(n, m) == IF m <= n THEN n - m ELSE 0

(* RemoveOrder, for every order of S: one occurrence is taken out of a list *)
(* for every entry of the reverse map, and the entry deleted.               *)
RemoveOrders(ix, S) ==
  [byTpid  |-> [t \in Tpids |-> [o \in Orders |->
                  IF o \in S THEN Less(ix.byTpid[t][o], ix.tpidsOf[o][t]) ELSE ix.byTpid[t][o]]],
   byTag   |-> [b \in Tags |-> [o \in Orders |->
                  IF o \in S THEN Less(ix.byTag[b][o], ix.tagsOf[o][b]) ELSE ix.byTag[b][o]]],
   tpidsOf |-> [o \in Orders |-> IF o \in S THEN NoListing(Tpids) ELSE ix.tpidsOf[o]],
   tagsOf  |-> [o \in Orders |-> IF o \in S THEN NoListing(Tags) ELSE ix.tagsOf[o]]]

(* remove_order of rust-impl: every list the reverse map names is filtered, *)
(* so that no occurrence of the order stays in it.                          *)
RetainOthers(ix, S) ==
  [byTpid  |-> [t \in Tpids |-> [o \in Orders |->
                  IF o \in S /\ ix.tpidsOf[o][t] > 0 THEN 0 ELSE ix.byTpid[t][o]]],
   byTag   |-> [b \in Tags |-> [o \in Orders |->
                  IF o \in S /\ ix.tagsOf[o][b] > 0 THEN 0 ELSE ix.byTag[b][o]]],
   tpidsOf |-> [o \in Orders |-> IF o \in S THEN NoListing(Tpids) ELSE ix.tpidsOf[o]],
   tagsOf  |-> [o \in Orders |-> IF o \in S THEN NoListing(Tags) ELSE ix.tagsOf[o]]]

(* Append the order to every list the event names, and keep the names. *)
List(ix, o, e) ==
  [byTpid  |-> [t \in Tpids |-> [ix.byTpid[t] EXCEPT ![o] = @ + e.tpids[t]]],
   byTag   |-> [b \in Tags |-> [ix.byTag[b] EXCEPT ![o] = @ + e.tags[b]]],
   tpidsOf |-> [ix.tpidsOf EXCEPT ![o] = e.tpids],
   tagsOf  |-> [ix.tagsOf EXCEPT ![o] = e.tags]]

(* A plausible bug, for the mutation runs: a re-added order is not removed  *)
(* from its old lists.                                                      *)
AddOrderTwice(ix, o, e) == List(ix, o, e)

(* AddOrder *)
AddOrder(ix, o, e) == List(RemoveOrders(ix, {o}), o, e)

Listings(ix, o) == [t \in Tpids |-> ix.byTpid[t][o]]

(* The four maps agree: an order is in a list as often as its reverse entry *)
(* names the list.                                                          *)
Agree(ix) ==
  \A o \in Orders :
    /\ \A t \in Tpids : ix.byTpid[t][o] = ix.tpidsOf[o][t]
    /\ \A b \in Tags : ix.byTag[b][o] = ix.tagsOf[o][b]

=============================================================================
