---------------------------- MODULE FrozenStore ----------------------------
(***************************************************************************)
(* The order side of the Kotlin implementation.  The registry, the indexes *)
(* and the matrix change as in OrderStore, but a cycle never reads the     *)
(* indexes: it reads snapshots of them, taken only when the caller asks    *)
(* for it (materialize, materializeTpid), and empty until then.            *)
(*                                                                         *)
(* dirty is not in the code: it names the snapshots an order has been      *)
(* ingested since.                                                         *)
(***************************************************************************)
EXTENDS OrderStore

VARIABLES
  frozen,         \* InvertedIndexes.tpidFrozen and binTagFrozen
  dirty           \* the snapshots that were taken before the last ingestion

store == vars
allVars == <<vars, frozen, dirty>>

FrozenInit ==
  /\ Init
  /\ frozen = [byTpid |-> indexes.byTpid, byTag |-> indexes.byTag]
  /\ dirty = {}

-----------------------------------------------------------------------------
(* Plausible bugs, for the mutation runs. *)

(* The snapshot is added to the one before. *)
MaterializeMerges ==
  /\ frozen' = [frozen EXCEPT !.byTag =
                  [b \in Tags |-> [o \in Orders |->
                     IF indexes.byTag[b][o] > 0 THEN indexes.byTag[b][o] ELSE @[b][o]]]]
  /\ dirty' = dirty \ {"tags"}
  /\ UNCHANGED store

(* A cycle trusts the snapshot. *)
CycleTrustsSnapshot(diff) ==
  LET purged == Expired
      moved  == [o \in Orders |-> Moved(IF o \in purged THEN 0 ELSE column[o],
                                        Listings(frozen, o), diff)]
  IN  /\ active' = [o \in Orders |-> active[o] /\ o \notin purged]
      /\ since' = [o \in Orders |-> IF o \in purged THEN 0 ELSE since[o]]
      /\ indexes' = RemoveOrders(indexes, purged)
      /\ column' = moved
      /\ ranked' = Rank([o \in Orders |-> TRUE], frozen, moved)
      /\ UNCHANGED <<now, frozen, dirty>>

-----------------------------------------------------------------------------
(* ingestOrder *)
Ingest(o, e) ==
  /\ IngestOrder(o, e)
  /\ dirty' = {"tpids", "tags"}
  /\ UNCHANGED frozen

(* evictOrder, for handleOrderRemoved *)
Evict(o) == EvictOrder(o) /\ UNCHANGED <<frozen, dirty>>

(* deactivate also forgets when the order was inserted. *)
DeactivateOrder(o) ==
  /\ active' = [active EXCEPT ![o] = FALSE]
  /\ since' = [since EXCEPT ![o] = 0]
  /\ UNCHANGED <<indexes, column, ranked, now, frozen, dirty>>

Materialize ==
  /\ frozen' = [frozen EXCEPT !.byTag = indexes.byTag]
  /\ dirty' = dirty \ {"tags"}
  /\ UNCHANGED store

MaterializeTpid ==
  /\ frozen' = [frozen EXCEPT !.byTpid = indexes.byTpid]
  /\ dirty' = dirty \ {"tpids"}
  /\ UNCHANGED store

(* runCycleWithDict: the purge works on the indexes, both phases on the      *)
(* snapshots; phase 2 asks the registry whether an order is active.         *)
Cycle(diff) ==
  LET purged == Expired
      moved  == [o \in Orders |-> Moved(IF o \in purged THEN 0 ELSE column[o],
                                        Listings(frozen, o), diff)]
  IN  /\ active' = [o \in Orders |-> active[o] /\ o \notin purged]
      /\ since' = [o \in Orders |-> IF o \in purged THEN 0 ELSE since[o]]
      /\ indexes' = RemoveOrders(indexes, purged)
      /\ column' = moved
      /\ ranked' = Rank(active', frozen, moved)
      /\ UNCHANGED <<now, frozen, dirty>>

Wait == Tick /\ UNCHANGED <<frozen, dirty>>

StoreNext ==
  \/ \E o \in Orders :
       \/ \E e \in Events : Ingest(o, e)
       \/ Evict(o)
  \/ \E o \in Deactivatable : DeactivateOrder(o)
  \/ Materialize
  \/ MaterializeTpid
  \/ Wait

(* Any caller. *)
FrozenSpec == FrozenInit /\ [][StoreNext \/ \E diff \in Diffs : Cycle(diff)]_allVars

(* The caller of the unit test: it ingests and runs cycles, again and again, *)
(* and takes no snapshot.                                                   *)
UnitTestSpec ==
  /\ FrozenInit
  /\ [][\/ \E o \in Orders : \E e \in Events : Ingest(o, e)
        \/ \E diff \in Diffs : Cycle(diff)]_allVars
  /\ WF_allVars(\E diff \in Diffs : Cycle(diff))

-----------------------------------------------------------------------------
(* Evictions, expiry and Deactivate after a snapshot do not spoil it: what   *)
(* it says of the orders that are still active is what the indexes say.     *)
SnapshotKeepsLive ==
  \A o \in Orders :
    active[o] =>
      /\ "tags" \notin dirty => \A b \in Tags : frozen.byTag[b][o] = indexes.byTag[b][o]
      /\ "tpids" \notin dirty => \A t \in Tpids : frozen.byTpid[t][o] = indexes.byTpid[t][o]

(* However stale the snapshots are, a cycle never shows an order that was   *)
(* evicted, deactivated or is past its TTL.                                 *)
OnlyLiveRanked ==
  [][ranked' # ranked =>
       \A b \in Tags : \A o \in Orders :
         ranked'[b][o] # NoScore => active'[o] /\ now - since'[o] <= TTL]_allVars

(* Between two snapshots that are taken in time the store is the book: every *)
(* step that starts with fresh snapshots is one of OrderBook, so a caller   *)
(* that, like main, takes both after the last ingestion and before the next *)
(* cycle, is shown exactly the live orders, by the scores of that cycle.    *)
BookWhenFresh == [][dirty = {} => [Book!Next]_(Book!vars)]_allVars

-----------------------------------------------------------------------------
(* What a unit test says, and the code does not do. *)

(* "expected non-empty heuristic list for pair 0", after orders have been    *)
(* ingested and cycles have run: the list of a BinTag with an active order  *)
(* does not stay empty.                                                     *)
IngestedIsRanked ==
  \A b \in Tags :
    LET eligible == {o \in Orders : active[o] /\ indexes.byTag[b][o] > 0}
    IN  eligible # {} ~> eligible = {} \/ \E o \in Orders : ranked[b][o] # NoScore

=============================================================================
