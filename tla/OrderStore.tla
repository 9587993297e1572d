----------------------------- MODULE OrderStore -----------------------------
(***************************************************************************)
(* The order side of go-cgo-impl: the flat registry, the inverted indexes  *)
(* with their reverse maps, and the score matrix, which one consumer       *)
(* goroutine changes together, and the cycle that ranks from all three.    *)
(*                                                                         *)
(* IngestOrder, EvictOrder and the kernel write the same value into every  *)
(* row of the matrix, so one row stands for all (MatrixStore checks that   *)
(* of the other implementations).  Of a published row the orders listed,   *)
(* before the cut to the first TopK, and their scores are kept.            *)
(***************************************************************************)
EXTENDS InvertedIndexes

CONSTANTS
  TTL,            \* OrderTTLSecs
  Events,         \* the contents of the order events that may be consumed
  Diffs,          \* the contribution changes an ItemDict update may carry
  Deactivatable,  \* the orders on which Deactivate may be called
  MaxNow          \* a bound on the clock

ASSUME OrderAssumption ==
  /\ TTL \in Nat
  /\ Events \subseteq OrderEvents
  /\ Diffs \subseteq [Tpids -> Int]
  /\ Deactivatable \subseteq Orders
  /\ MaxNow \in Nat

VARIABLES
  active,         \* OrderRegistry.Meta[o].Active
  since,          \* OrderRegistry.Meta[o].InsertedAtSecs
  indexes,        \* InvertedIndexes
  column,         \* PPSMatrix, the slot of every order
  ranked,         \* the published ReadBuffer
  now             \* the clock, in seconds

registry == <<active, since>>
vars == <<active, since, indexes, column, ranked, now>>

NoScore == [state |-> "unranked"]
Score(s) == [state |-> "ranked", score |-> s]

Init ==
  /\ active = [o \in Orders |-> FALSE]
  /\ since = [o \in Orders |-> 0]
  /\ indexes = EmptyIndexes
  /\ column = [o \in Orders |-> 0]
  /\ ranked = [b \in Tags |-> [o \in Orders |-> NoScore]]
  /\ now = 1

-----------------------------------------------------------------------------
(* Plausible bugs, for the mutation runs. *)

IngestUnclamped(o, e) ==
  /\ active' = [active EXCEPT ![o] = TRUE]
  /\ since' = [since EXCEPT ![o] = now]
  /\ indexes' = AddOrder(indexes, o, e)
  /\ column' = [column EXCEPT ![o] = e.base]
  /\ UNCHANGED <<ranked, now>>

(* The slot of an evicted order keeps its score. *)
EvictKeepsColumn(o) ==
  /\ active[o]
  /\ active' = [active EXCEPT ![o] = FALSE]
  /\ since' = [since EXCEPT ![o] = 0]
  /\ indexes' = RemoveOrders(indexes, {o})
  /\ UNCHANGED <<column, ranked, now>>

-----------------------------------------------------------------------------
(* IngestOrder: every event is a new order or a new version of one. *)
IngestOrder(o, e) ==
  /\ active' = [active EXCEPT ![o] = TRUE]
  /\ since' = [since EXCEPT ![o] = now]
  /\ indexes' = AddOrder(IF active[o] THEN RemoveOrders(indexes, {o}) ELSE indexes, o, e)
  /\ column' = [column EXCEPT ![o] = Clamp(e.base)]
  /\ UNCHANGED <<ranked, now>>

(* HandleOrderRemoved and EvictOrder, which returns early when the order is *)
(* not active.                                                              *)
EvictOrder(o) ==
  /\ active[o]
  /\ active' = [active EXCEPT ![o] = FALSE]
  /\ since' = [since EXCEPT ![o] = 0]
  /\ indexes' = RemoveOrders(indexes, {o})
  /\ column' = [column EXCEPT ![o] = 0]
  /\ UNCHANGED <<ranked, now>>

(* Deactivate leaves the indexes and the matrix alone. *)
Deactivate(o) ==
  /\ active' = [active EXCEPT ![o] = FALSE]
  /\ UNCHANGED <<since, indexes, column, ranked, now>>

(* The orders PurgeExpired evicts. *)
Expired == {o \in Orders : active[o] /\ since[o] > 0 /\ now - since[o] > TTL}

(* Mutants of the ranking: of orders that are not active too; and a ranking *)
(* that misses what the purge of the same cycle has done.                   *)
RankAnyListed(isActive, ix, scores) ==
  [b \in Tags |-> [o \in Orders |->
     IF ix.byTag[b][o] > 0 THEN Score(scores[o]) ELSE NoScore]]

RankBeforePurge(isActive, ix, scores) ==
  [b \in Tags |-> [o \in Orders |->
     IF active[o] /\ indexes.byTag[b][o] > 0 THEN Score(scores[o]) ELSE NoScore]]

(* phase2Rank: the orders listed under the BinTag that are still active. *)
Rank(isActive, ix, scores) ==
  [b \in Tags |-> [o \in Orders |->
     IF isActive[o] /\ ix.byTag[b][o] > 0 THEN Score(scores[o]) ELSE NoScore]]

(* RunCycleWithDict: PurgeExpired, phase1Update, phase2Rank and Publish, by *)
(* the one reading of the clock taken at its start.                         *)
RunCycleWithDict(diff) ==
  LET purged == Expired
      kept   == RemoveOrders(indexes, purged)
      moved  == [o \in Orders |-> Moved(IF o \in purged THEN 0 ELSE column[o],
                                        Listings(kept, o), diff)]
  IN  /\ active' = [o \in Orders |-> active[o] /\ o \notin purged]
      /\ since' = [o \in Orders |-> IF o \in purged THEN 0 ELSE since[o]]
      /\ indexes' = kept
      /\ column' = moved
      /\ ranked' = Rank(active', kept, moved)
      /\ UNCHANGED now

Tick ==
  /\ now < MaxNow
  /\ now' = now + 1
  /\ UNCHANGED <<registry, indexes, column, ranked>>

Next ==
  \/ \E o \in Orders :
       \/ \E e \in Events : IngestOrder(o, e)
       \/ EvictOrder(o)
  \/ \E o \in Deactivatable : Deactivate(o)
  \/ \E diff \in Diffs : RunCycleWithDict(diff)
  \/ Tick

Spec == Init /\ [][Next]_vars

FairSpec == Spec /\ WF_vars(\E diff \in Diffs : RunCycleWithDict(diff))

-----------------------------------------------------------------------------
(* Types; in particular a slot stays within the clamped range. *)
TypeOK ==
  /\ active \in [Orders -> BOOLEAN]
  /\ since \in [Orders -> Nat]
  /\ indexes \in Indexes
  /\ column \in [Orders -> Scores]
  /\ ranked \in [Tags -> [Orders -> {NoScore} \cup {Score(s) : s \in Scores}]]
  /\ now \in Nat \ {0}

(* The four maps agree: an order is in a list as often as its reverse entry *)
(* names the list, through re-ingestion, eviction, expiry and Deactivate.   *)
IndexesAgree == Agree(indexes)

(* An order that is not live leaves nothing behind: it is in no list, so no *)
(* update moves its slot, which stays zero (unless Deactivate hid it).      *)
DeadLeaveNothing ==
  \A o \in Orders \ Deactivatable :
    ~active[o] => /\ \A t \in Tpids : indexes.byTpid[t][o] = 0
                  /\ \A b \in Tags : indexes.byTag[b][o] = 0
                  /\ column[o] = 0

(* The order side as a book of live orders. *)
Book == INSTANCE OrderBook WITH
          book <- [o \in Orders |->
                     IF active[o] THEN [state |-> "live", tpids |-> indexes.tpidsOf[o],
                                        tags |-> indexes.tagsOf[o], score |-> column[o],
                                        since |-> since[o]]
                     ELSE [state |-> "none"]],
          shown <- ranked,
          clock <- now,
          Contents <- {[tpids |-> e.tpids, tags |-> e.tags, score |-> Clamp(e.base)] : e \in Events}

(* It implements that book: a cycle never shows an order past its TTL or not eligible, *)
(* shows every other, and by the score that cycle gave it.                  *)
BookImplemented == Book!Spec

(* An order that was evicted or has expired leaves the published rows,      *)
(* unless it is ingested again.                                             *)
DeadLeaveRows ==
  \A o \in Orders : \A b \in Tags :
    ~active[o] /\ ranked[b][o] # NoScore ~> active[o] \/ ranked[b][o] = NoScore

=============================================================================
