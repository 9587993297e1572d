------------------------- MODULE OrderStore_proofs -------------------------
(***************************************************************************)
(* For any orders, item types, BinTags, events and TTL: the four maps of   *)
(* the inverted indexes agree, an order that is not live leaves nothing    *)
(* behind, and the order side implements the book of live orders.          *)
(*                                                                         *)
(* The second part is about FrozenStore, the same side read through the    *)
(* snapshots of the Kotlin implementation.                                 *)
(***************************************************************************)
EXTENDS FrozenStore, InvertedIndexes_proofs

(* The inductive invariant. *)
StoreInv ==
  /\ TypeOK
  /\ IndexesAgree
  /\ \A o \in Orders : active[o] => since[o] > 0

(* What a row may show of an order. *)
Shown == {NoScore} \cup {Score(s) : s \in Scores}

-----------------------------------------------------------------------------
(* The invariant *)

(* The store starts in the invariant.                                       *)
LEMMA InitStore == Init => StoreInv
<1> SUFFICES ASSUME Init PROVE StoreInv
  OBVIOUS
<1> USE DEF Init, NoListing, EmptyIndexes
<1>1. indexes \in Indexes
  BY DEF Indexes, Bag
<1>2. IndexesAgree
  BY DEF IndexesAgree, Agree
<1>3. 0 \in Scores
  BY ScoreAssumption DEF Scores
<1>. QED BY <1>1, <1>2, <1>3 DEF StoreInv, TypeOK

(* A ranking shows scores within the range of a slot. *)
LEMMA RankType ==
  ASSUME NEW a, NEW ix, NEW c \in [Orders -> Scores], NEW R, R = Rank(a, ix, c)
  PROVE  R \in [Tags -> [Orders -> Shown]]
<1>1. \A o \in Orders : Score(c[o]) \in Shown /\ NoScore \in Shown
  BY DEF Shown
<1> HIDE DEF Shown
<1>. QED BY <1>1 DEF Rank

(* IngestOrder *)
LEMMA IngestKeeps ==
  ASSUME StoreInv, NEW o \in Orders, NEW e \in Events, IngestOrder(o, e)
  PROVE  StoreInv'
<1> DEFINE ix == IF active[o] THEN RemoveOrders(indexes, {o}) ELSE indexes
<1>0. indexes \in Indexes /\ Agree(indexes)
  BY DEF StoreInv, TypeOK, IndexesAgree
<1>1. ix \in Indexes /\ Agree(ix)
  <2>1. {o} \in SUBSET Orders
    OBVIOUS
  <2>2. RemoveOrders(indexes, {o}) \in Indexes /\ Agree(RemoveOrders(indexes, {o}))
    BY <1>0, <2>1, RemoveFacts
  <2>. QED BY <1>0, <2>2
<1>2. indexes' = AddOrder(ix, o, e)
  BY DEF IngestOrder
<1> HIDE DEF ix
<1>3. indexes' \in Indexes /\ Agree(indexes')
  BY <1>1, <1>2, AddFacts, OrderAssumption
<1>4. /\ active' = [active EXCEPT ![o] = TRUE] /\ since' = [since EXCEPT ![o] = now]
      /\ column' = [column EXCEPT ![o] = Clamp(e.base)] /\ UNCHANGED <<ranked, now>>
  BY DEF IngestOrder
<1>5. Clamp(e.base) \in Scores
  <2>1. e.base \in Int
    BY OrderAssumption DEF OrderEvents
  <2>. QED BY <2>1, ClampFacts
<1>. QED BY <1>3, <1>4, <1>5 DEF StoreInv, TypeOK, IndexesAgree

(* EvictOrder *)
LEMMA EvictKeeps ==
  ASSUME StoreInv, NEW o \in Orders, EvictOrder(o)
  PROVE  StoreInv'
<1>1. indexes' \in Indexes /\ Agree(indexes')
  <2>1. {o} \in SUBSET Orders /\ indexes' = RemoveOrders(indexes, {o})
    BY DEF EvictOrder
  <2>2. indexes \in Indexes /\ Agree(indexes)
    BY DEF StoreInv, TypeOK, IndexesAgree
  <2>. QED BY <2>1, <2>2, RemoveFacts
<1>2. /\ active' = [active EXCEPT ![o] = FALSE] /\ since' = [since EXCEPT ![o] = 0]
      /\ column' = [column EXCEPT ![o] = 0] /\ UNCHANGED <<ranked, now>>
  BY DEF EvictOrder
<1>3. 0 \in Scores
  BY ScoreAssumption DEF Scores
<1>. QED BY <1>1, <1>2, <1>3 DEF StoreInv, TypeOK, IndexesAgree

(* A cycle, whichever copy of the indexes both of its phases read. *)
LEMMA CycleKeeps ==
  ASSUME StoreInv, NEW diff \in Diffs, NEW ix,
         \A o \in Orders : Listings(ix, o) \in Bag(Tpids),
         active' = [o \in Orders |-> active[o] /\ o \notin Expired],
         since' = [o \in Orders |-> IF o \in Expired THEN 0 ELSE since[o]],
         indexes' = RemoveOrders(indexes, Expired),
         column' = [o \in Orders |-> Moved(IF o \in Expired THEN 0 ELSE column[o],
                                           Listings(ix, o), diff)],
         ranked' = Rank(active', ix, column'),
         now' = now
  PROVE  StoreInv'
<1>1. indexes' \in Indexes /\ Agree(indexes')
  <2>1. Expired \in SUBSET Orders
    BY DEF Expired
  <2>2. indexes \in Indexes /\ Agree(indexes)
    BY DEF StoreInv, TypeOK, IndexesAgree
  <2>. QED BY <2>1, <2>2, RemoveFacts
<1>2. active' \in [Orders -> BOOLEAN] /\ since' \in [Orders -> Nat]
  BY DEF StoreInv, TypeOK
<1>3. \A o \in Orders : active'[o] => since'[o] > 0
  BY DEF StoreInv, TypeOK
<1>4. column' \in [Orders -> Scores]
  <2>1. ASSUME NEW o \in Orders
        PROVE  Moved(IF o \in Expired THEN 0 ELSE column[o], Listings(ix, o), diff) \in Scores
    <3> DEFINE v == IF o \in Expired THEN 0 ELSE column[o]
    <3>1. v \in Int
      BY ScoreAssumption DEF StoreInv, TypeOK, Scores
    <3>2. diff \in [Tpids -> Int] /\ Listings(ix, o) \in Bag(Tpids)
      BY OrderAssumption
    <3> HIDE DEF v
    <3>3. Moved(v, Listings(ix, o), diff) \in Scores
      BY <3>1, <3>2, MovedFacts
    <3>. QED BY <3>3 DEF v
  <2>. QED BY <2>1
<1>5. ranked' \in [Tags -> [Orders -> Shown]]
  BY <1>4, RankType
<1>6. IndexesAgree'
  BY <1>1 DEF IndexesAgree
<1>7. TypeOK'
  BY <1>1, <1>2, <1>4, <1>5 DEF StoreInv, TypeOK, Shown
<1>. QED BY <1>3, <1>6, <1>7 DEF StoreInv

(* The lists of an order are a bag of item types. *)
LEMMA ListingsType ==
  ASSUME NEW f \in [Tpids -> Bag(Orders)], NEW ix, ix.byTpid = f
  PROVE  \A o \in Orders : Listings(ix, o) \in Bag(Tpids)
BY DEF Listings, Bag

(* Every step keeps the invariant.                                          *)
LEMMA StepStore == StoreInv /\ [Next]_vars => StoreInv'
<1> SUFFICES ASSUME StoreInv, [Next]_vars PROVE StoreInv'
  OBVIOUS
<1>1. ASSUME NEW o \in Deactivatable, Deactivate(o) PROVE StoreInv'
  BY <1>1, OrderAssumption DEF Deactivate, StoreInv, TypeOK, IndexesAgree
<1>2. ASSUME NEW diff \in Diffs, RunCycleWithDict(diff) PROVE StoreInv'
  <2>1. indexes \in Indexes /\ Agree(indexes) /\ Expired \in SUBSET Orders
    BY DEF StoreInv, TypeOK, IndexesAgree, Expired
  <2>2. indexes' = RemoveOrders(indexes, Expired)
    BY <1>2 DEF RunCycleWithDict
  <2>3. indexes' \in Indexes
    BY <2>1, <2>2, RemoveFacts
  <2>4. \A o \in Orders : Listings(indexes', o) \in Bag(Tpids)
    BY <2>3, ListingsType DEF Indexes
  <2>5. /\ active' = [o \in Orders |-> active[o] /\ o \notin Expired]
        /\ since' = [o \in Orders |-> IF o \in Expired THEN 0 ELSE since[o]]
        /\ column' = [o \in Orders |-> Moved(IF o \in Expired THEN 0 ELSE column[o],
                                             Listings(indexes', o), diff)]
        /\ ranked' = Rank(active', indexes', column')
        /\ now' = now
    BY <1>2 DEF RunCycleWithDict
  <2>. QED BY <2>2, <2>4, <2>5, CycleKeeps
<1>3. ASSUME Tick PROVE StoreInv'
  BY <1>3 DEF Tick, registry, StoreInv, TypeOK, IndexesAgree
<1>4. ASSUME UNCHANGED vars PROVE StoreInv'
  BY <1>4 DEF vars, StoreInv, TypeOK, IndexesAgree
<1>. QED BY <1>1, <1>2, <1>3, <1>4, IngestKeeps, EvictKeeps DEF Next

(* The order side keeps its types, and its maps agree. *)
THEOREM StoreInvariant == Spec => []StoreInv
BY InitStore, StepStore, PTL DEF Spec

(* Whatever is ingested and however the contributions change, a slot stays  *)
(* within the clamped range, and so does what is shown.                     *)
THEOREM SlotsInRange == Spec => []TypeOK
<1>1. StoreInv => TypeOK
  BY DEF StoreInv
<1>. QED BY <1>1, StoreInvariant, PTL

(* The lists and the reverse maps name each other, through any sequence of  *)
(* ingestions, evictions, expiries and deactivations.                       *)
THEOREM MapsAgree == Spec => []IndexesAgree
<1>1. StoreInv => IndexesAgree
  BY DEF StoreInv
<1>. QED BY <1>1, StoreInvariant, PTL

-----------------------------------------------------------------------------
(* Orders that are not live *)

(* No step leaves anything of a dead order behind.                          *)
LEMMA StepDead == StoreInv /\ StoreInv' /\ DeadLeaveNothing /\ [Next]_vars => DeadLeaveNothing'
<1> SUFFICES ASSUME StoreInv, StoreInv', DeadLeaveNothing, [Next]_vars,
                    NEW p \in Orders \ Deactivatable, ~active'[p]
             PROVE  /\ \A t \in Tpids : indexes'.byTpid[t][p] = 0
                    /\ \A b \in Tags : indexes'.byTag[b][p] = 0
                    /\ column'[p] = 0
  BY DEF DeadLeaveNothing
<1>0. /\ indexes \in Indexes /\ Agree(indexes)
      /\ indexes' \in Indexes /\ Agree(indexes)'
  BY DEF StoreInv, TypeOK, IndexesAgree
<1>a. ASSUME indexes'.tpidsOf[p] = indexes.tpidsOf[p] /\ indexes'.tagsOf[p] = indexes.tagsOf[p],
             ~active[p]
      PROVE  /\ \A t \in Tpids : indexes'.byTpid[t][p] = 0
             /\ \A b \in Tags : indexes'.byTag[b][p] = 0
             /\ column[p] = 0
  BY <1>0, <1>a DEF DeadLeaveNothing, Agree
<1>b. ASSUME indexes'.tpidsOf[p] = NoListing(Tpids) /\ indexes'.tagsOf[p] = NoListing(Tags)
      PROVE  /\ \A t \in Tpids : indexes'.byTpid[t][p] = 0
             /\ \A b \in Tags : indexes'.byTag[b][p] = 0
  BY <1>0, <1>b DEF Agree, NoListing
<1>1. ASSUME NEW o \in Orders, NEW e \in Events, IngestOrder(o, e)
      PROVE  /\ \A t \in Tpids : indexes'.byTpid[t][p] = 0
             /\ \A b \in Tags : indexes'.byTag[b][p] = 0
             /\ column'[p] = 0
  <2> DEFINE ix == IF active[o] THEN RemoveOrders(indexes, {o}) ELSE indexes
  <2>1. p # o /\ ~active[p] /\ column'[p] = column[p]
    BY <1>1 DEF IngestOrder, StoreInv, TypeOK
  <2>2. /\ ix \in Indexes /\ Agree(ix)
        /\ ix.tpidsOf[p] = indexes.tpidsOf[p] /\ ix.tagsOf[p] = indexes.tagsOf[p]
    <3>1. {o} \in SUBSET Orders /\ p \in Orders \ {o}
      BY <2>1
    <3> DEFINE R == RemoveOrders(indexes, {o})
    <3>2. /\ R \in Indexes /\ Agree(R)
          /\ R.tpidsOf[p] = indexes.tpidsOf[p] /\ R.tagsOf[p] = indexes.tagsOf[p]
      BY <1>0, <3>1, RemoveFacts
    <3>. QED BY <1>0, <3>2
  <2>3. indexes' = AddOrder(ix, o, e)
    BY <1>1 DEF IngestOrder
  <2> HIDE DEF ix
  <2>4. indexes'.tpidsOf[p] = ix.tpidsOf[p] /\ indexes'.tagsOf[p] = ix.tagsOf[p]
    BY <2>1, <2>2, <2>3, AddFacts, OrderAssumption
  <2>. QED BY <1>a, <2>1, <2>2, <2>4
<1>2. ASSUME NEW o \in Orders, EvictOrder(o)
      PROVE  /\ \A t \in Tpids : indexes'.byTpid[t][p] = 0
             /\ \A b \in Tags : indexes'.byTag[b][p] = 0
             /\ column'[p] = 0
  <2>1. {o} \in SUBSET Orders /\ indexes' = RemoveOrders(indexes, {o})
    BY <1>2 DEF EvictOrder
  <2>2. CASE p = o
    <3>1. indexes'.tpidsOf[p] = NoListing(Tpids) /\ indexes'.tagsOf[p] = NoListing(Tags)
      BY <1>0, <2>1, <2>2, RemoveFacts
    <3>2. column'[p] = 0
      BY <1>2, <2>2 DEF EvictOrder, StoreInv, TypeOK
    <3>. QED BY <1>b, <3>1, <3>2
  <2>3. CASE p # o
    <3>1. indexes'.tpidsOf[p] = indexes.tpidsOf[p] /\ indexes'.tagsOf[p] = indexes.tagsOf[p]
      BY <1>0, <2>1, <2>3, RemoveFacts
    <3>2. ~active[p] /\ column'[p] = column[p]
      BY <1>2, <2>3 DEF EvictOrder, StoreInv, TypeOK
    <3>. QED BY <1>a, <3>1, <3>2
  <2>. QED BY <2>2, <2>3
<1>3. ASSUME NEW o \in Deactivatable, Deactivate(o)
      PROVE  /\ \A t \in Tpids : indexes'.byTpid[t][p] = 0
             /\ \A b \in Tags : indexes'.byTag[b][p] = 0
             /\ column'[p] = 0
  <2>1. ~active[p] /\ UNCHANGED <<indexes, column>>
    BY <1>3 DEF Deactivate, StoreInv, TypeOK
  <2>. QED BY <1>a, <2>1
<1>4. ASSUME NEW diff \in Diffs, RunCycleWithDict(diff)
      PROVE  /\ \A t \in Tpids : indexes'.byTpid[t][p] = 0
             /\ \A b \in Tags : indexes'.byTag[b][p] = 0
             /\ column'[p] = 0
  <2>1. Expired \in SUBSET Orders /\ indexes' = RemoveOrders(indexes, Expired)
    BY <1>4 DEF RunCycleWithDict, Expired
  <2>2. /\ \A t \in Tpids : indexes'.byTpid[t][p] = 0
        /\ \A b \in Tags : indexes'.byTag[b][p] = 0
        /\ p \notin Expired => column[p] = 0
    <3>1. CASE p \in Expired
      <4>1. indexes'.tpidsOf[p] = NoListing(Tpids) /\ indexes'.tagsOf[p] = NoListing(Tags)
        BY <1>0, <2>1, <3>1, RemoveFacts
      <4>. QED BY <1>b, <3>1, <4>1
    <3>2. CASE p \notin Expired
      <4>1. indexes'.tpidsOf[p] = indexes.tpidsOf[p] /\ indexes'.tagsOf[p] = indexes.tagsOf[p]
        BY <1>0, <2>1, <3>2, RemoveFacts
      <4>2. ~active[p]
        BY <1>4, <3>2 DEF RunCycleWithDict
      <4>. QED BY <1>a, <4>1, <4>2
    <3>. QED BY <3>1, <3>2
  <2>3. column'[p] = Moved(0, Listings(indexes', p), diff)
    BY <1>4, <2>2 DEF RunCycleWithDict
  <2>4. \A t \in Tpids : Listings(indexes', p)[t] = 0
    BY <2>2 DEF Listings
  <2>5. Listings(indexes', p) \in Bag(Tpids) /\ diff \in [Tpids -> Int]
    BY <1>0, ListingsType, OrderAssumption DEF Indexes
  <2>. QED BY <2>2, <2>3, <2>4, <2>5, MovedFacts
<1>5. CASE Tick
  BY <1>5 DEF Tick, registry, DeadLeaveNothing
<1>6. CASE UNCHANGED vars
  BY <1>6 DEF vars, DeadLeaveNothing
<1>. QED BY <1>1, <1>2, <1>3, <1>4, <1>5, <1>6 DEF Next

(* An order that was evicted or has expired is in no list, and no cycle     *)
(* moves its slot away from zero.                                           *)
THEOREM DeadClean == Spec => []DeadLeaveNothing
<1>1. Init => DeadLeaveNothing
  BY DEF Init, NoListing, EmptyIndexes, DeadLeaveNothing
<1>. QED BY <1>1, StepDead, StoreInvariant, PTL DEF Spec

-----------------------------------------------------------------------------
(* Refinement of the book of live orders *)

(* The entry of an order in the book. *)
Entry(o) ==
  IF active[o] THEN [state |-> "live", tpids |-> indexes.tpidsOf[o], tags |-> indexes.tagsOf[o],
                     score |-> column[o], since |-> since[o]]
  ELSE [state |-> "none"]

TheBook == [o \in Orders |-> Entry(o)]

(* The store starts as an empty book.                                       *)
LEMMA RefineInit == Init => Book!Init
BY DEF Init, Book!Init, Book!None, Book!NoScore, NoScore

(* An ingestion is an acceptance. *)
LEMMA RefineIngest ==
  ASSUME StoreInv, StoreInv', NEW p \in Orders, NEW e \in Events, IngestOrder(p, e)
  PROVE  Book!Accept(p)
<1>0. /\ indexes \in Indexes /\ Agree(indexes)
      /\ indexes' \in Indexes /\ Agree(indexes)'
      /\ column = [o \in Orders |-> column[o]] /\ column' = [o \in Orders |-> column'[o]]
      /\ active \in [Orders -> BOOLEAN] /\ active' \in [Orders -> BOOLEAN]
      /\ since \in [Orders -> Nat] /\ since' \in [Orders -> Nat]
  BY DEF StoreInv, TypeOK, IndexesAgree
<1> DEFINE ix == IF active[p] THEN RemoveOrders(indexes, {p}) ELSE indexes
           c == [tpids |-> e.tpids, tags |-> e.tags, score |-> Clamp(e.base)]
<1>1. /\ active' = [active EXCEPT ![p] = TRUE] /\ since' = [since EXCEPT ![p] = now]
      /\ column' = [column EXCEPT ![p] = Clamp(e.base)]
      /\ UNCHANGED <<ranked, now>>
  BY DEF IngestOrder
<1>2. /\ ix \in Indexes /\ Agree(ix)
      /\ \A o \in Orders \ {p} : /\ ix.tpidsOf[o] = indexes.tpidsOf[o]
                                  /\ ix.tagsOf[o] = indexes.tagsOf[o]
  <2>1. {p} \in SUBSET Orders
    OBVIOUS
  <2> DEFINE R == RemoveOrders(indexes, {p})
  <2>2. /\ R \in Indexes /\ Agree(R)
        /\ \A o \in Orders \ {p} : /\ R.tpidsOf[o] = indexes.tpidsOf[o]
                                    /\ R.tagsOf[o] = indexes.tagsOf[o]
    BY <1>0, <2>1, RemoveFacts
  <2>. QED BY <1>0, <2>2
<1>3. indexes' = AddOrder(ix, p, e)
  BY DEF IngestOrder
<1> HIDE DEF ix
<1>4. /\ indexes'.tpidsOf[p] = e.tpids /\ indexes'.tagsOf[p] = e.tags
      /\ \A o \in Orders \ {p} : /\ indexes'.tpidsOf[o] = indexes.tpidsOf[o]
                                  /\ indexes'.tagsOf[o] = indexes.tagsOf[o]
  BY <1>2, <1>3, AddFacts, OrderAssumption
<1>5. TheBook' = [TheBook EXCEPT ![p] = [state |-> "live", tpids |-> c.tpids, tags |-> c.tags,
                                         score |-> c.score, since |-> now]]
  BY <1>0, <1>1, <1>4 DEF TheBook, Entry
<1>6. c \in {[tpids |-> f.tpids, tags |-> f.tags, score |-> Clamp(f.base)] : f \in Events}
  OBVIOUS
<1> HIDE DEF c
<1>. QED BY <1>1, <1>5, <1>6 DEF Book!Accept, TheBook, Entry

(* An eviction is a drop. *)
LEMMA RefineEvict ==
  ASSUME StoreInv, StoreInv', NEW p \in Orders, EvictOrder(p)
  PROVE  Book!Drop(p)
<1>0. /\ indexes \in Indexes /\ Agree(indexes)
      /\ indexes' \in Indexes /\ Agree(indexes)'
      /\ column = [o \in Orders |-> column[o]] /\ column' = [o \in Orders |-> column'[o]]
      /\ active \in [Orders -> BOOLEAN] /\ active' \in [Orders -> BOOLEAN]
      /\ since \in [Orders -> Nat] /\ since' \in [Orders -> Nat]
  BY DEF StoreInv, TypeOK, IndexesAgree
<1>1. /\ active' = [active EXCEPT ![p] = FALSE] /\ since' = [since EXCEPT ![p] = 0]
      /\ column' = [column EXCEPT ![p] = 0] /\ indexes' = RemoveOrders(indexes, {p})
      /\ UNCHANGED <<ranked, now>>
  BY DEF EvictOrder
<1>2. \A o \in Orders \ {p} : /\ indexes'.tpidsOf[o] = indexes.tpidsOf[o]
                              /\ indexes'.tagsOf[o] = indexes.tagsOf[o]
  <2>1. {p} \in SUBSET Orders
    OBVIOUS
  <2>. QED BY <1>0, <1>1, <2>1, RemoveFacts
<1>3. TheBook' = [TheBook EXCEPT ![p] = [state |-> "none"]]
  BY <1>0, <1>1, <1>2 DEF TheBook, Entry
<1>. QED BY <1>1, <1>3 DEF Book!Drop, Book!None, TheBook, Entry

(* So is deactivating an order, whether or not its time is forgotten. *)
LEMMA RefineDeactivate ==
  ASSUME StoreInv, StoreInv', NEW p \in Orders, active' = [active EXCEPT ![p] = FALSE],
         since' = since \/ since' = [since EXCEPT ![p] = 0],
         UNCHANGED <<indexes, column, ranked, now>>
  PROVE  Book!Drop(p)
<1>0. /\ indexes \in Indexes /\ Agree(indexes)
      /\ indexes' \in Indexes /\ Agree(indexes)'
      /\ column = [o \in Orders |-> column[o]] /\ column' = [o \in Orders |-> column'[o]]
      /\ active \in [Orders -> BOOLEAN] /\ active' \in [Orders -> BOOLEAN]
      /\ since \in [Orders -> Nat] /\ since' \in [Orders -> Nat]
  BY DEF StoreInv, TypeOK, IndexesAgree
<1>1. TheBook' = [TheBook EXCEPT ![p] = [state |-> "none"]]
  BY <1>0 DEF TheBook, Entry
<1>. QED BY <1>1 DEF Book!Drop, Book!None, TheBook, Entry

(* A cycle is one of the book, whichever copy of the indexes it reads, as   *)
(* long as the copy is right about the orders that stay.                    *)
LEMMA RefineCycle ==
  ASSUME StoreInv, StoreInv', NEW diff, NEW ix,
         \A o \in Orders \ Expired : active[o] =>
           /\ Listings(ix, o) = indexes.tpidsOf[o]
           /\ \A b \in Tags : ix.byTag[b][o] = indexes.tagsOf[o][b],
         active' = [o \in Orders |-> active[o] /\ o \notin Expired],
         since' = [o \in Orders |-> IF o \in Expired THEN 0 ELSE since[o]],
         indexes' = RemoveOrders(indexes, Expired),
         column' = [o \in Orders |-> Moved(IF o \in Expired THEN 0 ELSE column[o],
                                           Listings(ix, o), diff)],
         ranked' = Rank(active', ix, column'),
         now' = now
  PROVE  Book!Cycle(diff)
<1>0. /\ indexes \in Indexes /\ Agree(indexes)
      /\ indexes' \in Indexes /\ Agree(indexes)'
      /\ active \in [Orders -> BOOLEAN] /\ since \in [Orders -> Nat]
  BY DEF StoreInv, TypeOK, IndexesAgree
<1>2. \A o \in Orders \ Expired : /\ indexes'.tpidsOf[o] = indexes.tpidsOf[o]
                                  /\ indexes'.tagsOf[o] = indexes.tagsOf[o]
  <2>1. Expired \in SUBSET Orders
    BY DEF Expired
  <2>. QED BY <1>0, <2>1, RemoveFacts
<1>4. \A o \in Orders \ Expired : active[o] => column'[o] = Moved(column[o], indexes.tpidsOf[o], diff)
  OBVIOUS
<1>5. \A o \in Orders : o \in Expired <=> active[o] /\ now - since[o] > TTL
  BY DEF Expired, StoreInv, TypeOK
<1>6. ASSUME NEW o \in Orders
      PROVE  Entry(o)' = IF Entry(o) = Book!None \/ (Entry(o) # Book!None /\ now - Entry(o).since > TTL)
                         THEN Book!None
                         ELSE [Entry(o) EXCEPT !.score = Moved(@, Entry(o).tpids, diff)]
  <2>1. CASE ~active[o]
    BY <2>1 DEF Entry, Book!None
  <2>2. CASE active[o] /\ o \in Expired
    BY <1>5, <2>2 DEF Entry, Book!None
  <2>3. CASE active[o] /\ o \notin Expired
    <3>1. /\ active'[o] /\ since'[o] = since[o]
          /\ column'[o] = Moved(column[o], indexes.tpidsOf[o], diff)
      BY <1>4, <2>3
    <3>2. Entry(o) # Book!None /\ ~(now - Entry(o).since > TTL)
      BY <1>5, <2>3 DEF Entry, Book!None
    <3>. QED BY <1>2, <2>3, <3>1, <3>2 DEF Entry
  <2>. QED BY <1>0, <2>1, <2>2, <2>3
<1>7. ASSUME NEW b \in Tags, NEW o \in Orders
      PROVE  ranked'[b][o] = IF Entry(o)' # Book!None /\ Entry(o)'.tags[b] > 0
                             THEN Score(Entry(o)'.score) ELSE NoScore
  <2>1. ranked'[b][o] = IF active'[o] /\ ix.byTag[b][o] > 0 THEN Score(column'[o]) ELSE NoScore
    BY DEF Rank
  <2>2. ASSUME active'[o] PROVE ix.byTag[b][o] = indexes'.tagsOf[o][b]
    <3>1. active[o] /\ o \in Orders \ Expired
      BY <2>2
    <3>2. ix.byTag[b][o] = indexes.tagsOf[o][b]
      BY <3>1
    <3>. QED BY <1>2, <3>1, <3>2
  <2>. QED BY <1>0, <2>1, <2>2 DEF Entry, Book!None
<1>8. ranked' = [b \in Tags |-> [o \in Orders |-> ranked'[b][o]]]
  BY DEF Rank
<1>9. TheBook' = [o \in Orders |->
                    IF TheBook[o] = Book!None \/ (TheBook[o] # Book!None /\ now - TheBook[o].since > TTL)
                    THEN Book!None
                    ELSE [TheBook[o] EXCEPT !.score = Moved(@, TheBook[o].tpids, diff)]]
  BY <1>6 DEF TheBook
<1>10. ranked' = [b \in Tags |-> [o \in Orders |->
                    IF TheBook'[o] # Book!None /\ TheBook'[o].tags[b] > 0
                    THEN Book!Score(TheBook'[o].score) ELSE Book!NoScore]]
  <2>1. /\ NoScore = Book!NoScore
        /\ \A s : Score(s) = Book!Score(s)
    BY DEF Book!Score, Book!NoScore, Score, NoScore
  <2>2. \A o \in Orders : TheBook'[o] = Entry(o)'
    BY DEF TheBook
  <2>3. ASSUME NEW b \in Tags, NEW o \in Orders
        PROVE  ranked'[b][o] = IF TheBook'[o] # Book!None /\ TheBook'[o].tags[b] > 0
                               THEN Book!Score(TheBook'[o].score) ELSE Book!NoScore
    BY <1>7, <2>1, <2>2
  <2> HIDE DEF TheBook
  <2>. QED BY <1>8, <2>3
<1>. QED BY <1>9, <1>10 DEF Book!Cycle, Book!Expired, TheBook, Entry

(* Every step of the store is a step of the book, or changes nothing it     *)
(* shows.                                                                   *)
LEMMA RefineStep == StoreInv /\ StoreInv' /\ [Next]_vars => [Book!Next]_(Book!vars)
<1> SUFFICES ASSUME StoreInv, StoreInv', [Next]_vars PROVE [Book!Next]_(Book!vars)
  OBVIOUS
<1>1. ASSUME NEW p \in Deactivatable, Deactivate(p) PROVE Book!Drop(p)
  BY <1>1, RefineDeactivate, OrderAssumption DEF Deactivate
<1>2. ASSUME NEW diff \in Diffs, RunCycleWithDict(diff) PROVE Book!Cycle(diff)
  <2>1. /\ indexes' = RemoveOrders(indexes, Expired)
        /\ active' = [o \in Orders |-> active[o] /\ o \notin Expired]
        /\ since' = [o \in Orders |-> IF o \in Expired THEN 0 ELSE since[o]]
        /\ column' = [o \in Orders |-> Moved(IF o \in Expired THEN 0 ELSE column[o],
                                             Listings(indexes', o), diff)]
        /\ ranked' = Rank(active', indexes', column')
        /\ now' = now
    BY <1>2 DEF RunCycleWithDict
  <2>2. /\ indexes \in Indexes /\ Agree(indexes) /\ Expired \in SUBSET Orders
        /\ indexes' \in Indexes /\ Agree(indexes')
    BY DEF StoreInv, TypeOK, IndexesAgree, Expired
  <2>3. \A o \in Orders \ Expired :
          /\ Listings(indexes', o) = indexes.tpidsOf[o]
          /\ \A b \in Tags : indexes'.byTag[b][o] = indexes.tagsOf[o][b]
    <3>1. \A o \in Orders : Listings(indexes', o) = indexes'.tpidsOf[o]
      BY <2>2 DEF Listings, Agree, Indexes, Bag
    <3>2. \A o \in Orders \ Expired : /\ indexes'.tpidsOf[o] = indexes.tpidsOf[o]
                                      /\ indexes'.tagsOf[o] = indexes.tagsOf[o]
      BY <2>1, <2>2, RemoveFacts
    <3>. QED BY <2>2, <3>1, <3>2 DEF Agree
  <2>. QED BY <2>1, <2>3, RefineCycle
<1>3. ASSUME Tick PROVE Book!Tick
  BY <1>3 DEF Tick, registry, Book!Tick
<1>4. ASSUME UNCHANGED vars PROVE UNCHANGED Book!vars
  BY <1>4 DEF vars, Book!vars
<1>. QED BY <1>1, <1>2, <1>3, <1>4, RefineIngest, RefineEvict, OrderAssumption DEF Next, Book!Next

(* The registry, the four maps and the matrix together are a book of live   *)
(* orders, and a cycle shows exactly the live orders of each BinTag, none   *)
(* past its TTL, by the scores of that cycle.                               *)
THEOREM ImplementsBook == Spec => BookImplemented
BY RefineInit, RefineStep, StoreInvariant, PTL DEF Spec, BookImplemented, Book!Spec

-----------------------------------------------------------------------------
(* The snapshots of the Kotlin implementation *)

(* The inductive invariant: StoreInv does not look at the snapshots. *)
FrozenInv ==
  /\ StoreInv
  /\ frozen \in [byTpid : [Tpids -> Bag(Orders)], byTag : [Tags -> Bag(Orders)]]
  /\ dirty \subseteq {"tpids", "tags"}
  /\ SnapshotKeepsLive

(* A cycle of any caller, or a step of the others. *)
FrozenNext == StoreNext \/ \E diff \in Diffs : Cycle(diff)

(* The store with snapshots starts in the invariant.                        *)
LEMMA InitFrozen == FrozenInit => FrozenInv
<1> SUFFICES ASSUME FrozenInit PROVE FrozenInv
  OBVIOUS
<1>1. StoreInv
  BY InitStore DEF FrozenInit
<1>2. indexes \in Indexes
  BY <1>1 DEF StoreInv, TypeOK
<1>. QED BY <1>1, <1>2 DEF FrozenInit, FrozenInv, SnapshotKeepsLive, Indexes

(* Taking orders out of the lists leaves the others where they are. *)
LEMMA OthersStay ==
  ASSUME NEW S, NEW o \in Orders \ S
  PROVE  /\ \A b \in Tags : RemoveOrders(indexes, S).byTag[b][o] = indexes.byTag[b][o]
         /\ \A t \in Tpids : RemoveOrders(indexes, S).byTpid[t][o] = indexes.byTpid[t][o]
BY DEF RemoveOrders

(* The hypotheses on a cycle that CycleKeeps and RefineCycle make. *)
LEMMA CycleReads ==
  ASSUME FrozenInv, NEW diff \in Diffs, Cycle(diff)
  PROVE  /\ \A o \in Orders : Listings(frozen, o) \in Bag(Tpids)
         /\ active' = [o \in Orders |-> active[o] /\ o \notin Expired]
         /\ since' = [o \in Orders |-> IF o \in Expired THEN 0 ELSE since[o]]
         /\ indexes' = RemoveOrders(indexes, Expired)
         /\ column' = [o \in Orders |-> Moved(IF o \in Expired THEN 0 ELSE column[o],
                                              Listings(frozen, o), diff)]
         /\ ranked' = Rank(active', frozen, column')
         /\ now' = now
<1>1. frozen.byTpid \in [Tpids -> Bag(Orders)]
  BY DEF FrozenInv
<1>2. \A o \in Orders : Listings(frozen, o) \in Bag(Tpids)
  BY <1>1, ListingsType
<1>. QED BY <1>2 DEF Cycle

(* Every step keeps the invariant of the snapshots.                         *)
LEMMA StepFrozen == FrozenInv /\ [FrozenNext]_allVars => FrozenInv'
<1> SUFFICES ASSUME FrozenInv, [FrozenNext]_allVars PROVE FrozenInv'
  OBVIOUS
<1>0. /\ active \in [Orders -> BOOLEAN] /\ since \in [Orders -> Nat] /\ indexes \in Indexes
      /\ StoreInv /\ SnapshotKeepsLive
  BY DEF FrozenInv, StoreInv, TypeOK
<1>1. ASSUME NEW p \in Orders, NEW e \in Events, Ingest(p, e) PROVE FrozenInv'
  <2>1. StoreInv'
    BY <1>0, <1>1, IngestKeeps DEF Ingest
  <2>2. dirty' = {"tpids", "tags"} /\ frozen' = frozen
    BY <1>1 DEF Ingest
  <2>. QED BY <2>1, <2>2 DEF FrozenInv, SnapshotKeepsLive
<1>2. ASSUME NEW p \in Orders, Evict(p) PROVE FrozenInv'
  <2>1. StoreInv'
    BY <1>0, <1>2, EvictKeeps DEF Evict
  <2>2. /\ active' = [active EXCEPT ![p] = FALSE] /\ indexes' = RemoveOrders(indexes, {p})
        /\ UNCHANGED <<frozen, dirty>>
    BY <1>2 DEF Evict, EvictOrder
  <2>3. ASSUME NEW o \in Orders, active'[o]
        PROVE  /\ active[o]
               /\ \A b \in Tags : indexes'.byTag[b][o] = indexes.byTag[b][o]
               /\ \A t \in Tpids : indexes'.byTpid[t][o] = indexes.byTpid[t][o]
    <3>1. active[o] /\ o \in Orders \ {p}
      BY <1>0, <2>2, <2>3
    <3>. QED BY <2>2, <3>1, OthersStay
  <2>4. frozen' = frozen /\ dirty' = dirty
    BY <2>2
  <2>5. SnapshotKeepsLive'
    BY <1>0, <2>3, <2>4 DEF SnapshotKeepsLive
  <2>. QED BY <2>1, <2>4, <2>5 DEF FrozenInv
<1>3. ASSUME NEW p \in Deactivatable, DeactivateOrder(p) PROVE FrozenInv'
  <2>1. /\ active' = [active EXCEPT ![p] = FALSE] /\ since' = [since EXCEPT ![p] = 0]
        /\ UNCHANGED <<indexes, column, ranked, now, frozen, dirty>>
    BY <1>3 DEF DeactivateOrder
  <2>2. p \in Orders
    BY OrderAssumption
  <2>3. StoreInv'
    BY <1>0, <2>1, <2>2 DEF StoreInv, TypeOK, IndexesAgree
  <2>4. SnapshotKeepsLive'
    BY <1>0, <2>1, <2>2 DEF SnapshotKeepsLive
  <2>. QED BY <2>1, <2>3, <2>4 DEF FrozenInv
<1>4. ASSUME Materialize PROVE FrozenInv'
  <2>1. /\ frozen' = [frozen EXCEPT !.byTag = indexes.byTag]
        /\ dirty' = dirty \ {"tags"}
        /\ UNCHANGED <<active, since, indexes, column, ranked, now>>
    BY <1>4 DEF Materialize, store, vars
  <2>2. StoreInv'
    BY <1>0, <2>1 DEF StoreInv, TypeOK, IndexesAgree
  <2>3. frozen'.byTag = indexes.byTag /\ frozen'.byTpid = frozen.byTpid
    BY <2>1 DEF FrozenInv
  <2>4. SnapshotKeepsLive'
    BY <1>0, <2>1, <2>3 DEF SnapshotKeepsLive
  <2>5. frozen' \in [byTpid : [Tpids -> Bag(Orders)], byTag : [Tags -> Bag(Orders)]]
    BY <1>0, <2>1 DEF FrozenInv, Indexes
  <2>. QED BY <2>1, <2>2, <2>4, <2>5 DEF FrozenInv
<1>5. ASSUME MaterializeTpid PROVE FrozenInv'
  <2>1. /\ frozen' = [frozen EXCEPT !.byTpid = indexes.byTpid]
        /\ dirty' = dirty \ {"tpids"}
        /\ UNCHANGED <<active, since, indexes, column, ranked, now>>
    BY <1>5 DEF MaterializeTpid, store, vars
  <2>2. StoreInv'
    BY <1>0, <2>1 DEF StoreInv, TypeOK, IndexesAgree
  <2>3. frozen'.byTpid = indexes.byTpid /\ frozen'.byTag = frozen.byTag
    BY <2>1 DEF FrozenInv
  <2>4. SnapshotKeepsLive'
    BY <1>0, <2>1, <2>3 DEF SnapshotKeepsLive
  <2>5. frozen' \in [byTpid : [Tpids -> Bag(Orders)], byTag : [Tags -> Bag(Orders)]]
    BY <1>0, <2>1 DEF FrozenInv, Indexes
  <2>. QED BY <2>1, <2>2, <2>4, <2>5 DEF FrozenInv
<1>6. ASSUME NEW diff \in Diffs, Cycle(diff) PROVE FrozenInv'
  <2>1. StoreInv'
    BY <1>0, <1>6, CycleReads, CycleKeeps
  <2>2. /\ active' = [o \in Orders |-> active[o] /\ o \notin Expired]
        /\ indexes' = RemoveOrders(indexes, Expired)
        /\ UNCHANGED <<frozen, dirty>>
    BY <1>6 DEF Cycle
  <2>3. ASSUME NEW o \in Orders, active'[o]
        PROVE  /\ active[o]
               /\ \A b \in Tags : indexes'.byTag[b][o] = indexes.byTag[b][o]
               /\ \A t \in Tpids : indexes'.byTpid[t][o] = indexes.byTpid[t][o]
    <3>1. active[o] /\ o \in Orders \ Expired
      BY <2>2, <2>3
    <3>. QED BY <2>2, <3>1, OthersStay
  <2>4. SnapshotKeepsLive'
    BY <1>0, <2>2, <2>3 DEF SnapshotKeepsLive
  <2>. QED BY <2>1, <2>2, <2>4 DEF FrozenInv
<1>7. ASSUME Wait PROVE FrozenInv'
  <2>1. now' = now + 1 /\ UNCHANGED <<active, since, indexes, column, ranked, frozen, dirty>>
    BY <1>7 DEF Wait, Tick, registry
  <2>2. StoreInv'
    BY <1>0, <2>1 DEF StoreInv, TypeOK, IndexesAgree
  <2>. QED BY <2>1, <2>2 DEF FrozenInv, SnapshotKeepsLive
<1>8. ASSUME UNCHANGED allVars PROVE FrozenInv'
  BY <1>8 DEF allVars, vars, FrozenInv, StoreInv, TypeOK, IndexesAgree, SnapshotKeepsLive
<1>. QED BY <1>1, <1>2, <1>3, <1>4, <1>5, <1>6, <1>7, <1>8 DEF FrozenNext, StoreNext

(* The frozen side keeps the invariant of OrderStore, and its snapshots stay *)
(* right about the orders that are still active.                            *)
THEOREM FrozenInvariant == FrozenSpec => []FrozenInv
<1>1. FrozenInv /\ [StoreNext \/ \E diff \in Diffs : Cycle(diff)]_allVars => FrozenInv'
  BY StepFrozen DEF FrozenNext
<1>. QED BY <1>1, InitFrozen, PTL DEF FrozenSpec

(* Whatever is evicted, deactivated or expires after a snapshot, what the   *)
(* snapshot says of the orders that are still active is what the maps say.  *)
THEOREM SnapshotsStayRight == FrozenSpec => []SnapshotKeepsLive
<1>1. FrozenInv => SnapshotKeepsLive
  BY DEF FrozenInv
<1>. QED BY <1>1, FrozenInvariant, PTL

(* However stale the snapshots a cycle reads, what it shows is active and   *)
(* within its TTL.                                                          *)
THEOREM StaleShowsOnlyLive == FrozenSpec => OnlyLiveRanked
<1> DEFINE Live == ranked' # ranked =>
                     \A b \in Tags : \A o \in Orders :
                       ranked'[b][o] # NoScore => active'[o] /\ now - since'[o] <= TTL
<1>1. FrozenInv /\ [FrozenNext]_allVars => [Live]_allVars
  <2> SUFFICES ASSUME FrozenInv, FrozenNext, ranked' # ranked,
                      NEW b \in Tags, NEW o \in Orders, ranked'[b][o] # NoScore
               PROVE  active'[o] /\ now - since'[o] <= TTL
    OBVIOUS
  <2>1. PICK diff \in Diffs : Cycle(diff)
    BY DEF FrozenNext, StoreNext, Ingest, IngestOrder, Evict, EvictOrder, DeactivateOrder,
           Materialize, MaterializeTpid, Wait, Tick, store, vars, registry
  <2>2. active'[o]
    BY <2>1, CycleReads DEF Rank
  <2>3. active[o] /\ o \notin Expired /\ since'[o] = since[o]
    BY <2>1, <2>2 DEF Cycle
  <2>4. since[o] > 0 /\ since[o] \in Nat /\ now \in Nat
    BY <2>3 DEF FrozenInv, StoreInv, TypeOK
  <2>5. ~(now - since[o] > TTL)
    BY <2>3, <2>4 DEF Expired
  <2>. QED BY <2>2, <2>3, <2>4, <2>5, OrderAssumption
<1>2. FrozenInv /\ [StoreNext \/ \E diff \in Diffs : Cycle(diff)]_allVars => [Live]_allVars
  BY <1>1 DEF FrozenNext
<1>. QED BY <1>2, FrozenInvariant, PTL DEF FrozenSpec, OnlyLiveRanked

(* A step that starts with fresh snapshots is a step of the book. *)
LEMMA FreshStep ==
  ASSUME FrozenInv, FrozenInv', FrozenNext, dirty = {}
  PROVE  [Book!Next]_(Book!vars)
<1>0. StoreInv /\ StoreInv' /\ SnapshotKeepsLive
  BY DEF FrozenInv
<1>1. ASSUME NEW p \in Orders, NEW e \in Events, Ingest(p, e) PROVE Book!Accept(p)
  BY <1>0, <1>1, RefineIngest DEF Ingest
<1>2. ASSUME NEW p \in Orders, Evict(p) PROVE Book!Drop(p)
  BY <1>0, <1>2, RefineEvict DEF Evict
<1>3. ASSUME NEW p \in Deactivatable, DeactivateOrder(p) PROVE Book!Drop(p)
  BY <1>0, <1>3, RefineDeactivate, OrderAssumption DEF DeactivateOrder
<1>4. ASSUME Materialize \/ MaterializeTpid PROVE UNCHANGED Book!vars
  BY <1>4 DEF Materialize, MaterializeTpid, store, vars, Book!vars
<1>5. ASSUME NEW diff \in Diffs, Cycle(diff) PROVE Book!Cycle(diff)
  <2>1. indexes \in Indexes /\ Agree(indexes)
    BY <1>0 DEF StoreInv, TypeOK, IndexesAgree
  <2>2. ASSUME NEW o \in Orders \ Expired, active[o]
        PROVE  /\ Listings(frozen, o) = indexes.tpidsOf[o]
               /\ \A b \in Tags : frozen.byTag[b][o] = indexes.tagsOf[o][b]
    <3>1. /\ \A t \in Tpids : frozen.byTpid[t][o] = indexes.tpidsOf[o][t]
          /\ \A b \in Tags : frozen.byTag[b][o] = indexes.tagsOf[o][b]
      BY <1>0, <2>1, <2>2 DEF SnapshotKeepsLive, Agree
    <3>2. indexes.tpidsOf[o] = [t \in Tpids |-> indexes.tpidsOf[o][t]]
      BY <2>1 DEF Indexes, Bag
    <3>. QED BY <3>1, <3>2 DEF Listings
  <2>. QED BY <1>0, <1>5, <2>2, CycleReads, RefineCycle
<1>6. ASSUME Wait PROVE Book!Tick
  BY <1>6 DEF Wait, Tick, registry, Book!Tick
<1>. QED BY <1>1, <1>2, <1>3, <1>4, <1>5, <1>6, OrderAssumption DEF FrozenNext, StoreNext, Book!Next

(* Between a snapshot and the next ingestion the frozen side is the book of *)
(* live orders: a caller that takes both snapshots before a cycle is shown  *)
(* exactly the live orders, by the scores of that cycle.                    *)
THEOREM FreshIsBook == FrozenSpec => BookWhenFresh
<1>1. FrozenInv /\ FrozenInv' /\ [FrozenNext]_allVars
        => [dirty = {} => [Book!Next]_(Book!vars)]_allVars
  BY FreshStep
<1>2. FrozenInv /\ FrozenInv' /\ [StoreNext \/ \E diff \in Diffs : Cycle(diff)]_allVars
        => [dirty = {} => [Book!Next]_(Book!vars)]_allVars
  BY <1>1 DEF FrozenNext
<1>. QED BY <1>2, FrozenInvariant, PTL DEF FrozenSpec, BookWhenFresh

=============================================================================
