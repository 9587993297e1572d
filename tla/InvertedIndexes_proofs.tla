----------------------- MODULE InvertedIndexes_proofs -----------------------
(***************************************************************************)
(* What the operations of the inverted indexes do, for any orders, item    *)
(* types and BinTags, as long as the four maps agree.                      *)
(***************************************************************************)
EXTENDS InvertedIndexes, Lists_proofs

(* The arithmetic of a slot *)

(* The change of a slot is an integer, of a slot that is in no list zero.   *)
LEMMA DeltaFacts ==
  ASSUME NEW l \in Bag(Tpids), NEW diff \in [Tpids -> Int]
  PROVE  /\ Delta(l, diff) \in Int
         /\ (\A t \in Tpids : l[t] = 0) => Delta(l, diff) = 0
<1> DEFINE f == [t \in Tpids |-> l[t] * diff[t]]
<1>1. \A t \in Tpids : l[t] \in Nat /\ diff[t] \in Int
  BY DEF Bag
<1>2. \A t \in Tpids : f[t] \in Int /\ (l[t] = 0 => f[t] = 0)
  BY <1>1
<1>3. Delta(l, diff) = SumFunctionOnSet(f, Tpids) /\ IsFiniteSet(Tpids)
  BY ScoreAssumption DEF Delta
<1> HIDE DEF f
<1>. QED BY <1>2, <1>3, SumType, SumZero

(* A slot that was clamped stays in range, and moves as the listings say.   *)
LEMMA ClampFacts ==
  ASSUME NEW v \in Int
  PROVE  Clamp(v) \in Scores /\ Clamp(v) \in Int
BY ScoreAssumption DEF Clamp, Scores

(* A slot that is moved stays in range, and one of an order in no list      *)
(* stays zero.                                                              *)
LEMMA MovedFacts ==
  ASSUME NEW v \in Int, NEW l \in Bag(Tpids), NEW diff \in [Tpids -> Int]
  PROVE  /\ Moved(v, l, diff) \in Scores
         /\ (\A t \in Tpids : l[t] = 0) => Moved(0, l, diff) = 0
<1>1. Delta(l, diff) \in Int /\ v + Delta(l, diff) \in Int
  BY DeltaFacts
<1>2. Moved(v, l, diff) \in Scores
  BY <1>1, ClampFacts DEF Moved
<1>3. (\A t \in Tpids : l[t] = 0) => Moved(0, l, diff) = 0
  BY DeltaFacts, ScoreAssumption DEF Moved, Clamp
<1>. QED BY <1>2, <1>3

-----------------------------------------------------------------------------

(* The operations of the indexes *)

(* RemoveOrder clears what it is called for, and nothing else. *)
LEMMA RemoveFacts ==
  ASSUME NEW ix \in Indexes, Agree(ix), NEW S \in SUBSET Orders,
         NEW R, R = RemoveOrders(ix, S)
  PROVE  /\ R \in Indexes
         /\ Agree(R)
         /\ \A o \in S : R.tpidsOf[o] = NoListing(Tpids) /\ R.tagsOf[o] = NoListing(Tags)
         /\ \A o \in Orders \ S : R.tpidsOf[o] = ix.tpidsOf[o] /\ R.tagsOf[o] = ix.tagsOf[o]
<1> USE DEF Indexes, Bag
<1>1. \A n, m \in Nat : Less(n, m) \in Nat
  BY DEF Less
<1>2. \A n \in Nat : Less(n, n) = 0
  BY DEF Less
<1>3. R.byTpid \in [Tpids -> [Orders -> Nat]]
  BY <1>1 DEF RemoveOrders
<1>4. R.byTag \in [Tags -> [Orders -> Nat]]
  BY <1>1 DEF RemoveOrders
<1>5. R.tpidsOf \in [Orders -> [Tpids -> Nat]] /\ R.tagsOf \in [Orders -> [Tags -> Nat]]
  BY DEF RemoveOrders, NoListing
<1>6. R \in Indexes
  BY <1>3, <1>4, <1>5 DEF RemoveOrders
<1>7. /\ \A o \in S : R.tpidsOf[o] = NoListing(Tpids) /\ R.tagsOf[o] = NoListing(Tags)
      /\ \A o \in Orders \ S : R.tpidsOf[o] = ix.tpidsOf[o] /\ R.tagsOf[o] = ix.tagsOf[o]
  BY DEF RemoveOrders
<1>8. ASSUME NEW o \in Orders, NEW t \in Tpids PROVE R.byTpid[t][o] = R.tpidsOf[o][t]
  <2>1. ix.byTpid[t][o] = ix.tpidsOf[o][t] /\ ix.byTpid[t][o] \in Nat
    BY DEF Agree
  <2>2. R.byTpid[t][o] = IF o \in S THEN Less(ix.byTpid[t][o], ix.tpidsOf[o][t]) ELSE ix.byTpid[t][o]
    BY DEF RemoveOrders
  <2>. QED BY <1>2, <1>7, <2>1, <2>2 DEF NoListing
<1>9. ASSUME NEW o \in Orders, NEW b \in Tags PROVE R.byTag[b][o] = R.tagsOf[o][b]
  <2>1. ix.byTag[b][o] = ix.tagsOf[o][b] /\ ix.byTag[b][o] \in Nat
    BY DEF Agree
  <2>2. R.byTag[b][o] = IF o \in S THEN Less(ix.byTag[b][o], ix.tagsOf[o][b]) ELSE ix.byTag[b][o]
    BY DEF RemoveOrders
  <2>. QED BY <1>2, <1>7, <2>1, <2>2 DEF NoListing
<1>. QED BY <1>6, <1>7, <1>8, <1>9 DEF Agree

(* An order that is in no list is listed as the event says. *)
LEMMA ListFacts ==
  ASSUME NEW R \in Indexes, Agree(R), NEW p \in Orders, NEW e \in OrderEvents,
         R.tpidsOf[p] = NoListing(Tpids), R.tagsOf[p] = NoListing(Tags),
         NEW A, A = List(R, p, e)
  PROVE  /\ A \in Indexes
         /\ Agree(A)
         /\ A.tpidsOf[p] = e.tpids /\ A.tagsOf[p] = e.tags
         /\ \A o \in Orders \ {p} : A.tpidsOf[o] = R.tpidsOf[o] /\ A.tagsOf[o] = R.tagsOf[o]
<1>1. /\ R \in Indexes /\ Agree(R)
      /\ R.tpidsOf[p] = NoListing(Tpids) /\ R.tagsOf[p] = NoListing(Tags)
  OBVIOUS
<1>2. A = List(R, p, e)
  OBVIOUS
<1>3. e.tpids \in [Tpids -> Nat] /\ e.tags \in [Tags -> Nat]
  BY DEF OrderEvents, Bag
<1>4. \A t \in Tpids : A.byTpid[t] = [R.byTpid[t] EXCEPT ![p] = @ + e.tpids[t]]
  BY <1>2 DEF List
<1>5. \A b \in Tags : A.byTag[b] = [R.byTag[b] EXCEPT ![p] = @ + e.tags[b]]
  BY <1>2 DEF List
<1>6. A.tpidsOf = [R.tpidsOf EXCEPT ![p] = e.tpids] /\ A.tagsOf = [R.tagsOf EXCEPT ![p] = e.tags]
  BY <1>2 DEF List
<1>7. A \in Indexes
  <2>1. A.byTpid \in [Tpids -> [Orders -> Nat]]
    BY <1>1, <1>2, <1>3 DEF List, Indexes, Bag
  <2>2. A.byTag \in [Tags -> [Orders -> Nat]]
    BY <1>1, <1>2, <1>3 DEF List, Indexes, Bag
  <2>3. A.tpidsOf \in [Orders -> [Tpids -> Nat]] /\ A.tagsOf \in [Orders -> [Tags -> Nat]]
    BY <1>1, <1>3, <1>6 DEF Indexes, Bag
  <2>. QED BY <1>2, <2>1, <2>2, <2>3 DEF List, Indexes, Bag
<1>8. ASSUME NEW o \in Orders, NEW t \in Tpids PROVE A.byTpid[t][o] = A.tpidsOf[o][t]
  <2>1. R.byTpid[t][o] = R.tpidsOf[o][t] /\ R.byTpid[t] \in [Orders -> Nat]
    BY <1>1 DEF Agree, Indexes, Bag
  <2>2. CASE o = p
    <3>1. R.byTpid[t][p] = 0
      BY <1>1, <2>1, <2>2 DEF NoListing
    <3>2. A.byTpid[t][p] = 0 + e.tpids[t]
      BY <1>4, <2>1, <3>1
    <3>3. A.tpidsOf[p] = e.tpids
      BY <1>1, <1>6 DEF Indexes
    <3>. QED BY <1>3, <2>2, <3>2, <3>3
  <2>3. CASE o # p
    BY <1>1, <1>4, <1>6, <2>1, <2>3 DEF Indexes
  <2>. QED BY <2>2, <2>3
<1>9. ASSUME NEW o \in Orders, NEW b \in Tags PROVE A.byTag[b][o] = A.tagsOf[o][b]
  <2>1. R.byTag[b][o] = R.tagsOf[o][b] /\ R.byTag[b] \in [Orders -> Nat]
    BY <1>1 DEF Agree, Indexes, Bag
  <2>2. CASE o = p
    <3>1. R.byTag[b][p] = 0
      BY <1>1, <2>1, <2>2 DEF NoListing
    <3>2. A.byTag[b][p] = 0 + e.tags[b]
      BY <1>5, <2>1, <3>1
    <3>3. A.tagsOf[p] = e.tags
      BY <1>1, <1>6 DEF Indexes
    <3>. QED BY <1>3, <2>2, <3>2, <3>3
  <2>3. CASE o # p
    BY <1>1, <1>5, <1>6, <2>1, <2>3 DEF Indexes
  <2>. QED BY <2>2, <2>3
<1>10. /\ A.tpidsOf[p] = e.tpids /\ A.tagsOf[p] = e.tags
       /\ \A o \in Orders \ {p} : A.tpidsOf[o] = R.tpidsOf[o] /\ A.tagsOf[o] = R.tagsOf[o]
  BY <1>1, <1>6 DEF Indexes
<1>. QED BY <1>7, <1>8, <1>9, <1>10 DEF Agree

(* AddOrder lists the order as the event says, whatever it was listed under *)
(* before.                                                                  *)
LEMMA AddFacts ==
  ASSUME NEW ix \in Indexes, Agree(ix), NEW p \in Orders, NEW e \in OrderEvents,
         NEW A, A = AddOrder(ix, p, e)
  PROVE  /\ A \in Indexes
         /\ Agree(A)
         /\ A.tpidsOf[p] = e.tpids /\ A.tagsOf[p] = e.tags
         /\ \A o \in Orders \ {p} : A.tpidsOf[o] = ix.tpidsOf[o] /\ A.tagsOf[o] = ix.tagsOf[o]
<1> DEFINE R == RemoveOrders(ix, {p})
<1>1. /\ R \in Indexes /\ Agree(R)
      /\ R.tpidsOf[p] = NoListing(Tpids) /\ R.tagsOf[p] = NoListing(Tags)
      /\ \A o \in Orders \ {p} : R.tpidsOf[o] = ix.tpidsOf[o] /\ R.tagsOf[o] = ix.tagsOf[o]
  <2>1. {p} \in SUBSET Orders
    OBVIOUS
  <2>. QED BY <2>1, RemoveFacts
<1>2. A = List(R, p, e)
  BY DEF AddOrder
<1> HIDE DEF R
<1>. QED BY <1>1, <1>2, ListFacts

(* While the maps agree it makes no difference whether an order is taken out *)
(* of its lists once for every entry of the reverse map, or all at once.     *)
LEMMA RetainIsRemove ==
  ASSUME NEW ix \in Indexes, Agree(ix), NEW S \in SUBSET Orders
  PROVE  RetainOthers(ix, S) = RemoveOrders(ix, S)
<1>1. ASSUME NEW t \in Tpids, NEW o \in Orders
      PROVE  (IF o \in S /\ ix.tpidsOf[o][t] > 0 THEN 0 ELSE ix.byTpid[t][o])
             = (IF o \in S THEN Less(ix.byTpid[t][o], ix.tpidsOf[o][t]) ELSE ix.byTpid[t][o])
  <2>1. ix.byTpid[t][o] = ix.tpidsOf[o][t] /\ ix.byTpid[t][o] \in Nat
    BY DEF Agree, Indexes, Bag
  <2>. QED BY <2>1 DEF Less
<1>2. ASSUME NEW b \in Tags, NEW o \in Orders
      PROVE  (IF o \in S /\ ix.tagsOf[o][b] > 0 THEN 0 ELSE ix.byTag[b][o])
             = (IF o \in S THEN Less(ix.byTag[b][o], ix.tagsOf[o][b]) ELSE ix.byTag[b][o])
  <2>1. ix.byTag[b][o] = ix.tagsOf[o][b] /\ ix.byTag[b][o] \in Nat
    BY DEF Agree, Indexes, Bag
  <2>. QED BY <2>1 DEF Less
<1>3. RetainOthers(ix, S).byTpid = RemoveOrders(ix, S).byTpid
  BY <1>1 DEF RetainOthers, RemoveOrders
<1>4. RetainOthers(ix, S).byTag = RemoveOrders(ix, S).byTag
  BY <1>2 DEF RetainOthers, RemoveOrders
<1>. QED BY <1>3, <1>4 DEF RetainOthers, RemoveOrders

=============================================================================
