------------------------- MODULE MatrixStore_proofs -------------------------
(***************************************************************************)
(* For any orders, item types, BinTags, events, pairs and number of rows,  *)
(* of rust-impl and of go-pure-impl: the rows there are from the start     *)
(* agree, a dead order leaves nothing in any row, and rust-impl keeps the  *)
(* book of live orders.                                                    *)
(***************************************************************************)
EXTENDS MatrixStore, InvertedIndexes_proofs

(* A matrix whose rows hold one slot for every order. *)
IsMatrix(m) ==
  /\ BaseRows \subseteq DOMAIN m
  /\ \A r \in DOMAIN m : m[r] = [o \in Orders |-> m[r][o]]

(* The slots an implementation can hold: rust-impl uses the whole type. *)
SlotRange(i) == IF i = "rust" THEN ScoreMin - 1 .. ScoreMax ELSE Scores

InRange(m, i) == \A r \in DOMAIN m : \A o \in Orders : m[r][o] \in SlotRange(i)

(* The inductive invariant. *)
MatrixInv ==
  /\ impl \in {"rust", "pure"}
  /\ active \in [Orders -> BOOLEAN]
  /\ since \in [Orders -> Nat]
  /\ indexes \in Indexes
  /\ Agree(indexes)
  /\ IsMatrix(matrix)
  /\ RowsAgree
  /\ InRange(matrix, impl)
  /\ pairs \subseteq [pps : Nat, tag : Tags]
  /\ \A b \in Tags : Pair(FirstPps, b) \in pairs
  /\ impl = "rust" => \A pr \in pairs : pr.pps \in DOMAIN matrix
  /\ now \in Nat \ {0}
  /\ \A o \in Orders : active[o] => since[o] > 0

-----------------------------------------------------------------------------
(* The arithmetic of either implementation *)

(* Saturating brings any number into the range, and leaves those in it. *)
LEMMA SaturateFacts ==
  ASSUME NEW i, NEW v \in Int
  PROVE  /\ Saturate(i, v) \in SlotRange(i) /\ Saturate(i, v) \in Int
         /\ v \in SlotRange(i) => Saturate(i, v) = v
<1>1. Saturate(i, v) = IF i = "rust" /\ v < ScoreMin THEN ScoreMin - 1
                       ELSE IF v > ScoreMax THEN ScoreMax ELSE IF v < ScoreMin THEN ScoreMin ELSE v
  BY DEF Saturate, Clamp
<1>2. CASE i = "rust"
  <2>1. SlotRange(i) = ScoreMin - 1 .. ScoreMax
    BY <1>2 DEF SlotRange
  <2>. QED BY <1>1, <1>2, <2>1, ScoreAssumption
<1>3. CASE i # "rust"
  <2>1. SlotRange(i) = ScoreMin .. ScoreMax
    BY <1>3 DEF SlotRange, Scores
  <2>. QED BY <1>1, <1>3, <2>1, ScoreAssumption
<1>. QED BY <1>2, <1>3

(* Every implementation keeps numbers in its slots, zero among them.        *)
LEMMA SlotsAreNumbers == \A i : SlotRange(i) \subseteq Int /\ 0 \in SlotRange(i)
BY ScoreAssumption DEF SlotRange, Scores

(* A slot moves within the range; one of an order in no list stays zero. *)
LEMMA MovedByFacts ==
  ASSUME NEW v \in Int, NEW l \in Bag(Tpids), NEW diff \in [Tpids -> Int], impl \in {"rust", "pure"}
  PROVE  /\ MovedBy(v, l, diff) \in SlotRange(impl)
         /\ (\A t \in Tpids : l[t] = 0) => MovedBy(0, l, diff) = 0
<1>1. Delta(l, diff) \in Int
  BY DeltaFacts
<1>2. CASE impl = "rust"
  <2> DEFINE d == Saturate("rust", Delta(l, diff))
  <2>1. d \in Int /\ v + d \in Int
    BY <1>1, SaturateFacts
  <2>2. MovedBy(v, l, diff) = Saturate("rust", v + d) /\ MovedBy(0, l, diff) = Saturate("rust", 0 + d)
    BY <1>2 DEF MovedBy, RustMoved
  <2>3. Saturate("rust", v + d) \in SlotRange("rust")
    BY <2>1, SaturateFacts
  <2>4. Saturate("rust", 0) = 0
    BY SaturateFacts, SlotsAreNumbers
  <2>5. (\A t \in Tpids : l[t] = 0) => d = 0
    BY <2>4, DeltaFacts
  <2> HIDE DEF d
  <2>6. 0 + d = d
    BY <2>1
  <2>. QED BY <1>2, <2>2, <2>3, <2>4, <2>5, <2>6
<1>3. CASE impl = "pure"
  <2>1. SlotRange(impl) = Scores /\ MovedBy(v, l, diff) = Moved(v, l, diff)
        /\ MovedBy(0, l, diff) = Moved(0, l, diff)
    BY <1>3 DEF SlotRange, MovedBy
  <2>. QED BY <2>1, MovedFacts
<1>. QED BY <1>2, <1>3

-----------------------------------------------------------------------------
(* The indexes and the matrix *)

(* However an implementation takes orders out of the indexes, the result    *)
(* is the same.                                                             *)
LEMMA RemoveAny ==
  ASSUME NEW ix \in Indexes, Agree(ix), NEW S \in SUBSET Orders
  PROVE  Remove(ix, S) = RemoveOrders(ix, S)
BY RetainIsRemove DEF Remove

(* The matrix has a row from the start.                                     *)
LEMMA FirstRow == 0 \in BaseRows
BY MatrixAssumption DEF BaseRows

(* What is done to every row alike leaves the rows of the start alike. *)
LEMMA EvictAlike ==
  ASSUME NEW m, IsMatrix(m), \A r \in BaseRows : m[r] = m[0], NEW S, NEW n, n = EvictSlots(m, S)
  PROVE  /\ IsMatrix(n) /\ DOMAIN n = DOMAIN m
         /\ \A r \in BaseRows : n[r] = n[0]
         /\ \A r \in DOMAIN m : \A o \in Orders : n[r][o] = IF o \in S THEN 0 ELSE m[r][o]
<1>1. /\ DOMAIN n = DOMAIN m
      /\ \A r \in DOMAIN m : n[r] = [o \in Orders |-> IF o \in S THEN 0 ELSE m[r][o]]
  BY DEF EvictSlots
<1>. QED BY <1>1, FirstRow DEF IsMatrix

(* Phase 1 leaves the rows of the start alike.                              *)
LEMMA MoveAlike ==
  ASSUME NEW m, IsMatrix(m), \A r \in BaseRows : m[r] = m[0],
         NEW ix, NEW diff, NEW n, n = MoveAll(m, ix, diff)
  PROVE  /\ IsMatrix(n) /\ DOMAIN n = DOMAIN m
         /\ \A r \in BaseRows : n[r] = n[0]
         /\ \A r \in DOMAIN m : \A o \in Orders : n[r][o] = MovedBy(m[r][o], Listings(ix, o), diff)
<1>1. /\ DOMAIN n = DOMAIN m
      /\ \A r \in DOMAIN m : n[r] = [o \in Orders |-> MovedBy(m[r][o], Listings(ix, o), diff)]
  BY DEF MoveAll
<1>. QED BY <1>1, FirstRow DEF IsMatrix

(* Writing the base score of an order leaves the rows of the start alike,   *)
(* and the other orders alone.                                              *)
LEMMA WriteAlike ==
  ASSUME NEW m, IsMatrix(m), \A r \in BaseRows : m[r] = m[0],
         NEW p \in Orders, NEW v, NEW n, n = WriteBase(m, p, v)
  PROVE  /\ IsMatrix(n) /\ DOMAIN n = DOMAIN m
         /\ \A r \in BaseRows : n[r] = n[0]
         /\ \A r \in DOMAIN m : \A o \in Orders \ {p} : n[r][o] = m[r][o]
         /\ \A r \in DOMAIN m : n[r][p] = v \/ n[r][p] = m[r][p]
         /\ n[0][p] = v
<1>1. /\ DOMAIN n = DOMAIN m
      /\ \A r \in DOMAIN m : n[r] = IF r \in BaseRows THEN [m[r] EXCEPT ![p] = v] ELSE m[r]
  BY DEF WriteBase
<1>2. \A r \in DOMAIN m : m[r] = [o \in Orders |-> m[r][o]]
  BY DEF IsMatrix
<1>3. \A r \in DOMAIN m : n[r] = [o \in Orders |-> n[r][o]]
  BY <1>1, <1>2
<1>4. 0 \in DOMAIN m /\ BaseRows \subseteq DOMAIN m
  BY FirstRow DEF IsMatrix
<1>. QED BY <1>1, <1>2, <1>3, <1>4, FirstRow DEF IsMatrix

-----------------------------------------------------------------------------
(* What an action does to the indexes and to the matrix *)

(* What ingesting an order makes of the indexes and the matrix.             *)
LEMMA IngestFacts ==
  ASSUME MatrixInv, NEW p \in Orders, NEW e \in Events, IngestOrder(p, e)
  PROVE  /\ indexes' \in Indexes /\ Agree(indexes')
         /\ indexes'.tpidsOf[p] = e.tpids /\ indexes'.tagsOf[p] = e.tags
         /\ \A o \in Orders \ {p} : /\ indexes'.tpidsOf[o] = indexes.tpidsOf[o]
                                     /\ indexes'.tagsOf[o] = indexes.tagsOf[o]
         /\ IsMatrix(matrix') /\ DOMAIN matrix' = DOMAIN matrix
         /\ \A r \in BaseRows : matrix'[r] = matrix'[0]
         /\ \A r \in DOMAIN matrix : \A o \in Orders \ {p} : matrix'[r][o] = matrix[r][o]
         /\ \A r \in DOMAIN matrix : \/ matrix'[r][p] = Saturate(impl, e.base)
                                     \/ matrix'[r][p] = matrix[r][p]
         /\ matrix'[0][p] = Saturate(impl, e.base)
<1> DEFINE R == RemoveOrders(indexes, {p})
<1>1. {p} \in SUBSET Orders /\ e \in OrderEvents
  BY MatrixAssumption
<1>2. /\ R \in Indexes /\ Agree(R)
      /\ R.tpidsOf[p] = NoListing(Tpids) /\ R.tagsOf[p] = NoListing(Tags)
      /\ \A o \in Orders \ {p} : R.tpidsOf[o] = indexes.tpidsOf[o] /\ R.tagsOf[o] = indexes.tagsOf[o]
  BY <1>1, RemoveFacts DEF MatrixInv
<1>3. indexes' = List(R, p, e)
  BY <1>1, RemoveAny DEF IngestOrder, MatrixInv
<1> HIDE DEF R
<1>4. /\ indexes' \in Indexes /\ Agree(indexes')
      /\ indexes'.tpidsOf[p] = e.tpids /\ indexes'.tagsOf[p] = e.tags
      /\ \A o \in Orders \ {p} : /\ indexes'.tpidsOf[o] = R.tpidsOf[o]
                                  /\ indexes'.tagsOf[o] = R.tagsOf[o]
  BY <1>1, <1>2, <1>3, ListFacts
<1>5. matrix' = WriteBase(matrix, p, Saturate(impl, e.base))
  BY DEF IngestOrder
<1>6. IsMatrix(matrix) /\ \A r \in BaseRows : matrix[r] = matrix[0]
  BY DEF MatrixInv, RowsAgree
<1>. QED BY <1>2, <1>4, <1>5, <1>6, WriteAlike

(* What evicting orders makes of the indexes and the matrix.                *)
LEMMA EvictFacts ==
  ASSUME MatrixInv, NEW p \in Orders, EvictOrder(p)
  PROVE  /\ indexes' \in Indexes /\ Agree(indexes')
         /\ indexes'.tpidsOf[p] = NoListing(Tpids) /\ indexes'.tagsOf[p] = NoListing(Tags)
         /\ \A o \in Orders \ {p} : /\ indexes'.tpidsOf[o] = indexes.tpidsOf[o]
                                     /\ indexes'.tagsOf[o] = indexes.tagsOf[o]
         /\ IsMatrix(matrix') /\ DOMAIN matrix' = DOMAIN matrix
         /\ \A r \in BaseRows : matrix'[r] = matrix'[0]
         /\ \A r \in DOMAIN matrix : \A o \in Orders :
              matrix'[r][o] = IF o = p THEN 0 ELSE matrix[r][o]
<1>1. {p} \in SUBSET Orders
  OBVIOUS
<1>2. indexes' = RemoveOrders(indexes, {p})
  BY <1>1, RemoveAny DEF EvictOrder, MatrixInv
<1>3. /\ indexes' \in Indexes /\ Agree(indexes')
      /\ indexes'.tpidsOf[p] = NoListing(Tpids) /\ indexes'.tagsOf[p] = NoListing(Tags)
      /\ \A o \in Orders \ {p} : /\ indexes'.tpidsOf[o] = indexes.tpidsOf[o]
                                  /\ indexes'.tagsOf[o] = indexes.tagsOf[o]
  BY <1>1, <1>2, RemoveFacts DEF MatrixInv
<1>4. matrix' = EvictSlots(matrix, {p}) /\ IsMatrix(matrix)
      /\ \A r \in BaseRows : matrix[r] = matrix[0]
  BY DEF EvictOrder, MatrixInv, RowsAgree
<1>5. /\ IsMatrix(matrix') /\ DOMAIN matrix' = DOMAIN matrix
      /\ \A r \in BaseRows : matrix'[r] = matrix'[0]
      /\ \A r \in DOMAIN matrix : \A o \in Orders :
           matrix'[r][o] = IF o \in {p} THEN 0 ELSE matrix[r][o]
  BY <1>4, EvictAlike
<1>. QED BY <1>3, <1>5

(* What the update of a cycle makes of the matrix.                          *)
LEMMA CycleFacts ==
  ASSUME MatrixInv, NEW diff \in Diffs, RunCycleWithDict(diff)
  PROVE  /\ indexes' \in Indexes /\ Agree(indexes')
         /\ \A o \in Expired : /\ indexes'.tpidsOf[o] = NoListing(Tpids)
                               /\ indexes'.tagsOf[o] = NoListing(Tags)
         /\ \A o \in Orders \ Expired : /\ indexes'.tpidsOf[o] = indexes.tpidsOf[o]
                                         /\ indexes'.tagsOf[o] = indexes.tagsOf[o]
         /\ IsMatrix(matrix') /\ DOMAIN matrix' = DOMAIN matrix
         /\ \A r \in BaseRows : matrix'[r] = matrix'[0]
         /\ \A r \in DOMAIN matrix : \A o \in Orders :
              matrix'[r][o] = MovedBy(IF o \in Expired THEN 0 ELSE matrix[r][o],
                                      Listings(indexes', o), diff)
<1>1. Expired \in SUBSET Orders
  BY DEF Expired
<1>2. indexes' = RemoveOrders(indexes, Expired)
  BY <1>1, RemoveAny DEF RunCycleWithDict, MatrixInv
<1>3. /\ indexes' \in Indexes /\ Agree(indexes')
      /\ \A o \in Expired : /\ indexes'.tpidsOf[o] = NoListing(Tpids)
                            /\ indexes'.tagsOf[o] = NoListing(Tags)
      /\ \A o \in Orders \ Expired : /\ indexes'.tpidsOf[o] = indexes.tpidsOf[o]
                                      /\ indexes'.tagsOf[o] = indexes.tagsOf[o]
  BY <1>1, <1>2, RemoveFacts DEF MatrixInv
<1> DEFINE m == EvictSlots(matrix, Expired)
<1>4. IsMatrix(matrix) /\ \A r \in BaseRows : matrix[r] = matrix[0]
  BY DEF MatrixInv, RowsAgree
<1>5. /\ IsMatrix(m) /\ DOMAIN m = DOMAIN matrix
      /\ \A r \in BaseRows : m[r] = m[0]
      /\ \A r \in DOMAIN matrix : \A o \in Orders :
           m[r][o] = IF o \in Expired THEN 0 ELSE matrix[r][o]
  BY <1>4, EvictAlike
<1>6. matrix' = MoveAll(m, indexes', diff)
  BY DEF RunCycleWithDict
<1> HIDE DEF m
<1>7. /\ IsMatrix(matrix') /\ DOMAIN matrix' = DOMAIN m
      /\ \A r \in BaseRows : matrix'[r] = matrix'[0]
      /\ \A r \in DOMAIN m : \A o \in Orders :
           matrix'[r][o] = MovedBy(m[r][o], Listings(indexes', o), diff)
  BY <1>5, <1>6, MoveAlike
<1>. QED BY <1>3, <1>5, <1>7

(* A row added at run time starts at zero and changes no other.             *)
LEMMA AddPairFacts ==
  ASSUME MatrixInv, NEW pr \in NewPairs, HandleAddPair(pr)
  PROVE  /\ IsMatrix(matrix') /\ pr.pps \in DOMAIN matrix'
         /\ \A r \in BaseRows : matrix'[r] = matrix'[0]
         /\ \A r \in DOMAIN matrix' \ DOMAIN matrix : \A o \in Orders : matrix'[r][o] = 0
         /\ \A r \in DOMAIN matrix : r \in DOMAIN matrix' /\ matrix'[r] = matrix[r]
<1>1. /\ DOMAIN matrix' = DOMAIN matrix \cup 0 .. pr.pps
      /\ \A r \in DOMAIN matrix' :
           matrix'[r] = IF r \in DOMAIN matrix THEN matrix[r] ELSE [o \in Orders |-> 0]
  BY DEF HandleAddPair
<1>2. BaseRows \subseteq DOMAIN matrix /\ 0 \in BaseRows
  BY FirstRow DEF MatrixInv, IsMatrix
<1>3. pr.pps \in 0 .. pr.pps
  BY MatrixAssumption
<1>. QED BY <1>1, <1>2, <1>3 DEF MatrixInv, IsMatrix, RowsAgree

-----------------------------------------------------------------------------
(* The invariant *)

(* The engine starts in the invariant.                                      *)
LEMMA InitMatrix == Init => MatrixInv
<1> SUFFICES ASSUME Init PROVE MatrixInv
  OBVIOUS
<1>1. indexes \in Indexes /\ Agree(indexes)
  BY DEF Init, EmptyIndexes, NoListing, Indexes, Bag, Agree
<1>2. IsMatrix(matrix) /\ RowsAgree
  BY FirstRow DEF Init, IsMatrix, RowsAgree
<1>3. \A b \in Tags : Pair(FirstPps, b) \in pairs
  BY FirstRow, MatrixAssumption DEF Init, Pair, FirstPps, PpsIds
<1>4. InRange(matrix, impl)
  BY SlotsAreNumbers DEF Init, InRange
<1>5. /\ pairs \subseteq [pps : Nat, tag : Tags]
      /\ impl = "rust" => \A pr \in pairs : pr.pps \in DOMAIN matrix
  BY MatrixAssumption DEF Init, PpsIds, BaseRows
<1>. QED BY <1>1, <1>2, <1>3, <1>4, <1>5 DEF Init, MatrixInv

(* Every step keeps the invariant.                                          *)
LEMMA StepMatrix == MatrixInv /\ [Next]_vars => MatrixInv'
<1> SUFFICES ASSUME MatrixInv, [Next]_vars PROVE MatrixInv'
  OBVIOUS
<1>1. ASSUME NEW p \in Orders, NEW e \in Events, IngestOrder(p, e) PROVE MatrixInv'
  <2>1. /\ active' = [active EXCEPT ![p] = TRUE] /\ since' = [since EXCEPT ![p] = now]
        /\ UNCHANGED <<impl, pairs, now>>
    BY <1>1 DEF IngestOrder
  <2>2. /\ indexes' \in Indexes /\ Agree(indexes')
        /\ IsMatrix(matrix') /\ \A r \in BaseRows : matrix'[r] = matrix'[0]
    BY <1>1, IngestFacts
  <2>3. InRange(matrix', impl) /\ DOMAIN matrix' = DOMAIN matrix
    <3>1. e.base \in Int
      BY MatrixAssumption DEF OrderEvents
    <3>2. Saturate(impl, e.base) \in SlotRange(impl)
      BY <3>1, SaturateFacts
    <3>. QED BY <1>1, <3>2, IngestFacts DEF InRange, MatrixInv
  <2>. QED BY <2>1, <2>2, <2>3 DEF MatrixInv, RowsAgree, FirstPps
<1>2. ASSUME NEW p \in Orders, EvictOrder(p) PROVE MatrixInv'
  <2>1. /\ active' = [active EXCEPT ![p] = FALSE] /\ since' = [since EXCEPT ![p] = 0]
        /\ UNCHANGED <<impl, pairs, now>>
    BY <1>2 DEF EvictOrder
  <2>2. /\ indexes' \in Indexes /\ Agree(indexes')
        /\ IsMatrix(matrix') /\ \A r \in BaseRows : matrix'[r] = matrix'[0]
    BY <1>2, EvictFacts
  <2>3. InRange(matrix', impl) /\ DOMAIN matrix' = DOMAIN matrix
    BY <1>2, EvictFacts, SlotsAreNumbers DEF InRange, MatrixInv
  <2>. QED BY <2>1, <2>2, <2>3 DEF MatrixInv, RowsAgree, FirstPps
<1>3. ASSUME NEW p \in Deactivatable, Deactivate(p) PROVE MatrixInv'
  BY <1>3, MatrixAssumption DEF Deactivate, MatrixInv, RowsAgree, FirstPps
<1>4. ASSUME NEW diff \in Diffs, RunCycleWithDict(diff) PROVE MatrixInv'
  <2>1. /\ active' = [o \in Orders |-> active[o] /\ o \notin Expired]
        /\ since' = [o \in Orders |-> IF o \in Expired THEN 0 ELSE since[o]]
        /\ UNCHANGED <<impl, pairs, now>>
    BY <1>4 DEF RunCycleWithDict
  <2>2. /\ indexes' \in Indexes /\ Agree(indexes')
        /\ IsMatrix(matrix') /\ \A r \in BaseRows : matrix'[r] = matrix'[0]
    BY <1>4, CycleFacts
  <2>3. active' \in [Orders -> BOOLEAN] /\ since' \in [Orders -> Nat]
    BY <2>1 DEF MatrixInv
  <2>4. \A o \in Orders : active'[o] => since'[o] > 0
    BY <2>1 DEF MatrixInv
  <2>5. InRange(matrix', impl) /\ DOMAIN matrix' = DOMAIN matrix
    <3>1. ASSUME NEW r \in DOMAIN matrix, NEW o \in Orders
          PROVE  matrix'[r][o] \in SlotRange(impl)
      <4> DEFINE v == IF o \in Expired THEN 0 ELSE matrix[r][o]
      <4>1. v \in Int
        BY SlotsAreNumbers DEF MatrixInv, InRange
      <4>2. Listings(indexes', o) \in Bag(Tpids) /\ diff \in [Tpids -> Int]
            /\ impl \in {"rust", "pure"}
        BY <2>2, MatrixAssumption DEF MatrixInv, Listings, Indexes, Bag
      <4>3. matrix'[r][o] = MovedBy(v, Listings(indexes', o), diff)
        BY <1>4, CycleFacts
      <4> HIDE DEF v
      <4>. QED BY <4>1, <4>2, <4>3, MovedByFacts
    <3>. QED BY <1>4, <3>1, CycleFacts DEF InRange
  <2>. QED BY <2>1, <2>2, <2>3, <2>4, <2>5 DEF MatrixInv, RowsAgree, FirstPps
<1>5. ASSUME NEW pr \in NewPairs, HandleAddPair(pr) PROVE MatrixInv'
  <2>1. IsMatrix(matrix') /\ \A r \in BaseRows : matrix'[r] = matrix'[0]
    BY <1>5, AddPairFacts
  <2>2. pairs' = pairs \cup {pr} /\ UNCHANGED <<impl, active, since, indexes, now>>
    BY <1>5 DEF HandleAddPair, registry
  <2>3. InRange(matrix', impl)
    BY <1>5, AddPairFacts, SlotsAreNumbers DEF MatrixInv, InRange
  <2>4. \A q \in pairs' : impl = "rust" => q.pps \in DOMAIN matrix'
    BY <1>5, <2>2, AddPairFacts DEF MatrixInv
  <2>. QED BY <2>1, <2>2, <2>3, <2>4, MatrixAssumption DEF MatrixInv, RowsAgree, FirstPps
<1>6. ASSUME NEW pr \in pairs, HandleRemovePair(pr) PROVE MatrixInv'
  <2>1. \A b \in Tags : Pair(FirstPps, b) # pr
    BY <1>6 DEF HandleRemovePair, Pair
  <2>2. pairs' = pairs \ {pr} /\ UNCHANGED <<impl, active, since, indexes, matrix, now>>
    BY <1>6 DEF HandleRemovePair, registry
  <2>. QED BY <2>1, <2>2 DEF MatrixInv, RowsAgree, FirstPps
<1>7. ASSUME Tick PROVE MatrixInv'
  BY <1>7 DEF Tick, registry, MatrixInv, RowsAgree, FirstPps
<1>8. ASSUME UNCHANGED vars PROVE MatrixInv'
  BY <1>8 DEF vars, MatrixInv, RowsAgree, FirstPps
<1>. QED BY <1>1, <1>2, <1>3, <1>4, <1>5, <1>6, <1>7, <1>8 DEF Next

(* The control state keeps its types, the four maps agree, and so do the    *)
(* rows of the start.                                                       *)
THEOREM MatrixInvariant == Spec => []MatrixInv
BY InitMatrix, StepMatrix, PTL DEF Spec

(* Whatever is ingested and however the contributions change, a slot stays  *)
(* within the range of its implementation; and however the pairs come and   *)
(* go, each one has a row.                                                  *)
THEOREM EveryPairHasARow == Spec => []TypeOK
<1>1. MatrixInv => TypeOK
  <2> SUFFICES ASSUME MatrixInv PROVE TypeOK
    OBVIOUS
  <2>1. ASSUME NEW r \in DOMAIN matrix, NEW o \in Orders
        PROVE  Saturate(impl, matrix[r][o]) = matrix[r][o]
    <3>1. matrix[r][o] \in SlotRange(impl) /\ matrix[r][o] \in Int
      BY SlotsAreNumbers DEF MatrixInv, InRange
    <3>. QED BY <3>1, SaturateFacts
  <2>2. ASSUME NEW pr \in pairs PROVE RowOf(pr.pps) \in DOMAIN matrix
    <3>1. CASE impl = "rust"
      BY <3>1 DEF MatrixInv, RowOf
    <3>2. CASE impl = "pure"
      <4>1. pr.pps \in Nat /\ NumPPS \in Nat \ {0} /\ BaseRows \subseteq DOMAIN matrix
        BY MatrixAssumption DEF MatrixInv, IsMatrix
      <4>2. RowOf(pr.pps) \in 0 .. NumPPS - 1
        BY <3>2, <4>1 DEF RowOf
      <4>. QED BY <4>1, <4>2 DEF BaseRows
    <3>. QED BY <3>1, <3>2 DEF MatrixInv
  <2>. QED BY <2>1, <2>2 DEF MatrixInv, IsMatrix, TypeOK
<1>. QED BY <1>1, MatrixInvariant, PTL

(* The rows there are from the start hold the same scores, whatever is      *)
(* ingested, evicted, purged or added at run time.                          *)
THEOREM RowsAlike == Spec => []RowsAgree
<1>1. MatrixInv => RowsAgree
  BY DEF MatrixInv
<1>. QED BY <1>1, MatrixInvariant, PTL

-----------------------------------------------------------------------------
(* Orders that are not live *)

(* No step leaves anything of a dead order in the rows of the start.        *)
LEMMA StepDead == MatrixInv /\ MatrixInv' /\ DeadLeaveNothing /\ [Next]_vars => DeadLeaveNothing'
<1> SUFFICES ASSUME MatrixInv, MatrixInv', DeadLeaveNothing, [Next]_vars,
                    NEW p \in Orders \ Deactivatable, ~active'[p]
             PROVE  /\ \A t \in Tpids : indexes'.byTpid[t][p] = 0
                    /\ \A b \in Tags : indexes'.byTag[b][p] = 0
                    /\ \A r \in DOMAIN matrix' : matrix'[r][p] = 0
  BY DEF DeadLeaveNothing
<1> DEFINE Clean == /\ \A t \in Tpids : indexes'.byTpid[t][p] = 0
                    /\ \A b \in Tags : indexes'.byTag[b][p] = 0
<1>0. Agree(indexes) /\ Agree(indexes)' /\ active \in [Orders -> BOOLEAN]
  BY DEF MatrixInv
<1>a. ASSUME indexes'.tpidsOf[p] = indexes.tpidsOf[p] /\ indexes'.tagsOf[p] = indexes.tagsOf[p],
             ~active[p]
      PROVE  Clean /\ \A r \in DOMAIN matrix : matrix[r][p] = 0
  BY <1>0, <1>a DEF DeadLeaveNothing, Agree
<1>b. ASSUME indexes'.tpidsOf[p] = NoListing(Tpids) /\ indexes'.tagsOf[p] = NoListing(Tags)
      PROVE  Clean
  BY <1>0, <1>b DEF Agree, NoListing
<1>1. ASSUME NEW o \in Orders, NEW e \in Events, IngestOrder(o, e)
      PROVE  Clean /\ \A r \in DOMAIN matrix' : matrix'[r][p] = 0
  <2>1. p # o /\ ~active[p]
    BY <1>0, <1>1 DEF IngestOrder
  <2>2. /\ indexes'.tpidsOf[p] = indexes.tpidsOf[p] /\ indexes'.tagsOf[p] = indexes.tagsOf[p]
        /\ DOMAIN matrix' = DOMAIN matrix
        /\ \A r \in DOMAIN matrix : matrix'[r][p] = matrix[r][p]
    BY <1>1, <2>1, IngestFacts
  <2>. QED BY <1>a, <2>1, <2>2
<1>2. ASSUME NEW o \in Orders, EvictOrder(o)
      PROVE  Clean /\ \A r \in DOMAIN matrix' : matrix'[r][p] = 0
  <2>1. CASE p = o
    <3>1. /\ indexes'.tpidsOf[p] = NoListing(Tpids) /\ indexes'.tagsOf[p] = NoListing(Tags)
          /\ \A r \in DOMAIN matrix' : matrix'[r][p] = 0
      BY <1>2, <2>1, EvictFacts
    <3>. QED BY <1>b, <3>1
  <2>2. CASE p # o
    <3>1. ~active[p]
      BY <1>0, <1>2, <2>2 DEF EvictOrder
    <3>2. /\ indexes'.tpidsOf[p] = indexes.tpidsOf[p] /\ indexes'.tagsOf[p] = indexes.tagsOf[p]
          /\ DOMAIN matrix' = DOMAIN matrix
          /\ \A r \in DOMAIN matrix : matrix'[r][p] = matrix[r][p]
      BY <1>2, <2>2, EvictFacts
    <3>. QED BY <1>a, <3>1, <3>2
  <2>. QED BY <2>1, <2>2
<1>3. ASSUME NEW o \in Deactivatable, Deactivate(o)
      PROVE  Clean /\ \A r \in DOMAIN matrix' : matrix'[r][p] = 0
  <2>1. ~active[p] /\ UNCHANGED <<indexes, matrix>>
    BY <1>0, <1>3 DEF Deactivate
  <2>. QED BY <1>a, <2>1
<1>4. ASSUME NEW diff \in Diffs, RunCycleWithDict(diff)
      PROVE  Clean /\ \A r \in DOMAIN matrix' : matrix'[r][p] = 0
  <2>1. Clean /\ (p \notin Expired => \A r \in DOMAIN matrix : matrix[r][p] = 0)
    <3>1. CASE p \in Expired
      <4>1. indexes'.tpidsOf[p] = NoListing(Tpids) /\ indexes'.tagsOf[p] = NoListing(Tags)
        BY <1>4, <3>1, CycleFacts
      <4>. QED BY <1>b, <3>1, <4>1
    <3>2. CASE p \notin Expired
      <4>1. indexes'.tpidsOf[p] = indexes.tpidsOf[p] /\ indexes'.tagsOf[p] = indexes.tagsOf[p]
        BY <1>4, <3>2, CycleFacts
      <4>2. ~active[p]
        BY <1>4, <3>2 DEF RunCycleWithDict
      <4>. QED BY <1>a, <4>1, <4>2
    <3>. QED BY <3>1, <3>2
  <2>2. DOMAIN matrix' = DOMAIN matrix
        /\ \A r \in DOMAIN matrix : matrix'[r][p] = MovedBy(0, Listings(indexes', p), diff)
    BY <1>4, <2>1, CycleFacts
  <2>3. \A t \in Tpids : Listings(indexes', p)[t] = 0
    BY <2>1 DEF Listings
  <2>4. Listings(indexes', p) \in Bag(Tpids) /\ diff \in [Tpids -> Int] /\ impl \in {"rust", "pure"}
    BY MatrixAssumption DEF MatrixInv, Listings, Indexes, Bag
  <2>. QED BY <2>1, <2>2, <2>3, <2>4, MovedByFacts
<1>5. ASSUME NEW pr \in NewPairs, HandleAddPair(pr)
      PROVE  Clean /\ \A r \in DOMAIN matrix' : matrix'[r][p] = 0
  <2>1. ~active[p] /\ indexes' = indexes
    BY <1>5 DEF HandleAddPair, registry
  <2>2. Clean /\ \A r \in DOMAIN matrix : matrix[r][p] = 0
    BY <1>a, <2>1
  <2>3. /\ \A r \in DOMAIN matrix' \ DOMAIN matrix : matrix'[r][p] = 0
        /\ \A r \in DOMAIN matrix : matrix'[r] = matrix[r]
    BY <1>5, AddPairFacts
  <2>. QED BY <2>2, <2>3
<1>6. ASSUME NEW pr \in pairs, HandleRemovePair(pr)
      PROVE  Clean /\ \A r \in DOMAIN matrix' : matrix'[r][p] = 0
  <2>1. ~active[p] /\ UNCHANGED <<indexes, matrix>>
    BY <1>6 DEF HandleRemovePair, registry
  <2>. QED BY <1>a, <2>1
<1>7. ASSUME Tick \/ UNCHANGED vars
      PROVE  Clean /\ \A r \in DOMAIN matrix' : matrix'[r][p] = 0
  <2>1. ~active[p] /\ UNCHANGED <<indexes, matrix>>
    BY <1>7 DEF Tick, vars, registry
  <2>. QED BY <1>a, <2>1
<1>. QED BY <1>1, <1>2, <1>3, <1>4, <1>5, <1>6, <1>7 DEF Next

(* An order that was evicted or has expired is in no list, and its slot is  *)
(* zero in every row, those added while it was live included.               *)
THEOREM DeadLeaveRowsClean == Spec => []DeadLeaveNothing
<1>1. Init => DeadLeaveNothing
  BY DEF Init, EmptyIndexes, NoListing, DeadLeaveNothing
<1>. QED BY <1>1, StepDead, MatrixInvariant, PTL DEF Spec

-----------------------------------------------------------------------------
(* rust-impl keeps the book of live orders *)

(* The entry of an order in the book. *)
Entry(o) ==
  IF active[o] THEN [state |-> "live", tpids |-> indexes.tpidsOf[o], tags |-> indexes.tagsOf[o],
                     score |-> matrix[0][o], since |-> since[o]]
  ELSE [state |-> "none"]

TheBook == [o \in Orders |-> Entry(o)]

TheRows == [b \in Tags |-> shown[Pair(FirstPps, b)]]

(* Every step of rust-impl is a step of the book of orders, or changes      *)
(* nothing it shows.                                                        *)
LEMMA BookStep == MatrixInv /\ MatrixInv' /\ Next /\ impl = "rust" => [Book!Next]_(Book!vars)
<1> SUFFICES ASSUME MatrixInv, MatrixInv', Next, impl = "rust" PROVE [Book!Next]_(Book!vars)
  OBVIOUS
<1>0. /\ indexes \in Indexes /\ Agree(indexes) /\ indexes' \in Indexes /\ Agree(indexes)'
      /\ active \in [Orders -> BOOLEAN] /\ active' \in [Orders -> BOOLEAN]
      /\ since \in [Orders -> Nat] /\ since' \in [Orders -> Nat]
      /\ 0 \in DOMAIN matrix
  BY FirstRow DEF MatrixInv, IsMatrix
<1>1. ASSUME NEW p \in Orders, NEW e \in Events, IngestOrder(p, e) PROVE Book!Accept(p)
  <2> DEFINE c == [tpids |-> e.tpids, tags |-> e.tags, score |-> Saturate("rust", e.base)]
  <2>1. /\ active' = [active EXCEPT ![p] = TRUE] /\ since' = [since EXCEPT ![p] = now]
        /\ UNCHANGED <<impl, shown, now>>
    BY <1>1 DEF IngestOrder
  <2>2. /\ indexes'.tpidsOf[p] = e.tpids /\ indexes'.tagsOf[p] = e.tags
        /\ \A o \in Orders \ {p} : /\ indexes'.tpidsOf[o] = indexes.tpidsOf[o]
                                    /\ indexes'.tagsOf[o] = indexes.tagsOf[o]
        /\ \A o \in Orders \ {p} : matrix'[0][o] = matrix[0][o]
        /\ matrix'[0][p] = c.score
    BY <1>0, <1>1, IngestFacts
  <2>3. TheBook' = [TheBook EXCEPT ![p] = [state |-> "live", tpids |-> c.tpids, tags |-> c.tags,
                                           score |-> c.score, since |-> now]]
    BY <1>0, <2>1, <2>2 DEF TheBook, Entry
  <2>4. c \in {[tpids |-> f.tpids, tags |-> f.tags, score |-> Saturate("rust", f.base)] : f \in Events}
    OBVIOUS
  <2>5. TheRows' = TheRows
    BY <2>1 DEF TheRows, FirstPps
  <2> HIDE DEF c
  <2>. QED BY <2>1, <2>3, <2>4, <2>5 DEF Book!Accept, TheBook, Entry, TheRows
<1>2. ASSUME NEW p \in Orders, EvictOrder(p) PROVE Book!Drop(p)
  <2>1. /\ active' = [active EXCEPT ![p] = FALSE] /\ since' = [since EXCEPT ![p] = 0]
        /\ UNCHANGED <<impl, shown, now>>
    BY <1>2 DEF EvictOrder
  <2>2. \A o \in Orders \ {p} : /\ indexes'.tpidsOf[o] = indexes.tpidsOf[o]
                                /\ indexes'.tagsOf[o] = indexes.tagsOf[o]
                                /\ matrix'[0][o] = matrix[0][o]
    BY <1>0, <1>2, EvictFacts
  <2>3. TheBook' = [TheBook EXCEPT ![p] = [state |-> "none"]]
    BY <1>0, <2>1, <2>2 DEF TheBook, Entry
  <2>4. TheRows' = TheRows
    BY <2>1 DEF TheRows, FirstPps
  <2>. QED BY <2>1, <2>3, <2>4 DEF Book!Drop, Book!None, TheBook, Entry, TheRows
<1>3. ASSUME NEW p \in Deactivatable, Deactivate(p) PROVE Book!Drop(p)
  <2>1. /\ active' = [active EXCEPT ![p] = FALSE]
        /\ UNCHANGED <<impl, since, indexes, matrix, shown, now>>
    BY <1>3 DEF Deactivate
  <2>2. TheBook' = [TheBook EXCEPT ![p] = [state |-> "none"]]
    BY <1>0, <2>1, MatrixAssumption DEF TheBook, Entry
  <2>3. TheRows' = TheRows
    BY <2>1 DEF TheRows, FirstPps
  <2>4. p \in Orders
    BY MatrixAssumption
  <2>. QED BY <2>1, <2>2, <2>3 DEF Book!Drop, Book!None, TheBook, Entry, TheRows
<1>4. ASSUME NEW diff \in Diffs, RunCycleWithDict(diff) PROVE Book!Cycle(diff)
  <2>1. /\ active' = [o \in Orders |-> active[o] /\ o \notin Expired]
        /\ since' = [o \in Orders |-> IF o \in Expired THEN 0 ELSE since[o]]
        /\ shown' = RankPairs(active', indexes', matrix')
        /\ UNCHANGED <<impl, now>>
    BY <1>4 DEF RunCycleWithDict
  <2>2. \A o \in Orders \ Expired : /\ indexes'.tpidsOf[o] = indexes.tpidsOf[o]
                                    /\ indexes'.tagsOf[o] = indexes.tagsOf[o]
    BY <1>4, CycleFacts
  <2>3. \A o \in Orders : Listings(indexes', o) = indexes'.tpidsOf[o]
    BY <1>0 DEF Listings, Agree, Indexes, Bag
  <2>4. \A o \in Orders \ Expired :
          matrix'[0][o] = RustMoved(matrix[0][o], indexes.tpidsOf[o], diff)
    <3>1. \A o \in Orders \ Expired :
            matrix'[0][o] = MovedBy(matrix[0][o], Listings(indexes', o), diff)
      BY <1>0, <1>4, CycleFacts
    <3>. QED BY <2>2, <2>3, <3>1 DEF MovedBy
  <2>5. \A o \in Orders : o \in Expired <=> active[o] /\ now - since[o] > TTL
    BY DEF Expired, MatrixInv
  <2>6. ASSUME NEW o \in Orders
        PROVE  Entry(o)' = IF Entry(o) = Book!None \/ (Entry(o) # Book!None /\ now - Entry(o).since > TTL)
                           THEN Book!None
                           ELSE [Entry(o) EXCEPT !.score = RustMoved(@, Entry(o).tpids, diff)]
    <3>1. CASE ~active[o]
      BY <2>1, <3>1 DEF Entry, Book!None
    <3>2. CASE active[o] /\ o \in Expired
      BY <2>1, <2>5, <3>2 DEF Entry, Book!None
    <3>3. CASE active[o] /\ o \notin Expired
      <4>1. /\ active'[o] /\ since'[o] = since[o]
            /\ matrix'[0][o] = RustMoved(matrix[0][o], indexes.tpidsOf[o], diff)
        BY <2>1, <2>4, <3>3
      <4>2. Entry(o) # Book!None /\ ~(now - Entry(o).since > TTL)
        BY <2>5, <3>3 DEF Entry, Book!None
      <4>. QED BY <2>2, <3>3, <4>1, <4>2 DEF Entry
    <3>. QED BY <1>0, <3>1, <3>2, <3>3
  <2>7. ASSUME NEW b \in Tags
        PROVE  TheRows'[b] = [o \in Orders |-> IF Entry(o)' # Book!None /\ Entry(o)'.tags[b] > 0
                                               THEN Score(Entry(o)'.score) ELSE NoScore]
    <3>1. Pair(0, b) \in pairs /\ TheRows'[b] = shown'[Pair(0, b)]
      BY <2>1 DEF MatrixInv, TheRows, FirstPps
    <3>2. TheRows'[b] = [o \in Orders |-> IF active'[o] /\ indexes'.byTag[b][o] > 0
                                          THEN Score(matrix'[0][o]) ELSE NoScore]
      BY <2>1, <3>1 DEF RankPairs, Eligible, RowOf, Pair
    <3>3. ASSUME NEW o \in Orders
          PROVE  (IF active'[o] /\ indexes'.byTag[b][o] > 0 THEN Score(matrix'[0][o]) ELSE NoScore)
                 = IF Entry(o)' # Book!None /\ Entry(o)'.tags[b] > 0
                   THEN Score(Entry(o)'.score) ELSE NoScore
      <4>1. indexes'.byTag[b][o] = indexes'.tagsOf[o][b]
        BY <1>0 DEF Agree
      <4>. QED BY <1>0, <4>1 DEF Entry, Book!None
    <3>. QED BY <3>2, <3>3
  <2>8. TheBook' = [o \in Orders |->
                      IF TheBook[o] = Book!None \/ (TheBook[o] # Book!None /\ now - TheBook[o].since > TTL)
                      THEN Book!None
                      ELSE [TheBook[o] EXCEPT !.score = RustMoved(@, TheBook[o].tpids, diff)]]
    BY <2>6 DEF TheBook
  <2>9. TheRows' = [b \in Tags |-> [o \in Orders |->
                      IF TheBook'[o] # Book!None /\ TheBook'[o].tags[b] > 0
                      THEN Book!Score(TheBook'[o].score) ELSE Book!NoScore]]
    <3>1. TheRows' = [b \in Tags |-> TheRows'[b]]
      BY DEF TheRows
    <3>. QED BY <2>7, <3>1 DEF TheBook, Book!Score, Book!NoScore, Score, NoScore
  <2>. QED BY <2>1, <2>8, <2>9 DEF Book!Cycle, Book!Expired, TheBook, Entry, TheRows
<1>5. ASSUME NEW pr \in NewPairs, HandleAddPair(pr) PROVE UNCHANGED Book!vars
  <2>1. matrix'[0] = matrix[0]
    BY <1>0, <1>5, AddPairFacts
  <2>2. UNCHANGED <<impl, active, since, indexes, shown, now>>
    BY <1>5 DEF HandleAddPair, registry
  <2>3. TheBook' = TheBook /\ TheRows' = TheRows
    BY <2>1, <2>2 DEF TheBook, Entry, TheRows, FirstPps
  <2>. QED BY <2>2, <2>3 DEF Book!vars, TheBook, Entry, TheRows
<1>6. ASSUME NEW pr \in pairs, HandleRemovePair(pr) PROVE UNCHANGED Book!vars
  BY <1>6 DEF HandleRemovePair, registry, Book!vars, FirstPps
<1>7. ASSUME Tick PROVE Book!Tick
  BY <1>7 DEF Tick, registry, Book!Tick, FirstPps
<1>. QED BY <1>1, <1>2, <1>3, <1>4, <1>5, <1>6, <1>7, MatrixAssumption DEF Next, Book!Next

(* rust-impl implements the book of live orders: its removal from lists, its *)
(* two-step saturation and the rows that come at run time make no            *)
(* difference to what the pairs of a PPS are shown.                          *)
THEOREM RustImplementsBook == Spec => RustKeepsBook
<1>1. MatrixInv /\ MatrixInv' /\ [Next]_vars => [impl = "rust" => [Book!Next]_(Book!vars)]_vars
  BY BookStep
<1>. QED BY <1>1, MatrixInvariant, PTL DEF Spec, RustKeepsBook

-----------------------------------------------------------------------------
(* What the fallback of go-pure-impl may show *)

(* Where an order is eligible a pair shows exactly the eligible orders; where *)
(* none is, the fallback shows active orders only.                          *)
THEOREM FallbackOnlyWhenEmpty == Spec => EligibleFirst
<1> DEFINE First ==
      shown' # shown =>
        \A pr \in DOMAIN shown' :
          LET eligible == {o \in Orders : active'[o] /\ indexes'.tagsOf[o][pr.tag] > 0}
              ranked   == {o \in Orders : shown'[pr][o] # NoScore}
          IN  /\ eligible \subseteq ranked
              /\ ranked # eligible => eligible = {} /\ \A o \in ranked : active'[o]
<1>1. MatrixInv /\ MatrixInv' /\ [Next]_vars => [First]_vars
  <2> SUFFICES ASSUME MatrixInv, MatrixInv', Next, shown' # shown, NEW pr \in DOMAIN shown'
               PROVE  LET eligible == {o \in Orders : active'[o] /\ indexes'.tagsOf[o][pr.tag] > 0}
                          ranked   == {o \in Orders : shown'[pr][o] # NoScore}
                      IN  /\ eligible \subseteq ranked
                          /\ ranked # eligible => eligible = {} /\ \A o \in ranked : active'[o]
    OBVIOUS
  <2> DEFINE eligible == {o \in Orders : active'[o] /\ indexes'.tagsOf[o][pr.tag] > 0}
             ranked   == {o \in Orders : shown'[pr][o] # NoScore}
  <2>1. PICK diff \in Diffs : RunCycleWithDict(diff)
    BY DEF Next, IngestOrder, EvictOrder, Deactivate, HandleAddPair, HandleRemovePair, Tick
  <2>2. shown' = RankPairs(active', indexes', matrix') /\ pairs' = pairs /\ impl' = impl
    BY <2>1 DEF RunCycleWithDict
  <2>3. pr \in pairs /\ pr.tag \in Tags
    BY <2>2 DEF RankPairs, MatrixInv
  <2>4. \A o \in Orders : shown'[pr][o] = IF active'[o] /\ Eligible(indexes', pr.tag, o)
                                          THEN Score(matrix'[RowOf(pr.pps)][o]) ELSE NoScore
    BY <2>2, <2>3 DEF RankPairs
  <2>5. \A x : Score(x) # NoScore
    <3>1. \A x : Score(x).state = "ranked" /\ NoScore.state = "unranked"
      BY DEF Score, NoScore
    <3>. QED BY <3>1
  <2>6. ranked = {o \in Orders : active'[o] /\ Eligible(indexes', pr.tag, o)}
    BY <2>4, <2>5
  <2>7. \A o \in Orders : indexes'.byTag[pr.tag][o] = indexes'.tagsOf[o][pr.tag]
    BY <2>3 DEF MatrixInv, Agree
  <2>8. eligible \subseteq ranked /\ \A o \in ranked : active'[o]
    BY <2>6, <2>7 DEF Eligible
  <2>9. ASSUME ranked # eligible PROVE eligible = {}
    <3>1. PICK o \in Orders : o \in ranked /\ o \notin eligible
      BY <2>8, <2>9
    <3>2. NoneListed(indexes', pr.tag)
      BY <2>6, <2>7, <3>1 DEF Eligible
    <3>. QED BY <2>7, <3>2 DEF NoneListed
  <2>. QED BY <2>8, <2>9
<1>. QED BY <1>1, MatrixInvariant, PTL DEF Spec, EligibleFirst

-----------------------------------------------------------------------------
(* What the PPSs show *)

(* Pairs whose rows were there at the start show the same scores, for every  *)
(* PPS; README.md:642 speaks of seeding a new PPS to the same end.          *)
SameForEveryPps ==
  \A pr \in DOMAIN shown : RowOf(pr.pps) \in BaseRows => shown[pr] = shown[Pair(FirstPps, pr.tag)]

(* The row of a start pair, whatever the implementation.                    *)
LEMMA FirstPpsRow ==
  ASSUME MatrixInv
  PROVE  RowOf(FirstPps) = 0
BY MatrixAssumption DEF MatrixInv, RowOf, FirstPps

LEMMA StepSame == MatrixInv /\ MatrixInv' /\ SameForEveryPps /\ [Next]_vars => SameForEveryPps'
<1> SUFFICES ASSUME MatrixInv, MatrixInv', SameForEveryPps, [Next]_vars,
                    NEW pr \in DOMAIN shown', RowOf(pr.pps)' \in BaseRows
             PROVE  shown'[pr] = shown'[Pair(FirstPps', pr.tag)]
  BY DEF SameForEveryPps, BaseRows
<1>1. impl' = impl /\ FirstPps' = FirstPps /\ RowOf(pr.pps)' = RowOf(pr.pps)
  BY DEF Next, IngestOrder, EvictOrder, Deactivate, RunCycleWithDict, HandleAddPair,
         HandleRemovePair, Tick, vars, FirstPps, RowOf
<1>2. CASE UNCHANGED shown
  BY <1>1, <1>2 DEF SameForEveryPps
<1>3. ASSUME NEW diff \in Diffs, RunCycleWithDict(diff)
      PROVE  shown'[pr] = shown'[Pair(FirstPps', pr.tag)]
  <2>1. shown' = RankPairs(active', indexes', matrix') /\ pairs' = pairs /\ DOMAIN shown' = pairs
    BY <1>3 DEF RunCycleWithDict, RankPairs
  <2>2. pr \in pairs /\ Pair(FirstPps, pr.tag) \in pairs
    BY <2>1 DEF MatrixInv
  <2>3. matrix'[RowOf(pr.pps)] = matrix'[0]
    BY <1>1 DEF MatrixInv, RowsAgree, BaseRows
  <2>4. RowOf(FirstPps) = 0
    BY FirstPpsRow
  <2>5. Pair(FirstPps, pr.tag).pps = FirstPps /\ Pair(FirstPps, pr.tag).tag = pr.tag
    BY DEF Pair
  <2> DEFINE Ranked(p, b) == [o \in Orders |-> IF active'[o] /\ Eligible(indexes', b, o)
                                               THEN Score(matrix'[RowOf(p)][o]) ELSE NoScore]
  <2>6. \A q \in pairs : shown'[q] = Ranked(q.pps, q.tag)
    BY <2>1 DEF RankPairs
  <2>7. Ranked(pr.pps, pr.tag) = Ranked(FirstPps, pr.tag)
    BY <2>3, <2>4
  <2> HIDE DEF Ranked
  <2>. QED BY <1>1, <2>2, <2>5, <2>6, <2>7
<1>4. UNCHANGED shown \/ \E diff \in Diffs : RunCycleWithDict(diff)
  BY DEF Next, IngestOrder, EvictOrder, Deactivate, HandleAddPair, HandleRemovePair, Tick, vars
<1>. QED BY <1>2, <1>3, <1>4

(* In both implementations every PPS of the start shows an order with the    *)
(* same score; only the rows rust-impl adds while it runs can differ.       *)
THEOREM StartPpsShowTheSame == Spec => []SameForEveryPps
<1>1. Init => SameForEveryPps
  BY MatrixAssumption DEF Init, SameForEveryPps, Pair, PpsIds, FirstPps, BaseRows
<1>2. MatrixInv /\ MatrixInv' /\ SameForEveryPps /\ [Next]_vars => SameForEveryPps'
  BY StepSame
<1>. QED BY <1>1, <1>2, MatrixInvariant, PTL DEF Spec

=============================================================================
