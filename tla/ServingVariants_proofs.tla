----------------------- MODULE ServingVariants_proofs -----------------------
(***************************************************************************)
(* Proofs about ServingVariants, for any pairs, readers, initial list,     *)
(* matrix size, and for each of the three implementations.                 *)
(***************************************************************************)
EXTENDS ServingVariants, Lists_proofs

(* The index built from a list sends each listed pair to a row holding it. *)
LEMMA PositionsFacts ==
  ASSUME NEW s \in Seq(Pairs), NoRepeats(s)
  PROVE  /\ Positions(s) \in [Pairs -> Nat]
         /\ \A p \in Pairs : p \notin ListRange(s) => Positions(s)[p] = 0
         /\ \A p \in ListRange(s) : /\ Positions(s)[p] \in DOMAIN s
                                    /\ s[Positions(s)[p]] = p
<1>1. ListRange(s) \subseteq Pairs
  BY DEF ListRange
<1>2. \A p \in Pairs : Positions(s)[p] = IndexRow(s, p)
  BY DEF Positions
<1>3. \A p \in Pairs : Positions(s)[p] \in Nat
  BY <1>2, IndexRowFacts
<1>4. Positions(s) = [p \in Pairs |-> Positions(s)[p]]
  BY DEF Positions
<1>. QED BY <1>1, <1>2, <1>3, <1>4, IndexRowFacts

-----------------------------------------------------------------------------
(* The inductive invariant *)

VariantsTypeOK ==
  /\ impl \in {"cgo", "pure", "kotlin"}
  /\ topo \in [Pairs -> Statuses]
  /\ pending \in [Pairs -> Nat]
  /\ numPps = NumPPS
  /\ pairs \in Seq(Pairs) /\ NoRepeats(pairs)
  /\ mainPairs \in Seq(Pairs)
  /\ rows \in Seq(Pairs \cup {NoPair})
  /\ DOMAIN reply = Readers
  /\ rd = [r \in Readers |-> [at |-> rd[r].at, pair |-> rd[r].pair, row |-> rd[r].row]]

(* What a served pair rests on, in go-cgo-impl and Kotlin: a pair that was  *)
(* announced stays on the list to rank, and the buffer that a cycle          *)
(* published before it promotes has a row for every pair of that list.       *)
HasRow(p) == p \in ListRange(rows) \/ (impl = "cgo" /\ Pps[p] >= numPps)

RowsInv ==
  impl # "pure" =>
    /\ \A p \in Pairs \ Removable :
         topo[p] \in {"WarmingUp", "Active"} \/ pending[p] > 0 => p \in ListRange(pairs)
    /\ stage = "promoting" => \A p \in ListRange(pairs) : HasRow(p)

VariantsInv == VariantsTypeOK /\ ServedNotQueued /\ RowsInv /\ ServedHasRow

-----------------------------------------------------------------------------
(* A reader leaves the owner's state alone. *)
LEMMA ReaderLeaves ==
  ASSUME NEW r \in Readers, GetTopK(r)
  PROVE  UNCHANGED <<topo, owned, served, varVars>>
BY DEF GetTopK, CheckStatus, LookUp, LoadRow

(* It leaves the record of a call in progress a record of its three fields. *)
LEMMA ReaderTypes ==
  ASSUME NEW r \in Readers, VariantsTypeOK, GetTopK(r)
  PROVE  /\ VariantsTypeOK'
         /\ \A q \in Readers \ {r} : rd'[q] = rd[q]
<1>1. UNCHANGED <<topo, pairs, pending, numPps, rows, impl, mainPairs>>
  BY ReaderLeaves DEF owned, served, varVars
<1> DEFINE A == {rd[q].at : q \in Readers}
           P == {rd[q].pair : q \in Readers}
           N == {rd[q].row : q \in Readers}
           Fields(c) == [at |-> c.at, pair |-> c.pair, row |-> c.row]
<1>2. rd \in [Readers -> [at : A, pair : P, row : N]] /\ DOMAIN reply = Readers
  BY DEF VariantsTypeOK
<1>3. ASSUME NEW c, c = Fields(c), rd' = [rd EXCEPT ![r] = c]
      PROVE  rd' = [q \in Readers |-> Fields(rd'[q])]
  BY <1>3 DEF VariantsTypeOK
<1>4. CASE UNCHANGED rd
  BY <1>1, <1>2, <1>4 DEF VariantsTypeOK, GetTopK, CheckStatus, LookUp, LoadRow
<1>5. CASE rd' = [rd EXCEPT ![r] = Idle]
  <2>1. rd' = [q \in Readers |-> Fields(rd'[q])]
    BY <1>3, <1>5 DEF Idle
  <2>. QED BY <1>1, <1>2, <1>5, <2>1 DEF VariantsTypeOK, GetTopK, CheckStatus, LookUp, LoadRow
<1>6. CASE \E p \in Pairs : rd' = [rd EXCEPT ![r] = [at |-> "lookup", pair |-> p, row |-> 0]]
  <2>1. rd' = [q \in Readers |-> Fields(rd'[q])]
    BY <1>3, <1>6
  <2>. QED BY <1>1, <1>2, <1>6, <2>1 DEF VariantsTypeOK, GetTopK, CheckStatus, LookUp, LoadRow
<1>7. CASE rd' = [rd EXCEPT ![r].at = "load", ![r].row = index[rd[r].pair]]
  <2> DEFINE n == index[rd[r].pair]
  <2> HIDE DEF n
  <2>1. rd' = [rd EXCEPT ![r].at = "load", ![r].row = n]
    BY <1>7 DEF n
  <2>2. /\ rd'[r] = [at |-> "load", pair |-> rd[r].pair, row |-> n]
        /\ \A q \in Readers \ {r} : rd'[q] = rd[q]
        /\ rd' = [q \in Readers |-> rd'[q]]
    BY <1>2, <2>1
  <2>3. rd' = [q \in Readers |-> Fields(rd'[q])]
    BY <2>2 DEF VariantsTypeOK
  <2>. QED BY <1>1, <1>2, <2>2, <2>3 DEF VariantsTypeOK, GetTopK, CheckStatus, LookUp, LoadRow
<1>. QED BY <1>4, <1>5, <1>6, <1>7 DEF GetTopK, CheckStatus, LookUp, LoadRow

-----------------------------------------------------------------------------
(* The invariant holds initially. *)
LEMMA InitVariants == Init => VariantsInv
<1> SUFFICES ASSUME Init PROVE VariantsInv
  OBVIOUS
<1> USE ServingAssumption, VariantsAssumption DEF Init, CoreInit
<1>1. ListRange(InitialPairs) \subseteq Pairs
  BY DEF ListRange
<1>2. VariantsTypeOK
  BY DEF VariantsTypeOK, Statuses, Idle
<1>3. ServedNotQueued /\ RowsInv /\ ServedHasRow
  BY <1>1 DEF ServedNotQueued, RowsInv, ServedHasRow
<1>. QED BY <1>2, <1>3 DEF VariantsInv

(* Publishing a buffer that ranks the engine's list keeps the invariant. *)
LEMMA PublishKeeps ==
  ASSUME VariantsInv, NEW ranked \in Seq(Pairs \cup {NoPair}), Publish(ranked),
         impl # "pure" =>
           \A p \in ListRange(pairs) : p \in ListRange(ranked) \/ (impl = "cgo" /\ Pps[p] >= numPps)
  PROVE  VariantsInv'
<1>1. /\ rows' = ranked /\ stage' = "promoting"
      /\ UNCHANGED <<topo, pairs, pending, numPps, index, rd, reply, impl, mainPairs>>
  BY DEF Publish, reads, varVars
<1>2. VariantsTypeOK'
  BY <1>1 DEF VariantsInv, VariantsTypeOK
<1>3. ServedNotQueued' /\ RowsInv' /\ ServedHasRow'
  BY <1>1 DEF VariantsInv, ServedNotQueued, RowsInv, HasRow, ServedHasRow
<1>. QED BY <1>2, <1>3 DEF VariantsInv

(* Every step keeps it. *)
LEMMA StepVariants == VariantsInv /\ [Next]_allVars => VariantsInv'
<1> SUFFICES ASSUME VariantsInv, [Next]_allVars PROVE VariantsInv'
  OBVIOUS
<1> USE ServingAssumption, VariantsAssumption
<1>0. /\ pairs \in Seq(Pairs) /\ NoRepeats(pairs) /\ ListRange(pairs) \subseteq Pairs
      /\ Len(pairs) \in Nat /\ DOMAIN pairs = 1 .. Len(pairs)
      /\ topo \in [Pairs -> Statuses] /\ pending \in [Pairs -> Nat]
  BY DEF VariantsInv, VariantsTypeOK, ListRange
<1>1. ASSUME NEW p \in Pairs, HandleAddPair(p) PROVE VariantsInv'
  <2>1. /\ pairs' \in Seq(Pairs) /\ NoRepeats(pairs')
        /\ ListRange(pairs) \subseteq ListRange(pairs')
        /\ impl # "pure" => p \in ListRange(pairs')
        /\ ListRange(pairs') \subseteq ListRange(pairs) \cup {p}
    BY <1>0, <1>1, AppendFacts DEF HandleAddPair
  <2>2. /\ topo' = [topo EXCEPT ![p] = "WarmingUp"] /\ pending' = [pending EXCEPT ![p] = @ + 1]
        /\ stage = "idle"
        /\ UNCHANGED <<numPps, stage, rows, index, rd, reply, impl, mainPairs>>
    BY <1>1 DEF HandleAddPair, served, reads, varVars
  <2>3. VariantsTypeOK'
    BY <1>0, <2>1, <2>2 DEF VariantsInv, VariantsTypeOK, Statuses
  <2>4. ServedNotQueued' /\ ServedHasRow'
    BY <1>0, <2>2 DEF VariantsInv, ServedNotQueued, ServedHasRow
  <2>5. RowsInv'
    BY <1>0, <2>1, <2>2 DEF VariantsInv, RowsInv, HasRow
  <2>. QED BY <2>3, <2>4, <2>5 DEF VariantsInv
<1>2. ASSUME NEW p \in Removable, HandleRemovePair(p) PROVE VariantsInv'
  <2>1. /\ pairs' \in Seq(Pairs) /\ NoRepeats(pairs')
        /\ ListRange(pairs') = ListRange(pairs) \ {p}
    BY <1>0, <1>2, WithoutFacts DEF HandleRemovePair
  <2>2. /\ topo' = [topo EXCEPT ![p] = "Removed"]
        /\ stage = "idle"
        /\ UNCHANGED <<pending, numPps, stage, rows, index, rd, reply, impl>>
    BY <1>2 DEF HandleRemovePair, served, reads
  <2>6. mainPairs' \in Seq(Pairs)
    <3>1. CASE impl # "pure"
      BY <1>2, <3>1 DEF HandleRemovePair, VariantsInv, VariantsTypeOK
    <3>2. CASE impl = "pure"
      <4>1. mainPairs' = [i \in DOMAIN mainPairs |-> IF i <= Len(pairs') THEN pairs'[i] ELSE mainPairs[i]]
        BY <1>2, <3>2 DEF HandleRemovePair, Overlaid
      <4>2. /\ DOMAIN mainPairs = 1 .. Len(mainPairs) /\ Len(mainPairs) \in Nat
            /\ \A i \in 1 .. Len(mainPairs) : mainPairs[i] \in Pairs
        BY DEF VariantsInv, VariantsTypeOK
      <4>3. Len(pairs') \in Nat /\ \A i \in 1 .. Len(pairs') : pairs'[i] \in Pairs
        BY <2>1
      <4>. QED BY <4>1, <4>2, <4>3
    <3>. QED BY <3>1, <3>2
  <2>3. VariantsTypeOK'
    BY <1>0, <2>1, <2>2, <2>6 DEF VariantsInv, VariantsTypeOK, Statuses
  <2>4. ServedNotQueued' /\ ServedHasRow'
    BY <1>0, <2>2 DEF VariantsInv, ServedNotQueued, ServedHasRow
  <2>5. RowsInv'
    BY <1>0, <2>1, <2>2 DEF VariantsInv, RowsInv, HasRow
  <2>. QED BY <2>3, <2>4, <2>5 DEF VariantsInv
<1>3. ASSUME RankCgo PROVE VariantsInv'
  <2>1. PICK bare \in SUBSET ListRange(pairs) :
          Publish([i \in DOMAIN pairs |->
                     IF Pps[pairs[i]] < numPps \/ pairs[i] \in bare THEN pairs[i] ELSE NoPair])
    BY <1>3 DEF RankCgo
  <2> DEFINE ranked == [i \in DOMAIN pairs |->
                IF Pps[pairs[i]] < numPps \/ pairs[i] \in bare THEN pairs[i] ELSE NoPair]
  <2>2. \A i \in 1 .. Len(pairs) : pairs[i] \in Pairs
    BY <1>0
  <2>3. ranked \in Seq(Pairs \cup {NoPair})
    BY <1>0, <2>2
  <2>4. ASSUME NEW p \in ListRange(pairs)
        PROVE  p \in ListRange(ranked) \/ Pps[p] >= numPps
    <3>1. PICK i \in DOMAIN pairs : pairs[i] = p
      BY DEF ListRange
    <3>2. Pps[p] \in Nat /\ numPps \in Nat
      BY <1>0, ServingAssumption DEF VariantsInv, VariantsTypeOK
    <3>3. CASE Pps[p] < numPps
      <4>1. i \in DOMAIN ranked /\ ranked[i] = p
        BY <3>1, <3>3
      <4>. QED BY <4>1 DEF ListRange
    <3>. QED BY <3>2, <3>3
  <2> HIDE DEF ranked
  <2>5. impl = "cgo" /\ Publish(ranked)
    BY <1>3, <2>1 DEF RankCgo, ranked
  <2>. QED BY <2>3, <2>4, <2>5, PublishKeeps
<1>4. ASSUME RankPure PROVE VariantsInv'
  <2> DEFINE ranked == [i \in DOMAIN pairs |-> IF topo[pairs[i]] = "Removed" THEN NoPair ELSE pairs[i]]
  <2>1. impl = "pure" /\ Publish(ranked)
    BY <1>4 DEF RankPure
  <2>2. \A i \in 1 .. Len(pairs) : pairs[i] \in Pairs
    BY <1>0
  <2>3. ranked \in Seq(Pairs \cup {NoPair})
    BY <1>0, <2>2
  <2> HIDE DEF ranked
  <2>. QED BY <2>1, <2>3, PublishKeeps
<1>5. ASSUME RankKotlin PROVE VariantsInv'
  <2>1. pairs \in Seq(Pairs \cup {NoPair})
    BY <1>0
  <2>. QED BY <1>5, <2>1, PublishKeeps DEF RankKotlin
<1>6. ASSUME RankFails PROVE VariantsInv'
  <2>1. stage' = "crashed" /\ UNCHANGED <<topo, pairs, pending, numPps, rows, index, rd, reply, impl, mainPairs>>
    BY <1>6 DEF RankFails, served, reads, varVars
  <2>2. VariantsTypeOK'
    BY <2>1 DEF VariantsInv, VariantsTypeOK
  <2>. QED BY <2>1, <2>2 DEF VariantsInv, ServedNotQueued, RowsInv, HasRow, ServedHasRow
<1>7. ASSUME NEW p \in Pairs, PromoteAny(p) PROVE VariantsInv'
  <2>1. /\ topo' = [topo EXCEPT ![p] = "Active"] /\ pending' = [pending EXCEPT ![p] = 0]
        /\ stage = "promoting" /\ pending[p] > 0
        /\ UNCHANGED <<pairs, numPps, stage, rows, index, rd, reply, impl, mainPairs>>
    BY <1>7 DEF PromoteAny, served, reads, varVars
  <2>2. VariantsTypeOK'
    BY <1>0, <2>1 DEF VariantsInv, VariantsTypeOK, Statuses
  <2>3. ServedNotQueued'
    BY <1>0, <2>1 DEF VariantsInv, ServedNotQueued
  <2>4. RowsInv' /\ ServedHasRow'
    BY <1>0, <2>1 DEF VariantsInv, RowsInv, HasRow, ServedHasRow
  <2>. QED BY <2>2, <2>3, <2>4 DEF VariantsInv
<1>8. ASSUME NEW p \in Pairs, PromoteWarming(p) PROVE VariantsInv'
  <2>1. /\ impl = "pure"
        /\ topo' = [topo EXCEPT ![p] = IF @ = "WarmingUp" THEN "Active" ELSE @]
        /\ pending' = [pending EXCEPT ![p] = @ - 1] /\ pending[p] > 0
        /\ UNCHANGED <<pairs, numPps, stage, rows, index, rd, reply, impl, mainPairs>>
    BY <1>8 DEF PromoteWarming, served, reads, varVars
  <2>2. VariantsTypeOK'
    BY <1>0, <2>1 DEF VariantsInv, VariantsTypeOK, Statuses
  <2>. QED BY <2>1, <2>2 DEF VariantsInv, ServedNotQueued, RowsInv, ServedHasRow
<1>9. ASSUME EndPromotion PROVE VariantsInv'
  <2>1. stage' = "idle" /\ UNCHANGED <<topo, pairs, pending, numPps, rows, index, rd, reply, impl, mainPairs>>
    BY <1>9 DEF EndPromotion, served, reads, varVars
  <2>2. VariantsTypeOK'
    BY <2>1 DEF VariantsInv, VariantsTypeOK
  <2>. QED BY <2>1, <2>2 DEF VariantsInv, ServedNotQueued, RowsInv, HasRow, ServedHasRow
<1>10. ASSUME UNCHANGED <<topo, owned, rows, reads, varVars>>
       PROVE  VariantsInv'
  BY <1>10
     DEF VariantsInv, VariantsTypeOK, ServedNotQueued, RowsInv, HasRow, ServedHasRow,
         owned, reads, varVars
<1>11. ASSUME NEW r \in Readers, GetTopK(r) PROVE VariantsInv'
  <2>1. UNCHANGED <<topo, owned, served, varVars>> /\ VariantsTypeOK'
    BY <1>11, ReaderLeaves, ReaderTypes DEF VariantsInv
  <2>. QED BY <2>1
     DEF VariantsInv, ServedNotQueued, RowsInv, HasRow, ServedHasRow, owned, served, varVars
<1>12. ASSUME UNCHANGED allVars PROVE VariantsInv'
  BY <1>12 DEF allVars, vars, varVars, VariantsInv, VariantsTypeOK,
               ServedNotQueued, RowsInv, HasRow, ServedHasRow
<1>13. ASSUME RefreshFromEngine PROVE VariantsInv'
  BY <1>10, <1>13 DEF RefreshFromEngine, RefreshPairIndex
<1>14. ASSUME NEW p \in Pairs, RefreshWithNew(p) PROVE VariantsInv'
  BY <1>10, <1>14 DEF RefreshWithNew
<1>. QED
  BY <1>1, <1>2, <1>3, <1>4, <1>5, <1>6, <1>7, <1>8, <1>9, <1>11, <1>12, <1>13, <1>14 DEF Next

(* The owner's list, the queue of promotions and the published buffer agree *)
(* with the topology map in every reachable state.                          *)
THEOREM VariantsInvariant == Spec => []VariantsInv
BY InitVariants, StepVariants, PTL DEF Spec

(* go-cgo-impl and Kotlin: no pair is served with a promotion queued. *)
THEOREM NoServedQueued == Spec => []ServedNotQueued
<1>1. VariantsInv => ServedNotQueued
  BY DEF VariantsInv
<1>. QED BY <1>1, VariantsInvariant, PTL

(* go-cgo-impl and Kotlin: a pair that is never withdrawn is served only    *)
(* while the published buffer has a row for it, failed cycles included.     *)
THEOREM ServedPairsHaveRows == Spec => []ServedHasRow
<1>1. VariantsInv => ServedHasRow
  BY DEF VariantsInv
<1>. QED BY <1>1, VariantsInvariant, PTL

-----------------------------------------------------------------------------
(* Answers to the pairs every cycle ranks by scores of their own *)

(* The places of the initial list no removal can shift. *)
Fixed == {k \in DOMAIN InitialPairs : \A j \in 1 .. k : InitialPairs[j] \notin Removable}

(* A held pair has one position, which the engine's list, main's own slice, *)
(* the published buffer, the index and every call in progress agree on.     *)
PlacesInv ==
  /\ \A p \in Pairs \ Removable : topo[p] # "Removed"
  /\ \A k \in Fixed : k \in DOMAIN pairs /\ pairs[k] = InitialPairs[k]
  /\ impl = "pure" =>
       \A k \in Fixed :
         /\ k \in DOMAIN mainPairs /\ mainPairs[k] = InitialPairs[k]
         /\ \A i \in DOMAIN mainPairs : mainPairs[i] = InitialPairs[k] => i = k
         /\ k \in DOMAIN rows /\ rows[k] = InitialPairs[k]

AnswersInv ==
  /\ \A p \in Held :
       /\ index[p] # 0 => index[p] \in DOMAIN pairs /\ pairs[index[p]] = p
       /\ \A i \in DOMAIN rows : rows[i] = p => i \in DOMAIN pairs /\ pairs[i] = p
  /\ \A r \in Readers :
       rd[r].pair \in Held =>
         /\ rd[r].at # "idle" => rd[r].pair \in ListRange(rows)
         /\ rd[r].at = "load" => rd[r].row \in DOMAIN rows /\ rows[rd[r].row] = rd[r].pair
  /\ UnmovedOwnRow

HeldInv == PlacesInv /\ AnswersInv

(* Held pairs are never withdrawn, and have a fixed place wherever a place  *)
(* can be lost.                                                             *)
LEMMA HeldFacts ==
  ASSUME VariantsTypeOK
  PROVE  /\ Held \subseteq Pairs /\ NoPair \notin Held /\ Held \cap Removable = {}
         /\ \A p \in Held : impl = "pure" \/ Removable # {}
                              => \E k \in Fixed : InitialPairs[k] = p
         /\ impl = "cgo" => \A p \in Held : Pps[p] < NumPPS
<1> USE ServingAssumption
<1>1. /\ Held \subseteq Unmoved
      /\ impl = "cgo" => \A p \in Held : Pps[p] < NumPPS
      /\ impl = "pure" => Held \subseteq ListRange(InitialPairs)
  BY DEF Held, VariantsTypeOK
<1>2. Unmoved \subseteq Pairs
  BY DEF Unmoved
<1>3. /\ Len(InitialPairs) \in Nat /\ DOMAIN InitialPairs = 1 .. Len(InitialPairs)
  OBVIOUS
<1>4. ASSUME NEW p \in Unmoved, Removable # {}
      PROVE  \E k \in Fixed : InitialPairs[k] = p
  BY <1>4 DEF Unmoved, Fixed
<1>5. ASSUME NEW p \in ListRange(InitialPairs), Removable = {}
      PROVE  \E k \in Fixed : InitialPairs[k] = p
  BY <1>5 DEF ListRange, Fixed
<1>6. ASSUME NEW p \in Unmoved PROVE p \notin Removable
  <2>1. CASE Removable # {}
    <3>1. PICK k \in Fixed : InitialPairs[k] = p
      BY <1>4, <2>1
    <3>2. k \in 1 .. k /\ \A j \in 1 .. k : InitialPairs[j] \notin Removable
      BY <1>3 DEF Fixed
    <3>. QED BY <3>1, <3>2
  <2>. QED BY <2>1
<1>. QED BY <1>1, <1>2, <1>4, <1>5, <1>6

(* The places and answers are right initially. *)
LEMMA InitHeld == Init => HeldInv
<1> SUFFICES ASSUME Init PROVE HeldInv
  OBVIOUS
<1> USE ServingAssumption DEF Init, CoreInit
<1>1. VariantsTypeOK
  BY InitVariants DEF VariantsInv
<1>2. /\ pairs = InitialPairs /\ mainPairs = InitialPairs /\ rows = InitialPairs
      /\ index = Positions(InitialPairs)
      /\ \A r \in Readers : rd[r] = Idle /\ reply[r] = Answer(NoPair, "Nothing", NoPair)
  OBVIOUS
<1>3. \A p \in Pairs : index[p] # 0 => index[p] \in DOMAIN pairs /\ pairs[index[p]] = p
  BY <1>2, PositionsFacts
<1>4. PlacesInv
  BY <1>2 DEF PlacesInv, Fixed, NoRepeats
<1>5. UnmovedOwnRow
  BY <1>1, <1>2, HeldFacts DEF UnmovedOwnRow, Answer
<1>6. Held \subseteq Pairs /\ NoPair \notin Held
  BY <1>1, HeldFacts
<1>7. \A r \in Readers : rd[r].pair \notin Held
  BY <1>2, <1>6 DEF Idle
<1> HIDE DEF Init, CoreInit
<1>. QED BY <1>2, <1>3, <1>4, <1>5, <1>6, <1>7 DEF HeldInv, AnswersInv

(* A step of the lists that leaves every held pair in its place keeps the   *)
(* answers.                                                                 *)
LEMMA KeepAnswers ==
  ASSUME VariantsTypeOK, AnswersInv,
         UNCHANGED <<rows, index, rd, reply, impl>>,
         \A q \in Held : \A i \in DOMAIN pairs :
           pairs[i] = q => i \in DOMAIN pairs' /\ pairs'[i] = q
  PROVE  AnswersInv'
<1>1. Held' = Held
  BY DEF Held, Unmoved
<1>. QED BY <1>1 DEF AnswersInv, UnmovedOwnRow

(* Publishing a buffer that ranks every held pair in its place. *)
LEMMA PublishHeld ==
  ASSUME VariantsTypeOK, HeldInv, NEW ranked, Publish(ranked),
         \A q \in Held : \A i \in DOMAIN pairs :
           pairs[i] = q => i \in DOMAIN ranked /\ ranked[i] = q,
         \A q \in Held : \A i \in DOMAIN ranked :
           ranked[i] = q => i \in DOMAIN pairs /\ pairs[i] = q
  PROVE  HeldInv'
<1>1. /\ rows' = ranked
      /\ UNCHANGED <<topo, pairs, index, rd, reply, impl, mainPairs>>
  BY DEF Publish, reads, varVars
<1>2. Held' = Held
  BY <1>1 DEF Held, Unmoved
<1>3. ASSUME impl = "pure", NEW k \in Fixed
      PROVE  k \in DOMAIN ranked /\ ranked[k] = InitialPairs[k]
  <2>1. k \in DOMAIN pairs /\ pairs[k] = InitialPairs[k]
    BY DEF HeldInv, PlacesInv
  <2>2. InitialPairs[k] \in Held
    <3>1. /\ k \in DOMAIN InitialPairs /\ InitialPairs[k] \in Pairs
          /\ \A j \in 1 .. k : InitialPairs[j] \notin Removable
      BY ServingAssumption DEF Fixed
    <3>2. InitialPairs[k] \in Unmoved /\ InitialPairs[k] \in ListRange(InitialPairs)
      BY <3>1 DEF Unmoved, ListRange
    <3>. QED BY <1>3, <3>2 DEF Held
  <2>. QED BY <2>1, <2>2
<1>4. PlacesInv'
  BY <1>1, <1>3 DEF HeldInv, PlacesInv
<1>5. ASSUME NEW r \in Readers, rd[r].pair \in Held
      PROVE  /\ rd[r].at # "idle" => rd[r].pair \in ListRange(ranked)
             /\ rd[r].at = "load" => rd[r].row \in DOMAIN ranked /\ ranked[rd[r].row] = rd[r].pair
  <2>1. ASSUME NEW i \in DOMAIN rows, rows[i] = rd[r].pair
        PROVE  i \in DOMAIN ranked /\ ranked[i] = rd[r].pair
    <3>1. i \in DOMAIN pairs /\ pairs[i] = rd[r].pair
      BY <1>5, <2>1 DEF HeldInv, AnswersInv
    <3>. QED BY <1>5, <3>1
  <2>2. /\ rd[r].at # "idle" => \E i \in DOMAIN rows : rows[i] = rd[r].pair
        /\ rd[r].at = "load" => rd[r].row \in DOMAIN rows /\ rows[rd[r].row] = rd[r].pair
    BY <1>5 DEF HeldInv, AnswersInv, ListRange
  <2>. QED BY <2>1, <2>2 DEF ListRange
<1>. QED BY <1>1, <1>2, <1>4, <1>5 DEF HeldInv, AnswersInv, UnmovedOwnRow

(* A removal closes a gap behind every held pair, in both slices. *)
LEMMA HeldRemoval ==
  ASSUME VariantsInv, HeldInv, NEW p \in Removable, HandleRemovePair(p)
  PROVE  HeldInv'
<1>0. /\ pairs \in Seq(Pairs) /\ NoRepeats(pairs) /\ mainPairs \in Seq(Pairs)
      /\ InitialPairs \in Seq(Pairs) /\ VariantsTypeOK
  BY ServingAssumption DEF VariantsInv, VariantsTypeOK
<1>1. /\ pairs' = Without(pairs, p) /\ topo' = [topo EXCEPT ![p] = "Removed"]
      /\ UNCHANGED <<rows, index, rd, reply, impl>>
      /\ mainPairs' = IF impl = "pure" THEN Overlaid(pairs', mainPairs) ELSE mainPairs
  BY DEF HandleRemovePair, served, reads
<1>2. ASSUME NEW k \in Fixed
      PROVE  /\ k \in DOMAIN pairs /\ pairs[k] = InitialPairs[k]
             /\ k \in DOMAIN pairs' /\ pairs'[k] = InitialPairs[k]
  <2>1. /\ k \in Nat /\ k \in 1 .. k /\ 1 .. k \subseteq Fixed
        /\ \A j \in 1 .. k : InitialPairs[j] # p
    BY <1>0 DEF Fixed
  <2>2. \A j \in 1 .. k : j \in DOMAIN pairs /\ pairs[j] = InitialPairs[j]
    BY <2>1 DEF HeldInv, PlacesInv
  <2>3. k \in 1 .. Len(pairs) /\ \A j \in 1 .. k : pairs[j] # p
    BY <1>0, <2>1, <2>2
  <2>. QED BY <1>0, <1>1, <2>1, <2>2, <2>3, WithoutKeepsPrefix
<1>3. ASSUME NEW q \in Held, NEW i \in DOMAIN pairs, pairs[i] = q
      PROVE  i \in DOMAIN pairs' /\ pairs'[i] = q
  <2>1. PICK k \in Fixed : InitialPairs[k] = q
    BY <1>0, HeldFacts
  <2>2. i = k
    BY <1>0, <1>2, <1>3, <2>1 DEF NoRepeats
  <2>. QED BY <1>2, <2>1, <2>2
<1>4. AnswersInv'
  BY <1>0, <1>1, <1>3, KeepAnswers DEF HeldInv
<1>5. \A q \in Pairs \ Removable : topo'[q] # "Removed"
  BY <1>1 DEF HeldInv, PlacesInv, VariantsInv, VariantsTypeOK
<1>6. ASSUME impl = "pure", NEW k \in Fixed
      PROVE  /\ k \in DOMAIN mainPairs' /\ mainPairs'[k] = InitialPairs[k]
             /\ \A i \in DOMAIN mainPairs' : mainPairs'[i] = InitialPairs[k] => i = k
  <2>1. mainPairs' = [i \in DOMAIN mainPairs |-> IF i <= Len(pairs') THEN pairs'[i] ELSE mainPairs[i]]
    BY <1>1, <1>6 DEF Overlaid
  <2>2. /\ k \in DOMAIN mainPairs
        /\ \A i \in DOMAIN mainPairs : mainPairs[i] = InitialPairs[k] => i = k
    BY <1>6 DEF HeldInv, PlacesInv
  <2>3. /\ NoRepeats(pairs') /\ DOMAIN pairs' = 1 .. Len(pairs') /\ Len(pairs') \in Nat
        /\ DOMAIN mainPairs = 1 .. Len(mainPairs) /\ Len(mainPairs) \in Nat
    BY <1>0, <1>1, WithoutFacts
  <2>4. k \in DOMAIN pairs' /\ pairs'[k] = InitialPairs[k]
    BY <1>2
  <2>5. \A i \in DOMAIN mainPairs : mainPairs'[i] = IF i <= Len(pairs') THEN pairs'[i] ELSE mainPairs[i]
    BY <2>1
  <2>6. DOMAIN mainPairs' = DOMAIN mainPairs
    BY <2>1
  <2>7. mainPairs'[k] = InitialPairs[k]
    BY <2>2, <2>3, <2>4, <2>5
  <2>8. ASSUME NEW i \in DOMAIN mainPairs, mainPairs'[i] = InitialPairs[k] PROVE i = k
    <3>1. CASE i <= Len(pairs')
      BY <2>3, <2>4, <2>5, <2>8, <3>1 DEF NoRepeats
    <3>2. CASE ~(i <= Len(pairs'))
      BY <2>2, <2>5, <2>8, <3>2
    <3>. QED BY <3>1, <3>2
  <2>. QED BY <2>2, <2>6, <2>7, <2>8
<1>7. PlacesInv'
  <2>1. impl' = impl /\ rows' = rows
    BY <1>1
  <2>2. \A k \in Fixed : impl = "pure" => k \in DOMAIN rows /\ rows[k] = InitialPairs[k]
    BY DEF HeldInv, PlacesInv
  <2>. QED BY <1>2, <1>5, <1>6, <2>1, <2>2 DEF PlacesInv
<1>. QED BY <1>4, <1>7 DEF HeldInv

(* The three ways a cycle publishes. *)
LEMMA HeldRanking ==
  ASSUME VariantsInv, HeldInv, RankCgo \/ RankPure \/ RankKotlin
  PROVE  HeldInv'
<1>0. /\ pairs \in Seq(Pairs) /\ VariantsTypeOK /\ numPps = NumPPS
      /\ \A i \in DOMAIN pairs : pairs[i] \in Pairs
  BY DEF VariantsInv, VariantsTypeOK
<1>1. /\ Held \subseteq Pairs \ Removable /\ NoPair \notin Held
      /\ impl = "cgo" => \A q \in Held : Pps[q] < NumPPS
  BY <1>0, HeldFacts
<1>2. CASE RankCgo
  <2>1. PICK bare \in SUBSET ListRange(pairs) :
          Publish([i \in DOMAIN pairs |->
                     IF Pps[pairs[i]] < numPps \/ pairs[i] \in bare THEN pairs[i] ELSE NoPair])
    BY <1>2 DEF RankCgo
  <2> DEFINE ranked == [i \in DOMAIN pairs |->
                IF Pps[pairs[i]] < numPps \/ pairs[i] \in bare THEN pairs[i] ELSE NoPair]
  <2>2. impl = "cgo"
    BY <1>2 DEF RankCgo
  <2>3. \A q \in Held : \A i \in DOMAIN pairs : pairs[i] = q => i \in DOMAIN ranked /\ ranked[i] = q
    BY <1>0, <1>1, <2>2
  <2>4. \A q \in Held : \A i \in DOMAIN ranked : ranked[i] = q => i \in DOMAIN pairs /\ pairs[i] = q
    BY <1>1
  <2>5. Publish(ranked)
    BY <2>1
  <2> HIDE DEF ranked
  <2>. QED BY <1>0, <2>3, <2>4, <2>5, PublishHeld
<1>3. CASE RankPure
  <2> DEFINE ranked == [i \in DOMAIN pairs |-> IF topo[pairs[i]] = "Removed" THEN NoPair ELSE pairs[i]]
  <2>1. Publish(ranked)
    BY <1>3 DEF RankPure
  <2>2. \A q \in Held : topo[q] # "Removed"
    BY <1>1 DEF HeldInv, PlacesInv
  <2>3. \A q \in Held : \A i \in DOMAIN pairs : pairs[i] = q => i \in DOMAIN ranked /\ ranked[i] = q
    BY <2>2
  <2>4. \A q \in Held : \A i \in DOMAIN ranked : ranked[i] = q => i \in DOMAIN pairs /\ pairs[i] = q
    BY <1>1
  <2> HIDE DEF ranked
  <2>. QED BY <1>0, <2>1, <2>3, <2>4, PublishHeld
<1>4. CASE RankKotlin
  BY <1>0, <1>4, PublishHeld DEF RankKotlin
<1>. QED BY <1>2, <1>3, <1>4

(* A new index points at the held pairs' places. *)
LEMMA HeldRefresh ==
  ASSUME VariantsInv, HeldInv, UNCHANGED <<topo, owned, rows, reads, varVars>>,
         \A q \in Held : index'[q] # 0 => index'[q] \in DOMAIN pairs /\ pairs[index'[q]] = q
  PROVE  HeldInv'
<1>1. Held' = Held
  BY DEF Held, Unmoved, varVars
<1>2. UNCHANGED <<topo, pairs, rows, rd, reply, impl, mainPairs>>
  BY DEF owned, reads, varVars
<1>. QED BY <1>1, <1>2 DEF HeldInv, PlacesInv, AnswersInv, UnmovedOwnRow

(* Main's own slice, extended by a pair that was not there at the start. *)
LEMMA HeldRefreshWithNew ==
  ASSUME VariantsInv, HeldInv, NEW p \in Pairs, RefreshWithNew(p)
  PROVE  HeldInv'
<1>1. /\ impl = "pure" /\ p \notin ListRange(InitialPairs)
      /\ index' = Positions(Append(mainPairs, p))
      /\ UNCHANGED <<topo, owned, rows, reads, varVars>>
  BY DEF RefreshWithNew
<1>2. /\ mainPairs \in Seq(Pairs) /\ VariantsTypeOK
      /\ DOMAIN mainPairs = 1 .. Len(mainPairs) /\ Len(mainPairs) \in Nat
  BY DEF VariantsInv, VariantsTypeOK
<1> DEFINE s == Append(mainPairs, p)
<1>3. /\ DOMAIN s = 1 .. Len(mainPairs) + 1 /\ s[Len(mainPairs) + 1] = p
      /\ \A i \in 1 .. Len(mainPairs) : s[i] = mainPairs[i]
  BY <1>2
<1>4. ASSUME NEW q \in Held
      PROVE  index'[q] \in DOMAIN pairs /\ pairs[index'[q]] = q
  <2>1. PICK k \in Fixed : InitialPairs[k] = q
    BY <1>1, <1>2, HeldFacts
  <2>2. q \in Pairs /\ q # p
    BY <1>1, <2>1, <1>2, HeldFacts DEF ListRange, Fixed
  <2>3. /\ k \in DOMAIN pairs /\ pairs[k] = q
        /\ k \in DOMAIN mainPairs /\ mainPairs[k] = q
        /\ \A i \in DOMAIN mainPairs : mainPairs[i] = q => i = k
    BY <1>1, <2>1 DEF HeldInv, PlacesInv
  <2>4. /\ k \in DOMAIN s /\ s[k] = q
        /\ \A i \in DOMAIN s : s[i] = q => i = k
    BY <1>2, <1>3, <2>2, <2>3
  <2>5. k \in Nat
    BY <1>2, <2>3
  <2> HIDE DEF s
  <2>6. index'[q] = CHOOSE i \in DOMAIN s : s[i] = q /\ \A j \in DOMAIN s : s[j] = q => j <= i
    BY <1>1, <2>2, <2>4 DEF Positions, IndexRow, ListRange, s
  <2>7. index'[q] = k
    BY <2>4, <2>5, <2>6
  <2>. QED BY <2>3, <2>7
<1>. QED BY <1>1, <1>4, HeldRefresh

(* A call in progress: between the check of the status and the load of the   *)
(* buffer, the held pair's row stays where the index has it.                 *)
LEMMA HeldReads ==
  ASSUME VariantsInv, HeldInv, NEW r \in Readers, GetTopK(r)
  PROVE  HeldInv'
<1>0. /\ pairs \in Seq(Pairs) /\ NoRepeats(pairs) /\ VariantsTypeOK
      /\ DOMAIN rd = Readers /\ DOMAIN reply = Readers
  BY DEF VariantsInv, VariantsTypeOK
<1>1. /\ UNCHANGED <<topo, pairs, rows, index, impl, mainPairs>>
      /\ \A q \in Readers \ {r} : rd'[q] = rd[q]
  BY <1>0, ReaderLeaves, ReaderTypes DEF owned, served, varVars
<1>2. Held' = Held /\ PlacesInv'
  BY <1>1 DEF Held, Unmoved, HeldInv, PlacesInv
<1>3. /\ Held \subseteq Pairs \ Removable /\ NoPair \notin Held
      /\ impl = "cgo" => \A q \in Held : Pps[q] < NumPPS
  BY <1>0, HeldFacts
<1>4. ASSUME UnmovedOwnRow',
             rd'[r].pair \in Held =>
               /\ rd'[r].at # "idle" => rd'[r].pair \in ListRange(rows)
               /\ rd'[r].at = "load" => rd'[r].row \in DOMAIN rows /\ rows[rd'[r].row] = rd'[r].pair
      PROVE  HeldInv'
  <2>1. ASSUME NEW q \in Readers, rd'[q].pair \in Held
        PROVE  /\ rd'[q].at # "idle" => rd'[q].pair \in ListRange(rows)
               /\ rd'[q].at = "load" => rd'[q].row \in DOMAIN rows /\ rows[rd'[q].row] = rd'[q].pair
    BY <1>1, <1>4, <2>1 DEF HeldInv, AnswersInv
  <2>. QED BY <1>1, <1>2, <1>4, <2>1 DEF HeldInv, AnswersInv, ListRange
<1>5. ASSUME UNCHANGED reply PROVE UnmovedOwnRow'
  BY <1>2, <1>5 DEF HeldInv, AnswersInv, UnmovedOwnRow
<1>6. ASSUME NEW p, NEW code, code \notin {"OK", "OutOfRange"},
             reply' = [reply EXCEPT ![r] = Answer(p, code, NoPair)]
      PROVE  UnmovedOwnRow'
  <2>1. reply'[r].code = code
    BY <1>0, <1>6 DEF Answer
  <2>2. \A q \in Readers \ {r} : reply'[q] = reply[q]
    BY <1>0, <1>6
  <2>. QED BY <1>2, <1>6, <2>1, <2>2 DEF HeldInv, AnswersInv, UnmovedOwnRow
<1>7. CASE \E p \in Pairs : CheckStatus(r, p)
  <2>1. PICK p \in Pairs : CheckStatus(r, p)
    BY <1>7
  <2>2. CASE UNCHANGED rd /\ \E code \in {"NotFound", "Unavailable"} :
               reply' = [reply EXCEPT ![r] = Answer(p, code, NoPair)]
    <3>1. UnmovedOwnRow'
      BY <1>6, <2>2
    <3>. QED BY <1>4, <2>2, <3>1 DEF HeldInv, AnswersInv
  <2>3. CASE /\ topo[p] = "Active" /\ UNCHANGED reply
             /\ rd' = [rd EXCEPT ![r] = [at |-> "lookup", pair |-> p, row |-> 0]]
    <3>1. rd'[r] = [at |-> "lookup", pair |-> p, row |-> 0]
      BY <1>0, <2>3
    <3>2. ASSUME p \in Held PROVE p \in ListRange(rows)
      <4>1. CASE impl = "pure"
        <5>1. PICK k \in Fixed : InitialPairs[k] = p
          BY <1>0, <3>2, <4>1, HeldFacts
        <5>2. k \in DOMAIN rows /\ rows[k] = p
          BY <4>1, <5>1 DEF HeldInv, PlacesInv
        <5>. QED BY <5>2 DEF ListRange
      <4>2. CASE impl # "pure"
        <5>1. impl = "cgo" => Pps[p] < numPps /\ Pps[p] \in Nat /\ numPps \in Nat
          BY <1>0, <1>3, <3>2, ServingAssumption DEF VariantsTypeOK
        <5>2. p \in Pairs \ Removable
          BY <1>3, <3>2
        <5>3. p \in ListRange(rows) \/ (impl = "cgo" /\ Pps[p] >= numPps)
          BY <2>3, <4>2, <5>2 DEF VariantsInv, ServedHasRow
        <5>. QED BY <5>1, <5>3
      <4>. QED BY <4>1, <4>2
    <3>3. UnmovedOwnRow'
      BY <1>5, <2>3
    <3>. QED BY <1>4, <3>1, <3>2, <3>3
  <2>. QED BY <2>1, <2>2, <2>3 DEF CheckStatus
<1>8. CASE LookUp(r, IF impl = "pure" THEN "NotFound" ELSE "Unavailable")
  <2>1. CASE /\ rd' = [rd EXCEPT ![r] = Idle]
             /\ \E code \in {"NotFound", "Unavailable"} :
                  reply' = [reply EXCEPT ![r] = Answer(rd[r].pair, code, NoPair)]
    <3>1. UnmovedOwnRow'
      BY <1>6, <2>1
    <3>2. rd'[r] = Idle
      BY <1>0, <2>1
    <3>. QED BY <1>3, <1>4, <3>1, <3>2 DEF Idle
  <2>2. CASE /\ rd[r].at = "lookup" /\ index[rd[r].pair] # 0 /\ UNCHANGED reply
             /\ rd' = [rd EXCEPT ![r].at = "load", ![r].row = index[rd[r].pair]]
    <3> DEFINE n == index[rd[r].pair]
    <3>1. rd'[r].pair = rd[r].pair /\ rd'[r].row = n
      <4> HIDE DEF n
      <4>1. rd' = [rd EXCEPT ![r].at = "load", ![r].row = n]
        BY <2>2 DEF n
      <4>2. rd \in [Readers -> [at : {rd[q].at : q \in Readers}, pair : {rd[q].pair : q \in Readers},
                                row : {rd[q].row : q \in Readers}]]
        BY <1>0 DEF VariantsTypeOK
      <4>. QED BY <4>1, <4>2
    <3>2. ASSUME rd[r].pair \in Held
          PROVE  rd[r].pair \in ListRange(rows) /\ n \in DOMAIN rows /\ rows[n] = rd[r].pair
      <4>1. /\ rd[r].pair \in ListRange(rows)
            /\ n \in DOMAIN pairs /\ pairs[n] = rd[r].pair
        BY <2>2, <3>2 DEF HeldInv, AnswersInv
      <4>2. PICK i \in DOMAIN rows : rows[i] = rd[r].pair
        BY <4>1 DEF ListRange
      <4>3. i \in DOMAIN pairs /\ pairs[i] = rd[r].pair
        BY <3>2, <4>2 DEF HeldInv, AnswersInv
      <4>4. i = n
        BY <1>0, <4>1, <4>3 DEF NoRepeats
      <4>. QED BY <4>1, <4>2, <4>4
    <3>3. UnmovedOwnRow'
      BY <1>5, <2>2
    <3>. QED BY <1>4, <3>1, <3>2, <3>3
  <2>. QED BY <1>8, <2>1, <2>2 DEF LookUp
<1>9. CASE LoadRow(r)
  <2>1. /\ rd[r].at = "load" /\ rd' = [rd EXCEPT ![r] = Idle]
        /\ reply' = [reply EXCEPT ![r] =
                       IF rd[r].row <= Len(rows)
                       THEN Answer(rd[r].pair, "OK", rows[rd[r].row])
                       ELSE Answer(rd[r].pair, "OutOfRange", NoPair)]
    BY <1>9 DEF LoadRow
  <2>2. rd'[r] = Idle /\ \A q \in Readers \ {r} : reply'[q] = reply[q]
    BY <1>0, <2>1
  <2>3. reply'[r].pair = rd[r].pair
    BY <1>0, <2>1 DEF Answer
  <2>4. ASSUME rd[r].pair \in Held PROVE reply'[r] = Answer(rd[r].pair, "OK", rd[r].pair)
    <3>1. rd[r].row \in DOMAIN rows /\ rows[rd[r].row] = rd[r].pair
      BY <2>1, <2>4 DEF HeldInv, AnswersInv
    <3>2. rd[r].row <= Len(rows)
      BY <1>0, <3>1 DEF VariantsTypeOK
    <3>. QED BY <1>0, <2>1, <3>1, <3>2
  <2>5. UnmovedOwnRow'
    BY <1>2, <2>2, <2>3, <2>4 DEF HeldInv, AnswersInv, UnmovedOwnRow, Answer
  <2>. QED BY <1>3, <1>4, <2>2, <2>5 DEF Idle
<1>. QED BY <1>7, <1>8, <1>9 DEF GetTopK

(* Every step keeps the places and the answers. *)
LEMMA StepHeld == VariantsInv /\ HeldInv /\ [Next]_allVars => HeldInv'
<1> SUFFICES ASSUME VariantsInv, HeldInv, [Next]_allVars PROVE HeldInv'
  OBVIOUS
<1>0. /\ pairs \in Seq(Pairs) /\ NoRepeats(pairs) /\ VariantsTypeOK
      /\ DOMAIN pairs = 1 .. Len(pairs) /\ Len(pairs) \in Nat
      /\ topo \in [Pairs -> Statuses]
  BY DEF VariantsInv, VariantsTypeOK
<1>1. ASSUME NEW p \in Pairs, HandleAddPair(p) PROVE HeldInv'
  <2>1. \A i \in DOMAIN pairs : i \in DOMAIN pairs' /\ pairs'[i] = pairs[i]
    <3>1. pairs' = pairs \/ pairs' = Append(pairs, p)
      BY <1>1 DEF HandleAddPair
    <3>. QED BY <1>0, <3>1
  <2>2. /\ UNCHANGED <<rows, index, rd, reply, impl, mainPairs>>
        /\ topo' = [topo EXCEPT ![p] = "WarmingUp"]
    BY <1>1 DEF HandleAddPair, served, reads, varVars
  <2>3. PlacesInv'
    BY <1>0, <2>1, <2>2 DEF HeldInv, PlacesInv
  <2>4. AnswersInv'
    BY <1>0, <2>1, <2>2, KeepAnswers DEF HeldInv
  <2>. QED BY <2>3, <2>4 DEF HeldInv
<1>2. ASSUME NEW p \in Pairs, PromoteAny(p) \/ PromoteWarming(p) PROVE HeldInv'
  <2>1. /\ UNCHANGED <<pairs, rows, index, rd, reply, impl, mainPairs>>
        /\ \/ topo' = [topo EXCEPT ![p] = "Active"]
           \/ topo' = [topo EXCEPT ![p] = IF @ = "WarmingUp" THEN "Active" ELSE @]
    BY <1>2 DEF PromoteAny, PromoteWarming, served, reads, varVars
  <2>2. PlacesInv'
    BY <1>0, <2>1 DEF HeldInv, PlacesInv
  <2>. QED BY <1>0, <2>1, <2>2, KeepAnswers DEF HeldInv
<1>3. ASSUME UNCHANGED <<topo, pairs, rows, index, rd, reply, impl, mainPairs>> PROVE HeldInv'
  BY <1>0, <1>3, KeepAnswers DEF HeldInv, PlacesInv
<1>4. ASSUME RankFails \/ EndPromotion PROVE HeldInv'
  BY <1>3, <1>4 DEF RankFails, EndPromotion, served, reads, varVars
<1>5. ASSUME RefreshFromEngine PROVE HeldInv'
  <2>1. /\ index' = Positions(pairs)
        /\ UNCHANGED <<topo, owned, rows, reads, varVars>>
    BY <1>5 DEF RefreshFromEngine, RefreshPairIndex
  <2>2. \A q \in Held : index'[q] # 0 => index'[q] \in DOMAIN pairs /\ pairs[index'[q]] = q
    BY <1>0, <2>1, PositionsFacts, HeldFacts
  <2>. QED BY <2>1, <2>2, HeldRefresh
<1>6. ASSUME UNCHANGED allVars PROVE HeldInv'
  BY <1>3, <1>6 DEF allVars, vars
<1>7. Announced \subseteq Pairs
  BY VariantsAssumption
<1>. QED
  BY <1>1, <1>2, <1>4, <1>5, <1>6, <1>7, HeldRemoval, HeldRanking, HeldRefreshWithNew, HeldReads
     DEF Next

(* A pair that no removal can shift, and that the matrix has scores for, is  *)
(* answered from its own row in all three, whatever runs between the loads   *)
(* of GetTopK.                                                               *)
THEOREM HeldPairsAnswered == Spec => []UnmovedOwnRow
<1>1. HeldInv => UnmovedOwnRow
  BY DEF HeldInv, AnswersInv
<1>. QED BY <1>1, InitHeld, StepHeld, VariantsInvariant, PTL DEF Spec

=============================================================================
