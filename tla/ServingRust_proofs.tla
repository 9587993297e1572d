------------------------- MODULE ServingRust_proofs -------------------------
(***************************************************************************)
(* Proofs about ServingRust, for any pairs, readers, initial list and      *)
(* matrix size: the circuit breaker's invariants, and that the             *)
(* implementation refines the README's pair lifecycle.  The last part is   *)
(* about ServiceRust, where the same pairs are served over the orders.     *)
(***************************************************************************)
EXTENDS ServiceRust, InvertedIndexes_proofs

(* The index built from a list sends each listed pair to a row holding it. *)
LEMMA PositionsFacts ==
  ASSUME NEW s \in Seq(Pairs), NoRepeats(s)
  PROVE  /\ Positions(s) \in [Pairs -> Nat]
         /\ \A p \in Pairs : p \notin ListRange(s) => Positions(s)[p] = 0
         /\ \A p \in ListRange(s) : /\ Positions(s)[p] \in DOMAIN s
                                    /\ s[Positions(s)[p]] = p
<1>1. ListRange(s) \subseteq Pairs
  BY DEF ListRange
<1>2. \A p \in Pairs : Positions(s)[p] = IndexRow(s, p)
  BY DEF Positions
<1>3. \A p \in Pairs : Positions(s)[p] \in Nat
  BY <1>2, IndexRowFacts
<1>4. Positions(s) = [p \in Pairs |-> Positions(s)[p]]
  BY DEF Positions
<1>. QED BY <1>1, <1>2, <1>3, <1>4, IndexRowFacts

-----------------------------------------------------------------------------
(* The inductive invariant *)

(* The owner's lists agree with the topology map. *)
ListsInv ==
  /\ NoRepeats(pairs)
  /\ \A p \in Pairs : p \in ListRange(pairs) <=> topo[p] \in {"WarmingUp", "Active"}
  /\ pending \subseteq ListRange(pairs)
  /\ NoStrandedWarmup

(* A pair is ranked in the published buffer before it is activated. *)
PublishInv ==
  /\ ActiveIsRanked
  /\ stage = "promoting" => rows = pairs

(* Every pair to rank has a row in the score matrix. *)
MatrixInv ==
  /\ MatrixCoversPairs
  /\ \A p \in ListRange(pairs) : Pps[p] < numPps

LifecycleInv == TypeOK /\ ListsInv /\ PublishInv /\ MatrixInv

(* An unmoved pair has one position, which the list, the published buffer, *)
(* the index and every read in progress agree on.                          *)
UnmovedInv ==
  /\ \A k \in DOMAIN InitialPairs :
       (\A j \in 1 .. k : InitialPairs[j] \notin Removable)
         => k \in DOMAIN pairs /\ pairs[k] = InitialPairs[k]
  /\ \A p \in Unmoved :
       /\ index[p] # 0 => index[p] \in DOMAIN pairs /\ pairs[index[p]] = p
       /\ \A i \in DOMAIN rows : rows[i] = p => i \in DOMAIN pairs /\ pairs[i] = p
  /\ \A r \in Readers :
       rd[r].pair \in Unmoved =>
         /\ rd[r].at # "idle" => rd[r].pair \in ListRange(rows)
         /\ rd[r].at = "load" => rd[r].row \in DOMAIN rows /\ rows[rd[r].row] = rd[r].pair
  /\ UnmovedOwnRow

-----------------------------------------------------------------------------
(* Steps of a reader leave the owner's state alone. *)
LEMMA ReaderSteps ==
  ASSUME NEW r \in Readers, LifecycleInv, GetTopK(r)
  PROVE  /\ UNCHANGED <<topo, owned, served>>
         /\ TypeOK'
<1>1. UNCHANGED <<topo, owned, served>>
  BY DEF GetTopK, CheckStatus, LookUp, LoadRow
<1>a. rd \in [Readers -> [at : {"idle", "lookup", "load"}, pair : Pairs \cup {NoPair}, row : Nat]]
  BY DEF LifecycleInv, TypeOK, CoreTypeOK
<1>b. /\ rd[r].at # "idle" => rd[r].pair \in Pairs
      /\ rd[r].at = "load" => rd[r].row # 0
  <2>1. CoreTypeOK
    BY DEF LifecycleInv, TypeOK
  <2>. QED BY <2>1 DEF CoreTypeOK
<1>0. /\ rd[r].pair \in Pairs \cup {NoPair}
      /\ rd[r].row \in Nat
  BY <1>a
<1>2. ASSUME NEW p \in Pairs, CheckStatus(r, p) PROVE TypeOK'
  <2>1. \/ UNCHANGED rd /\ \E code \in {"NotFound", "Unavailable"} :
              reply' = [reply EXCEPT ![r] = Answer(p, code, NoPair)]
        \/ UNCHANGED reply /\ rd' = [rd EXCEPT ![r] = [at |-> "lookup", pair |-> p, row |-> 0]]
    BY <1>2 DEF CheckStatus
  <2>2. CASE UNCHANGED rd /\ \E code \in {"NotFound", "Unavailable"} :
               reply' = [reply EXCEPT ![r] = Answer(p, code, NoPair)]
    BY <1>1, <2>2 DEF LifecycleInv, TypeOK, CoreTypeOK, Answer, owned, served
  <2>3. CASE UNCHANGED reply /\ rd' = [rd EXCEPT ![r] = [at |-> "lookup", pair |-> p, row |-> 0]]
    BY <1>a, <1>1, <2>3 DEF LifecycleInv, TypeOK, CoreTypeOK, owned, served
  <2>. QED BY <2>1, <2>2, <2>3
<1>3. ASSUME LookUp(r, "Internal") PROVE TypeOK'
  <2>1. rd[r].pair \in Pairs /\ index[rd[r].pair] \in Nat
    BY <1>b, <1>3 DEF LookUp, LifecycleInv, TypeOK, CoreTypeOK
  <2>2. CASE index[rd[r].pair] = 0
    <3>1. /\ reply' = [reply EXCEPT ![r] = Answer(rd[r].pair, "Internal", NoPair)]
          /\ rd' = [rd EXCEPT ![r] = Idle]
      BY <1>3, <2>2 DEF LookUp
    <3>. QED
      BY <1>a, <1>0, <1>1, <2>1, <3>1
         DEF LifecycleInv, TypeOK, CoreTypeOK, Answer, Idle, owned, served
  <2>3. CASE index[rd[r].pair] # 0
    <3>1. /\ rd' = [rd EXCEPT ![r].at = "load", ![r].row = index[rd[r].pair]]
          /\ reply' = reply
      BY <1>3, <2>3 DEF LookUp
    <3>2. rd'[r] = [at |-> "load", pair |-> rd[r].pair, row |-> index[rd[r].pair]]
      BY <1>a, <3>1
    <3>3. \A q \in Readers : q # r => rd'[q] = rd[q]
      BY <1>a, <3>1
    <3>4. rd' \in [Readers -> [at : {"idle", "lookup", "load"}, pair : Pairs \cup {NoPair}, row : Nat]]
      BY <1>a, <1>0, <2>1, <3>1
    <3>. QED
      BY <1>1, <2>1, <2>3, <3>1, <3>2, <3>3, <3>4
         DEF LifecycleInv, TypeOK, CoreTypeOK, owned, served
  <2>. QED BY <2>2, <2>3
<1>4. ASSUME LoadRow(r) PROVE TypeOK'
  <2>1. rd[r].pair \in Pairs /\ rd[r].row # 0
    BY <1>b, <1>4 DEF LoadRow
  <2>2. /\ rd' = [rd EXCEPT ![r] = Idle]
        /\ reply' = [reply EXCEPT ![r] =
                       IF rd[r].row <= Len(rows)
                       THEN Answer(rd[r].pair, "OK", rows[rd[r].row])
                       ELSE Answer(rd[r].pair, "OutOfRange", NoPair)]
    BY <1>4 DEF LoadRow
  <2>3. Len(rows) \in Nat /\ \A i \in 1 .. Len(rows) : rows[i] \in Pairs
    BY DEF LifecycleInv, TypeOK
  <2>4. rd[r].row <= Len(rows) => rows[rd[r].row] \in Pairs
    BY <1>0, <2>1, <2>3
  <2>. QED
    BY <1>a, <1>0, <1>1, <2>1, <2>2, <2>4
       DEF LifecycleInv, TypeOK, CoreTypeOK, Answer, Idle, owned, served
<1>. QED BY <1>1, <1>2, <1>3, <1>4 DEF GetTopK

(* The invariant holds initially. *)
LEMMA InitLifecycle == Init => LifecycleInv
<1> SUFFICES ASSUME Init PROVE LifecycleInv
  OBVIOUS
<1> USE ServingAssumption DEF Init, CoreInit
<1>1. ListRange(InitialPairs) \subseteq Pairs
  BY DEF ListRange
<1>2. TypeOK
  BY PositionsFacts DEF TypeOK, CoreTypeOK, Statuses, Idle, Answer
<1>3. ListsInv
  BY <1>1 DEF ListsInv, NoStrandedWarmup
<1>4. PublishInv /\ MatrixInv
  BY <1>1 DEF PublishInv, MatrixInv, ActiveIsRanked, MatrixCoversPairs
<1>. QED BY <1>2, <1>3, <1>4 DEF LifecycleInv

(* Every step keeps it. *)
LEMMA StepLifecycle == LifecycleInv /\ [Next]_vars => LifecycleInv'
<1> SUFFICES ASSUME LifecycleInv, [Next]_vars PROVE LifecycleInv'
  OBVIOUS
<1> USE ServingAssumption DEF LifecycleInv
<1>0. /\ pairs \in Seq(Pairs) /\ NoRepeats(pairs) /\ pending \subseteq Pairs
      /\ ListRange(pairs) \subseteq Pairs
      /\ topo \in [Pairs -> Statuses]
      /\ numPps \in Nat
  BY DEF TypeOK, CoreTypeOK, ListsInv, ListRange
<1>1. ASSUME NEW p \in Pairs, HandleAddPair(p) PROVE LifecycleInv'
  <2>1. CASE p \in ListRange(pairs)
    <3>1. pairs' = pairs /\ numPps' = numPps
      BY <1>1, <2>1 DEF HandleAddPair
    <3>2. TypeOK'
      BY <1>1, <3>1 DEF HandleAddPair, TypeOK, CoreTypeOK, Statuses, served, reads
    <3>3. ListsInv'
      BY <1>0, <1>1, <2>1, <3>1 DEF HandleAddPair, ListsInv, NoStrandedWarmup
    <3>4. PublishInv' /\ MatrixInv'
      BY <1>0, <1>1, <3>1
         DEF HandleAddPair, PublishInv, MatrixInv, ActiveIsRanked, MatrixCoversPairs, served
    <3>. QED BY <3>2, <3>3, <3>4
  <2>2. CASE p \notin ListRange(pairs)
    <3>1. /\ pairs' = Append(pairs, p)
          /\ numPps' = IF Pps[p] + 1 > numPps THEN Pps[p] + 1 ELSE numPps
      BY <1>1, <2>2 DEF HandleAddPair
    <3>2. /\ pairs' \in Seq(Pairs) /\ NoRepeats(pairs')
          /\ ListRange(pairs') = ListRange(pairs) \cup {p}
      BY <1>0, <2>2, <3>1, AppendFacts
    <3>3. /\ numPps' \in Nat /\ numPps' >= numPps /\ Pps[p] < numPps'
      BY <1>0, <3>1
    <3>4. TypeOK'
      BY <1>1, <3>2, <3>3 DEF HandleAddPair, TypeOK, CoreTypeOK, Statuses, served, reads
    <3>5. ListsInv'
      BY <1>0, <1>1, <3>2 DEF HandleAddPair, ListsInv, NoStrandedWarmup
    <3>6. PublishInv'
      BY <1>0, <1>1 DEF HandleAddPair, PublishInv, ActiveIsRanked, served
    <3>7. MatrixInv'
      <4>1. \A q \in ListRange(pairs) : Pps[q] \in Nat /\ Pps[q] < numPps
        BY <1>0 DEF MatrixInv
      <4>2. \A q \in ListRange(pairs') : Pps[q] < numPps'
        BY <1>0, <3>2, <3>3, <4>1
      <4>. QED BY <1>1, <4>2 DEF HandleAddPair, MatrixInv, MatrixCoversPairs
    <3>. QED BY <3>4, <3>5, <3>6, <3>7
  <2>. QED BY <2>1, <2>2
<1>2. ASSUME NEW p \in Removable, HandleRemovePair(p) PROVE LifecycleInv'
  <2>1. /\ pairs' \in Seq(Pairs) /\ NoRepeats(pairs')
        /\ ListRange(pairs') = ListRange(pairs) \ {p}
    BY <1>0, <1>2, WithoutFacts DEF HandleRemovePair
  <2>2. TypeOK'
    BY <1>0, <1>2, <2>1 DEF HandleRemovePair, TypeOK, CoreTypeOK, Statuses, served, reads
  <2>3. ListsInv'
    BY <1>0, <1>2, <2>1 DEF HandleRemovePair, ListsInv, NoStrandedWarmup
  <2>4. PublishInv' /\ MatrixInv'
    BY <1>0, <1>2, <2>1
       DEF HandleRemovePair, PublishInv, MatrixInv, ActiveIsRanked, MatrixCoversPairs, served
  <2>. QED BY <2>2, <2>3, <2>4
<1>3. ASSUME RankAndPublish PROVE LifecycleInv'
  <2>1. rows' = pairs /\ stage' = "promoting"
    BY <1>3 DEF RankAndPublish, MatrixInv
  <2>2. TypeOK' /\ ListsInv'
    BY <1>0, <1>3, <2>1
       DEF RankAndPublish, TypeOK, CoreTypeOK, ListsInv, NoStrandedWarmup, reads
  <2>3. PublishInv' /\ MatrixInv'
    BY <1>3, <2>1
       DEF RankAndPublish, PublishInv, MatrixInv, ActiveIsRanked, MatrixCoversPairs, ListsInv
  <2>. QED BY <2>2, <2>3
<1>4. ASSUME NEW p \in Pairs, Promote(p) PROVE LifecycleInv'
  <2>1. TypeOK'
    BY <1>4 DEF Promote, TypeOK, CoreTypeOK, Statuses, served, reads
  <2>2. ListsInv'
    BY <1>0, <1>4 DEF Promote, ListsInv, NoStrandedWarmup
  <2>3. PublishInv' /\ MatrixInv'
    BY <1>0, <1>4
       DEF Promote, PublishInv, MatrixInv, ActiveIsRanked, MatrixCoversPairs, ListsInv, served
  <2>. QED BY <2>1, <2>2, <2>3
<1>5. ASSUME EndCycle PROVE LifecycleInv'
  BY <1>5
     DEF EndCycle, TypeOK, CoreTypeOK, ListsInv, PublishInv, MatrixInv, NoStrandedWarmup,
         ActiveIsRanked, MatrixCoversPairs, served, reads
<1>6. ASSUME ExclusiveRefresh PROVE LifecycleInv'
  <2>1. index' \in [Pairs -> Nat]
    BY <1>0, <1>6, PositionsFacts DEF ExclusiveRefresh, RefreshPairIndex
  <2>. QED
    BY <1>6, <2>1
       DEF ExclusiveRefresh, RefreshPairIndex, TypeOK, CoreTypeOK, ListsInv, PublishInv,
           MatrixInv, NoStrandedWarmup, ActiveIsRanked, MatrixCoversPairs, owned, reads
<1>7. ASSUME NEW r \in Readers, GetTopK(r)
      PROVE  LifecycleInv'
  <2>1. UNCHANGED <<topo, owned, served>> /\ TypeOK'
    BY <1>7, ReaderSteps
  <2>. QED
    BY <2>1 DEF ListsInv, PublishInv, MatrixInv, NoStrandedWarmup,
                ActiveIsRanked, MatrixCoversPairs, owned, served
<1>8. ASSUME UNCHANGED vars PROVE LifecycleInv'
  BY <1>8
     DEF vars, TypeOK, CoreTypeOK, ListsInv, PublishInv, MatrixInv, NoStrandedWarmup,
         ActiveIsRanked, MatrixCoversPairs
<1>. QED BY <1>1, <1>2, <1>3, <1>4, <1>5, <1>6, <1>7, <1>8 DEF Next

(* The lists, the topology map and the published buffer agree in every     *)
(* reachable state, for any pairs, readers and initial list.               *)
THEOREM LifecycleInvariant == Spec => []LifecycleInv
BY InitLifecycle, StepLifecycle, PTL DEF Spec

(* The types of ServingRust are kept. *)
THEOREM TypeCorrect == Spec => []TypeOK
<1>1. LifecycleInv => TypeOK
  BY DEF LifecycleInv
<1>. QED BY <1>1, LifecycleInvariant, PTL

(* No warming pair is ever left without its promotion queued. *)
THEOREM WarmupNeverStranded == Spec => []NoStrandedWarmup
<1>1. LifecycleInv => NoStrandedWarmup
  BY DEF LifecycleInv, ListsInv
<1>. QED BY <1>1, LifecycleInvariant, PTL

(* The circuit breaker serves a pair only when the buffer ranks it. *)
THEOREM ActivePairsRanked == Spec => []ActiveIsRanked
<1>1. LifecycleInv => ActiveIsRanked
  BY DEF LifecycleInv, PublishInv
<1>. QED BY <1>1, LifecycleInvariant, PTL

(* Ranking never indexes the matrix out of range. *)
THEOREM RankingInRange == Spec => []MatrixCoversPairs
<1>1. LifecycleInv => MatrixCoversPairs
  BY DEF LifecycleInv, MatrixInv
<1>. QED BY <1>1, LifecycleInvariant, PTL

-----------------------------------------------------------------------------
(* Answers to unmoved pairs *)

(* At the start every unmoved pair has the position of its own.             *)
LEMMA InitUnmoved == Init => UnmovedInv
<1> SUFFICES ASSUME Init PROVE UnmovedInv
  OBVIOUS
<1> USE ServingAssumption DEF Init, CoreInit
<1>1. /\ pairs = InitialPairs /\ rows = InitialPairs /\ index = Positions(InitialPairs)
      /\ \A r \in Readers : rd[r] = Idle /\ reply[r] = Answer(NoPair, "Nothing", NoPair)
  OBVIOUS
<1>2. \A p \in Pairs : index[p] # 0 => index[p] \in DOMAIN pairs /\ pairs[index[p]] = p
  BY <1>1, PositionsFacts
<1>3. NoPair \notin Unmoved /\ Unmoved \subseteq Pairs
  BY DEF Unmoved
<1>4. UnmovedOwnRow
  BY <1>1, <1>3 DEF UnmovedOwnRow, Answer
<1>. QED BY <1>1, <1>2, <1>3, <1>4 DEF UnmovedInv, Idle

(* A step that changes only the list of pairs, and leaves the unmoved pairs *)
(* where they are, keeps the invariant.                                     *)
LEMMA KeepPositions ==
  ASSUME UnmovedInv,
         UNCHANGED <<rows, index, rd, reply>>,
         \A q \in Unmoved : \A i \in DOMAIN pairs :
           pairs[i] = q => i \in DOMAIN pairs' /\ pairs'[i] = q,
         \A k \in DOMAIN InitialPairs :
           (\A j \in 1 .. k : InitialPairs[j] \notin Removable)
             => k \in DOMAIN pairs' /\ pairs'[k] = InitialPairs[k]
  PROVE  UnmovedInv'
BY DEF UnmovedInv, UnmovedOwnRow

(* Every step keeps that position: only a removal before a pair moves it.   *)
LEMMA StepUnmoved == LifecycleInv /\ UnmovedInv /\ [Next]_vars => UnmovedInv'
<1> SUFFICES ASSUME LifecycleInv, UnmovedInv, [Next]_vars PROVE UnmovedInv'
  OBVIOUS
<1>0. /\ pairs \in Seq(Pairs) /\ NoRepeats(pairs) /\ Unmoved \subseteq Pairs
      /\ InitialPairs \in Seq(Pairs)
      /\ DOMAIN pairs = 1 .. Len(pairs) /\ Len(pairs) \in Nat
  BY ServingAssumption DEF LifecycleInv, TypeOK, CoreTypeOK, ListsInv, Unmoved
<1>1. ASSUME NEW p \in Pairs, HandleAddPair(p) PROVE UnmovedInv'
  <2>1. \A i \in DOMAIN pairs : i \in DOMAIN pairs' /\ pairs'[i] = pairs[i]
    <3>1. CASE p \in ListRange(pairs)
      BY <1>1, <3>1 DEF HandleAddPair
    <3>2. CASE p \notin ListRange(pairs)
      <4>1. pairs' = Append(pairs, p)
        BY <1>1, <3>2 DEF HandleAddPair
      <4>. QED BY <1>0, <4>1
    <3>. QED BY <3>1, <3>2
  <2>2. UNCHANGED <<rows, index, rd, reply>>
    BY <1>1 DEF HandleAddPair, served, reads
  <2>3. \A k \in DOMAIN InitialPairs :
          (\A j \in 1 .. k : InitialPairs[j] \notin Removable)
            => k \in DOMAIN pairs /\ pairs[k] = InitialPairs[k]
    BY DEF UnmovedInv
  <2>. QED BY <2>1, <2>2, <2>3, KeepPositions
<1>2. ASSUME NEW p \in Removable, HandleRemovePair(p) PROVE UnmovedInv'
  <2>1. pairs' = Without(pairs, p) /\ UNCHANGED <<rows, index, rd, reply>>
    BY <1>2 DEF HandleRemovePair, served, reads
  <2>2. ASSUME NEW k \in DOMAIN InitialPairs,
               \A j \in 1 .. k : InitialPairs[j] \notin Removable
        PROVE  /\ k \in DOMAIN pairs /\ pairs[k] = InitialPairs[k]
               /\ k \in DOMAIN pairs' /\ pairs'[k] = InitialPairs[k]
    <3>1. \A j \in 1 .. k : /\ j \in DOMAIN InitialPairs
                            /\ \A l \in 1 .. j : InitialPairs[l] \notin Removable
      BY <1>0, <2>2
    <3>2. \A j \in 1 .. k : j \in DOMAIN pairs /\ pairs[j] = InitialPairs[j]
      BY <3>1 DEF UnmovedInv
    <3>3. \A j \in 1 .. k : pairs[j] # p
      BY <2>2, <3>2
    <3>4. k \in 1 .. k
      BY <1>0
    <3>. QED BY <1>0, <2>1, <3>2, <3>3, <3>4, WithoutKeepsPrefix
  <2>3. ASSUME NEW q \in Unmoved, NEW i \in DOMAIN pairs, pairs[i] = q
        PROVE  i \in DOMAIN pairs' /\ pairs'[i] = q
    <3>1. PICK k \in DOMAIN InitialPairs :
            InitialPairs[k] = q /\ \A j \in 1 .. k : InitialPairs[j] \notin Removable
      BY DEF Unmoved
    <3>2. i = k
      BY <2>2, <2>3, <3>1, <1>0 DEF NoRepeats
    <3>. QED BY <2>2, <3>1, <3>2
  <2>. QED BY <2>1, <2>2, <2>3, KeepPositions
<1>3. ASSUME RankAndPublish PROVE UnmovedInv'
  <2>1. rows' = pairs /\ UNCHANGED <<pairs, index, rd, reply>>
    BY <1>3 DEF RankAndPublish, LifecycleInv, MatrixInv, reads
  <2>2. ASSUME NEW r \in Readers, rd[r].pair \in Unmoved
        PROVE  /\ rd[r].at # "idle" => rd[r].pair \in ListRange(pairs)
               /\ rd[r].at = "load"
                    => rd[r].row \in DOMAIN pairs /\ pairs[rd[r].row] = rd[r].pair
    BY <2>2 DEF UnmovedInv, ListRange
  <2>. QED BY <2>1, <2>2 DEF UnmovedInv, UnmovedOwnRow
<1>4. ASSUME NEW p \in Pairs, Promote(p) PROVE UnmovedInv'
  BY <1>4 DEF Promote, UnmovedInv, UnmovedOwnRow, served, reads
<1>5. ASSUME EndCycle PROVE UnmovedInv'
  BY <1>5 DEF EndCycle, UnmovedInv, UnmovedOwnRow, served, reads
<1>6. ASSUME ExclusiveRefresh PROVE UnmovedInv'
  <2>1. index' = Positions(pairs) /\ UNCHANGED <<pairs, rows, rd, reply>>
    BY <1>6 DEF ExclusiveRefresh, RefreshPairIndex, owned, reads
  <2>2. \A q \in Unmoved : index'[q] # 0 => index'[q] \in DOMAIN pairs /\ pairs[index'[q]] = q
    BY <1>0, <2>1, PositionsFacts
  <2>. QED BY <2>1, <2>2 DEF UnmovedInv, UnmovedOwnRow
<1>7. ASSUME NEW r \in Readers, NEW p \in Pairs, CheckStatus(r, p) PROVE UnmovedInv'
  <2>1. UNCHANGED <<pairs, rows, index>>
    BY <1>7 DEF CheckStatus, owned, served
  <2>2. rd \in [Readers -> [at : {"idle", "lookup", "load"}, pair : Pairs \cup {NoPair}, row : Nat]]
        /\ DOMAIN reply = Readers
    BY DEF LifecycleInv, TypeOK, CoreTypeOK
  <2>3. CASE UNCHANGED rd /\ \E code \in {"NotFound", "Unavailable"} :
               reply' = [reply EXCEPT ![r] = Answer(p, code, NoPair)]
    BY <2>1, <2>2, <2>3 DEF UnmovedInv, UnmovedOwnRow, Answer
  <2>4. CASE /\ topo[p] = "Active" /\ UNCHANGED reply
             /\ rd' = [rd EXCEPT ![r] = [at |-> "lookup", pair |-> p, row |-> 0]]
    <3>1. p \in ListRange(rows)
      BY <2>4 DEF LifecycleInv, PublishInv, ActiveIsRanked
    <3>. QED BY <2>1, <2>2, <2>4, <3>1 DEF UnmovedInv, UnmovedOwnRow
  <2>. QED BY <1>7, <2>3, <2>4 DEF CheckStatus
<1>8. ASSUME NEW r \in Readers, LookUp(r, "Internal") PROVE UnmovedInv'
  <2>1. UNCHANGED <<pairs, rows, index>> /\ rd[r].at = "lookup"
    BY <1>8 DEF LookUp, owned, served
  <2>2. rd \in [Readers -> [at : {"idle", "lookup", "load"}, pair : Pairs \cup {NoPair}, row : Nat]]
        /\ DOMAIN reply = Readers
    BY DEF LifecycleInv, TypeOK, CoreTypeOK
  <2>3. CASE /\ reply' = [reply EXCEPT ![r] = Answer(rd[r].pair, "Internal", NoPair)]
             /\ rd' = [rd EXCEPT ![r] = Idle]
    BY <1>0, <2>1, <2>2, <2>3, ServingAssumption DEF UnmovedInv, UnmovedOwnRow, Answer, Idle
  <2>4. CASE /\ index[rd[r].pair] # 0 /\ UNCHANGED reply
             /\ rd' = [rd EXCEPT ![r].at = "load", ![r].row = index[rd[r].pair]]
    <3>1. rd'[r] = [at |-> "load", pair |-> rd[r].pair, row |-> index[rd[r].pair]]
      BY <2>2, <2>4
    <3>2. \A q \in Readers : q # r => rd'[q] = rd[q]
      BY <2>2, <2>4
    <3>3. ASSUME rd[r].pair \in Unmoved
          PROVE  /\ rd[r].pair \in ListRange(rows)
                 /\ index[rd[r].pair] \in DOMAIN rows
                 /\ rows[index[rd[r].pair]] = rd[r].pair
      <4>1. /\ rd[r].pair \in ListRange(rows)
            /\ index[rd[r].pair] \in DOMAIN pairs
            /\ pairs[index[rd[r].pair]] = rd[r].pair
        BY <2>1, <2>4, <3>3 DEF UnmovedInv
      <4>2. PICK i \in DOMAIN rows : rows[i] = rd[r].pair
        BY <4>1 DEF ListRange
      <4>3. i \in DOMAIN pairs /\ pairs[i] = rd[r].pair
        BY <3>3, <4>2 DEF UnmovedInv
      <4>4. i = index[rd[r].pair]
        BY <1>0, <4>1, <4>3 DEF NoRepeats
      <4>. QED BY <4>1, <4>2, <4>4
    <3>4. UNCHANGED <<pairs, rows, index, reply>>
      BY <2>1, <2>4
    <3>5. ASSUME NEW q \in Readers, rd'[q].pair \in Unmoved
          PROVE  /\ rd'[q].at # "idle" => rd'[q].pair \in ListRange(rows)
                 /\ rd'[q].at = "load"
                      => rd'[q].row \in DOMAIN rows /\ rows[rd'[q].row] = rd'[q].pair
      <4>1. CASE q = r
        BY <3>1, <3>3, <3>5, <4>1
      <4>2. CASE q # r
        BY <3>2, <3>5, <4>2 DEF UnmovedInv
      <4>. QED BY <4>1, <4>2
    <3>6. UnmovedOwnRow'
      BY <3>4 DEF UnmovedInv, UnmovedOwnRow
    <3>. QED BY <3>4, <3>5, <3>6 DEF UnmovedInv, ListRange
  <2>. QED BY <1>8, <2>3, <2>4 DEF LookUp
<1>9. ASSUME NEW r \in Readers, LoadRow(r) PROVE UnmovedInv'
  <2>1. UNCHANGED <<pairs, rows, index>> /\ rd[r].at = "load"
    BY <1>9 DEF LoadRow, owned, served
  <2>2. /\ rd' = [rd EXCEPT ![r] = Idle]
        /\ reply' = [reply EXCEPT ![r] =
                       IF rd[r].row <= Len(rows)
                       THEN Answer(rd[r].pair, "OK", rows[rd[r].row])
                       ELSE Answer(rd[r].pair, "OutOfRange", NoPair)]
    BY <1>9 DEF LoadRow
  <2>3. DOMAIN rd = Readers /\ DOMAIN reply = Readers /\ rows \in Seq(Pairs)
    BY DEF LifecycleInv, TypeOK, CoreTypeOK
  <2>4. rd[r].pair \in Unmoved => reply'[r] = Answer(rd[r].pair, "OK", rd[r].pair)
    BY <2>1, <2>2, <2>3 DEF UnmovedInv
  <2>5. \A q \in Readers : rd'[q] = IF q = r THEN Idle ELSE rd[q]
    BY <2>2, <2>3
  <2>6. reply'[r].pair = rd[r].pair
    BY <2>2, <2>3 DEF Answer
  <2>7. \A q \in Readers : q # r => reply'[q] = reply[q]
    BY <2>2, <2>3
  <2>8. UnmovedOwnRow'
    BY <2>4, <2>6, <2>7 DEF UnmovedInv, UnmovedOwnRow, Answer
  <2>. QED BY <2>1, <2>5, <2>8 DEF UnmovedInv, Idle
<1>10. ASSUME UNCHANGED vars PROVE UnmovedInv'
  BY <1>10 DEF vars, UnmovedInv, UnmovedOwnRow
<1>. QED BY <1>1, <1>2, <1>3, <1>4, <1>5, <1>6, <1>7, <1>8, <1>9, <1>10 DEF Next, GetTopK

(* Pairs that no removal can shift always get their own rows, however the  *)
(* reads interleave with cycles, additions and index refreshes.            *)
THEOREM UnmovedAnswers == Spec => []UnmovedOwnRow
<1>1. UnmovedInv => UnmovedOwnRow
  BY DEF UnmovedInv
<1>. QED BY <1>1, InitUnmoved, StepUnmoved, LifecycleInvariant, PTL DEF Spec

-----------------------------------------------------------------------------
(* Refinement of the README's lifecycle *)

(* The engine starts as the lifecycle does.                                 *)
LEMMA RefineInit == Init => Lifecycle!Init
BY ServingAssumption DEF Init, CoreInit, Lifecycle!Init, ListRange

(* Every step is a step of the lifecycle, or changes nothing it shows.      *)
LEMMA RefineStep == LifecycleInv /\ [Next]_vars => [Lifecycle!Next]_(Lifecycle!vars)
<1> SUFFICES ASSUME LifecycleInv, [Next]_vars PROVE [Lifecycle!Next]_(Lifecycle!vars)
  OBVIOUS
<1> USE ServingAssumption DEF Lifecycle!Next, Lifecycle!vars
<1>1. ASSUME NEW p \in Pairs, HandleAddPair(p) PROVE Lifecycle!Announce(p)
  BY <1>1 DEF HandleAddPair, Lifecycle!Announce, served
<1>2. ASSUME NEW p \in Removable, HandleRemovePair(p) PROVE Lifecycle!Withdraw(p)
  BY <1>2 DEF HandleRemovePair, Lifecycle!Withdraw, served
<1>3. ASSUME RankAndPublish PROVE Lifecycle!Snapshot
  <2>1. rows' = pairs /\ topo' = topo
    BY <1>3 DEF RankAndPublish, LifecycleInv, MatrixInv
  <2>2. ListRange(pairs) = Lifecycle!Tracked
    BY DEF LifecycleInv, TypeOK, CoreTypeOK, ListsInv, ListRange, Lifecycle!Tracked
  <2>. QED BY <2>1, <2>2 DEF Lifecycle!Snapshot
<1>4. ASSUME NEW p \in Pairs, Promote(p)
      PROVE  Lifecycle!Serve(p) \/ UNCHANGED <<topo, ListRange(rows)>>
  <2>1. p \in ListRange(rows) /\ topo[p] \in {"WarmingUp", "Active"}
    BY <1>4 DEF Promote, LifecycleInv, ListsInv, PublishInv
  <2>2. topo' = [topo EXCEPT ![p] = "Active"] /\ rows' = rows
    BY <1>4 DEF Promote, served
  <2>3. topo \in [Pairs -> Statuses]
    BY DEF LifecycleInv, TypeOK, CoreTypeOK
  <2>. QED BY <2>1, <2>2, <2>3 DEF Lifecycle!Serve
<1>5. ASSUME EndCycle \/ ExclusiveRefresh PROVE UNCHANGED <<topo, rows>>
  BY <1>5 DEF EndCycle, ExclusiveRefresh, RefreshPairIndex, served
<1>6. ASSUME NEW r \in Readers, GetTopK(r)
      PROVE  UNCHANGED <<topo, rows>>
  BY <1>6, ReaderSteps DEF served
<1>7. ASSUME UNCHANGED vars PROVE UNCHANGED <<topo, rows>>
  BY <1>7 DEF vars
<1>. QED BY <1>1, <1>2, <1>3, <1>4, <1>5, <1>6, <1>7 DEF Next

(* rust-impl implements the pair lifecycle of README.md section 7. *)
THEOREM ImplementsLifecycle == Spec => LifecycleImplemented
BY RefineInit, RefineStep, LifecycleInvariant, PTL DEF Spec, LifecycleImplemented, Lifecycle!Spec
-----------------------------------------------------------------------------
(* The service: pairs, orders and calls together *)

(* Every step of the service is a step of its serving side, or leaves it    *)
(* alone.                                                                   *)
LEMMA ServingStep == [ServiceNext]_serviceVars => [Next]_vars
<1> SUFFICES ASSUME [ServiceNext]_serviceVars PROVE [Next]_vars
  OBVIOUS
<1> USE ServiceAssumption, ServingAssumption
<1>1. CASE \E o \in Orders : DropOrder(o) \/ \E e \in Events : ConsumeOrder(o, e)
  BY <1>1 DEF DropOrder, ConsumeOrder
<1>2. CASE \E p \in Announced : AddPair(p)
  BY <1>2 DEF AddPair, Next
<1>3. CASE \E p \in Removable : RemovePair(p)
  BY <1>3 DEF RemovePair, Next
<1>4. CASE \E diff \in Diffs : RunCycle(diff)
  BY <1>4 DEF RunCycle, Next
<1>5. CASE (\E p \in Pairs : PromoteOne(p)) \/ FinishCycle \/ RefreshIndex
  BY <1>5 DEF PromoteOne, FinishCycle, RefreshIndex, PairsOnly, Next
<1>6. CASE Clock
  BY <1>6 DEF Clock
<1>7. CASE \E r \in Readers : Advance(r) \/ ReturnLists(r)
  BY <1>7 DEF Advance, PairsOnly, ReturnLists, Next, GetTopK
<1>8. CASE UNCHANGED serviceVars
  BY <1>8 DEF serviceVars
<1>. QED BY <1>1, <1>2, <1>3, <1>4, <1>5, <1>6, <1>7, <1>8 DEF ServiceNext

(* The service serves pairs as ServingRust says, which is how it is built:  *)
(* what is proved above holds of it.                                        *)
LEMMA ServiceServes == ServiceSpec => Spec
<1>1. ServiceInit => Init
  BY DEF ServiceInit
<1>. QED BY <1>1, ServingStep, PTL DEF ServiceSpec, Spec

(* An announcement adds the pair to those of the owner's list, and a        *)
(* withdrawal takes it out.                                                 *)
LEMMA PairsAdded ==
  ASSUME LifecycleInv, NEW p \in Pairs, HandleAddPair(p)
  PROVE  ListRange(pairs)' = ListRange(pairs) \cup {p}
<1>1. pairs \in Seq(Pairs) /\ NoRepeats(pairs)
  BY DEF LifecycleInv, TypeOK, CoreTypeOK, ListsInv
<1>2. CASE p \in ListRange(pairs)
  BY <1>2 DEF HandleAddPair
<1>3. CASE p \notin ListRange(pairs)
  <2>1. pairs' = Append(pairs, p)
    BY <1>3 DEF HandleAddPair
  <2>2. ListRange(Append(pairs, p)) = ListRange(pairs) \cup {p}
    BY <1>1, <1>3, AppendFacts
  <2>. QED BY <2>1, <2>2
<1>. QED BY <1>2, <1>3

LEMMA PairsRemoved ==
  ASSUME LifecycleInv, NEW p \in Pairs, HandleRemovePair(p)
  PROVE  ListRange(pairs)' = ListRange(pairs) \ {p}
<1>1. pairs \in Seq(Pairs) /\ NoRepeats(pairs)
  BY DEF LifecycleInv, TypeOK, CoreTypeOK, ListsInv
<1>2. pairs' = Without(pairs, p)
  BY DEF HandleRemovePair
<1>3. ListRange(Without(pairs, p)) = ListRange(pairs) \ {p}
  BY <1>1, WithoutFacts
<1>. QED BY <1>2, <1>3

(* Wherever the serving side can take an announcement or a withdrawal, what *)
(* MatrixStore says of the pairs is what it does to them: requiring both     *)
(* blocks neither handler.                                                  *)
LEMMA HandlersAgree ==
  ASSUME LifecycleInv, NEW p \in Pairs
  PROVE  /\ HandleAddPair(p) => ListRange(pairs)' = ListRange(pairs) \cup {p}
         /\ HandleRemovePair(p) => ListRange(pairs)' = ListRange(pairs) \ {p}
BY PairsAdded, PairsRemoved

-----------------------------------------------------------------------------
(* One matrix and one buffer *)

LEMMA InitBuffer == ServiceInit => SameBuffer
<1> SUFFICES ASSUME ServiceInit PROVE SameBuffer
  OBVIOUS
<1>1. /\ DOMAIN matrix = 0 .. NumPPS - 1
      /\ DOMAIN shown = ListRange(pairs)
  BY DEF ServiceInit, Store!Init, Store!BaseRows
<1>2. numPps = NumPPS /\ pairs = InitialPairs /\ rows = InitialPairs
  BY DEF ServiceInit, Init, CoreInit
<1>. QED BY <1>1, <1>2 DEF SameBuffer

LEMMA StepBuffer == LifecycleInv /\ SameBuffer /\ [ServiceNext]_serviceVars => SameBuffer'
<1> SUFFICES ASSUME LifecycleInv, SameBuffer, [ServiceNext]_serviceVars PROVE SameBuffer'
  OBVIOUS
<1> USE ServiceAssumption, ServingAssumption DEF SameBuffer
<1>0. numPps \in Nat
  BY DEF LifecycleInv, TypeOK, CoreTypeOK
<1>1. ASSUME NEW o \in Orders, DropOrder(o) \/ \E e \in Events : ConsumeOrder(o, e)
      PROVE  SameBuffer'
  <2>1. UNCHANGED <<numPps, rows, shown>> /\ DOMAIN matrix' = DOMAIN matrix
    BY <1>1 DEF DropOrder, ConsumeOrder, vars, Store!EvictOrder, Store!Deactivate,
                Store!IngestOrder, Store!EvictSlots, Store!WriteBase
  <2>. QED BY <2>1
<1>2. ASSUME NEW p \in Announced, AddPair(p) PROVE SameBuffer'
  <2>1. /\ DOMAIN matrix' = DOMAIN matrix \cup 0 .. p.pps
        /\ UNCHANGED <<rows, shown>>
    BY <1>2 DEF AddPair, HandleAddPair, Store!HandleAddPair, served
  <2>2. p \in Pairs /\ p.pps \in Nat /\ Pps[p] = p.pps
    OBVIOUS
  <2>3. CASE p \in ListRange(pairs)
    <3>1. p.pps < numPps /\ numPps' = numPps
      BY <1>2, <2>2, <2>3 DEF AddPair, HandleAddPair, LifecycleInv, MatrixInv
    <3>. QED BY <1>0, <2>1, <2>2, <3>1
  <2>4. CASE p \notin ListRange(pairs)
    <3>1. numPps' = IF p.pps + 1 > numPps THEN p.pps + 1 ELSE numPps
      BY <1>2, <2>2, <2>4 DEF AddPair, HandleAddPair
    <3>. QED BY <1>0, <2>1, <2>2, <3>1
  <2>. QED BY <2>3, <2>4
<1>3. ASSUME NEW p \in Removable, RemovePair(p) PROVE SameBuffer'
  BY <1>3 DEF RemovePair, HandleRemovePair, Store!HandleRemovePair, served
<1>4. ASSUME NEW diff \in Diffs, RunCycle(diff) PROVE SameBuffer'
  <2>1. rows' = pairs /\ UNCHANGED numPps
    BY <1>4 DEF RunCycle, RankAndPublish, LifecycleInv, MatrixInv
  <2>2. DOMAIN shown' = ListRange(pairs) /\ DOMAIN matrix' = DOMAIN matrix
    BY <1>4 DEF RunCycle, Store!RunCycleWithDict, Store!RankPairs, Store!MoveAll, Store!EvictSlots
  <2>. QED BY <2>1, <2>2
<1>5. CASE (\E p \in Pairs : PromoteOne(p)) \/ FinishCycle \/ RefreshIndex
  BY <1>5 DEF PromoteOne, FinishCycle, RefreshIndex, PairsOnly, Promote, EndCycle, ExclusiveRefresh,
              RefreshPairIndex, owned, served, storeVars
<1>6. CASE Clock
  BY <1>6 DEF Clock, vars, Store!Tick
<1>7. CASE \E r \in Readers : Advance(r) \/ ReturnLists(r)
  BY <1>7 DEF Advance, PairsOnly, ReturnLists, CheckStatus, LookUp, LoadRow, owned, served, storeVars
<1>8. CASE UNCHANGED serviceVars
  BY <1>8 DEF serviceVars, vars, storeVars
<1>. QED BY <1>1, <1>2, <1>3, <1>4, <1>5, <1>6, <1>7, <1>8 DEF ServiceNext

(* The rows handle_add_pair counts are the rows the matrix has, and every   *)
(* published row has its lists.                                             *)
THEOREM BuffersCoincide == ServiceSpec => []SameBuffer
BY InitBuffer, StepBuffer, ServiceServes, LifecycleInvariant, PTL DEF ServiceSpec

-----------------------------------------------------------------------------
(* What the published lists still say of the orders *)

(* The lists show none of the orders that are gone, and exactly the settled *)
(* ones under the BinTags they are still listed under.                      *)
HistoryInv ==
  /\ DOMAIN answer = Readers
  /\ gone \subseteq Orders
  /\ settled \subseteq Orders
  /\ \A pr \in DOMAIN shown : \A o \in gone : shown[pr][o] = Store!NoScore
  /\ \A pr \in DOMAIN shown : \A o \in settled :
       shown[pr][o] # Store!NoScore <=> indexes.byTag[pr.tag][o] > 0

LEMMA InitHistory == ServiceInit => HistoryInv
BY DEF ServiceInit, Store!Init, HistoryInv

(* An order taken out of the lists moves no other order.                    *)
LEMMA OthersKept ==
  ASSUME NEW o \in Orders, NEW q \in Orders \ {o}, NEW b \in Tags, NEW e
  PROVE  /\ Store!Remove(indexes, {o}).byTag[b][q] = indexes.byTag[b][q]
         /\ Store!List(Store!Remove(indexes, {o}), o, e).byTag[b][q] = indexes.byTag[b][q]
<1>1. Store!Remove(indexes, {o}) = RetainOthers(indexes, {o})
  BY DEF Store!Remove, Store!RetainOthers, RetainOthers, Store!NoListing, NoListing
<1>2. RetainOthers(indexes, {o}).byTag[b][q] = indexes.byTag[b][q]
  BY DEF RetainOthers
<1>3. \A ix : DOMAIN ix.byTag[b] = Orders => Store!List(ix, o, e).byTag[b][q] = ix.byTag[b][q]
  BY DEF Store!List
<1>4. DOMAIN RetainOthers(indexes, {o}).byTag[b] = Orders
  BY DEF RetainOthers
<1>. QED BY <1>1, <1>2, <1>3, <1>4

LEMMA StepHistory ==
  LifecycleInv /\ SameBuffer /\ HistoryInv /\ [ServiceNext]_serviceVars => HistoryInv'
<1> SUFFICES ASSUME LifecycleInv, SameBuffer, HistoryInv, [ServiceNext]_serviceVars
             PROVE  HistoryInv'
  OBVIOUS
<1> USE ServiceAssumption, ServingAssumption
<1>0. \A pr \in DOMAIN shown : pr.tag \in Tags
  <2>1. rows \in Seq(Pairs)
    BY DEF LifecycleInv, TypeOK
  <2>2. ListRange(rows) \subseteq Pairs
    BY <2>1 DEF ListRange
  <2>. QED BY <2>2 DEF SameBuffer
<1>a. /\ DOMAIN answer = Readers /\ gone \subseteq Orders /\ settled \subseteq Orders
      /\ \A pr \in DOMAIN shown : \A q \in gone : shown[pr][q] = Store!NoScore
      /\ \A pr \in DOMAIN shown : \A q \in settled :
           shown[pr][q] # Store!NoScore <=> indexes.byTag[pr.tag][q] > 0
  BY DEF HistoryInv
<1>b. ASSUME shown' = shown, DOMAIN answer' = Readers, gone' \subseteq gone, settled' \subseteq settled,
             \A b \in Tags : \A q \in settled' : indexes'.byTag[b][q] = indexes.byTag[b][q]
      PROVE  HistoryInv'
  <2>1. ASSUME NEW pr \in DOMAIN shown, NEW q \in settled'
        PROVE  shown'[pr][q] # Store!NoScore <=> indexes'.byTag[pr.tag][q] > 0
    <3>1. indexes'.byTag[pr.tag][q] = indexes.byTag[pr.tag][q]
      BY <1>0, <1>b
    <3>. QED BY <1>a, <1>b, <3>1
  <2>2. \A pr \in DOMAIN shown : \A q \in gone' : shown'[pr][q] = Store!NoScore
    BY <1>a, <1>b
  <2>. QED BY <1>a, <1>b, <2>1, <2>2 DEF HistoryInv
<1>1. ASSUME NEW o \in Orders, NEW e \in Events, ConsumeOrder(o, e) PROVE HistoryInv'
  <2>1. /\ UNCHANGED <<answer, shown>>
        /\ gone' = gone \ {o} /\ settled' = settled \ {o}
    BY <1>1 DEF ConsumeOrder, Store!IngestOrder
  <2>2. indexes' = Store!List(Store!Remove(indexes, {o}), o, e)
    BY <1>1 DEF ConsumeOrder, Store!IngestOrder
  <2>3. ASSUME NEW b \in Tags, NEW q \in settled'
        PROVE  indexes'.byTag[b][q] = indexes.byTag[b][q]
    <3>1. q \in Orders \ {o}
      BY <1>a, <2>1
    <3>2. Store!List(Store!Remove(indexes, {o}), o, e).byTag[b][q] = indexes.byTag[b][q]
      BY <3>1, OthersKept
    <3>. QED BY <2>2, <3>2
  <2>. QED BY <1>a, <1>b, <2>1, <2>3
<1>2. ASSUME NEW o \in Orders, DropOrder(o) PROVE HistoryInv'
  <2>1. /\ UNCHANGED <<answer, gone, shown>>
        /\ settled' = settled \ {o}
    BY <1>2 DEF DropOrder, Store!EvictOrder, Store!Deactivate
  <2>2. indexes' = indexes \/ indexes' = Store!Remove(indexes, {o})
    BY <1>2 DEF DropOrder, Store!EvictOrder, Store!Deactivate
  <2>3. ASSUME NEW b \in Tags, NEW q \in settled'
        PROVE  indexes'.byTag[b][q] = indexes.byTag[b][q]
    <3>1. q \in Orders \ {o}
      BY <1>a, <2>1
    <3>2. Store!Remove(indexes, {o}).byTag[b][q] = indexes.byTag[b][q]
      BY <3>1, OthersKept
    <3>. QED BY <2>2, <3>2
  <2>. QED BY <1>a, <1>b, <2>1, <2>3
<1>3. ASSUME NEW diff \in Diffs, RunCycle(diff) PROVE HistoryInv'
  <2> DEFINE kept == Store!Remove(indexes, Store!Expired)
  <2>1. /\ indexes' = kept /\ UNCHANGED answer
        /\ shown' = Store!RankPairs(active', kept, matrix')
        /\ gone' = {o \in Orders : ~active'[o]}
        /\ settled' = {o \in Orders : active'[o]}
    BY <1>3 DEF RunCycle, Store!RunCycleWithDict
  <2> HIDE DEF kept
  <2>2. ASSUME NEW pr \in DOMAIN shown', NEW o \in Orders
        PROVE  shown'[pr][o] =
                 IF active'[o] /\ kept.byTag[pr.tag][o] > 0
                 THEN Store!Score(matrix'[pr.pps][o]) ELSE Store!NoScore
    BY <2>1, <2>2 DEF Store!RankPairs, Store!Eligible, Store!RowOf
  <2>3. \A s : Store!Score(s) # Store!NoScore
    <3>1. \A s : Store!Score(s).state = "ranked"
      BY DEF Store!Score
    <3>2. Store!NoScore.state = "unranked"
      BY DEF Store!NoScore
    <3>. QED BY <3>1, <3>2
  <2>. QED BY <1>a, <2>1, <2>2, <2>3 DEF HistoryInv
<1>4. ASSUME UNCHANGED <<indexes, shown, gone, settled>>, DOMAIN answer' = Readers
      PROVE  HistoryInv'
  BY <1>4 DEF HistoryInv
<1>5. CASE \E p \in Announced : AddPair(p)
  BY <1>4, <1>5, <1>a DEF AddPair, Store!HandleAddPair, sinceCycle
<1>6. CASE \E p \in Removable : RemovePair(p)
  BY <1>4, <1>6, <1>a DEF RemovePair, Store!HandleRemovePair, sinceCycle
<1>7. CASE (\E p \in Pairs : PromoteOne(p)) \/ FinishCycle \/ RefreshIndex
  BY <1>4, <1>7, <1>a DEF PromoteOne, FinishCycle, RefreshIndex, PairsOnly, storeVars, sinceCycle
<1>8. CASE Clock
  BY <1>4, <1>8, <1>a DEF Clock, Store!Tick, sinceCycle
<1>9. CASE \E r \in Readers : Advance(r) \/ ReturnLists(r)
  BY <1>4, <1>9, <1>a DEF Advance, PairsOnly, ReturnLists, storeVars, sinceCycle
<1>10. CASE UNCHANGED serviceVars
  BY <1>4, <1>10, <1>a DEF serviceVars, storeVars, sinceCycle
<1>. QED BY <1>1, <1>2, <1>3, <1>5, <1>6, <1>7, <1>8, <1>9, <1>10 DEF ServiceNext

(* A call that returns lists returns those of the row it looked up, in the  *)
(* buffer of the moment.                                                    *)
LEMMA ReturnedLists ==
  ASSUME LifecycleInv, SameBuffer, HistoryInv, [ServiceNext]_serviceVars,
         NEW r \in Readers, Returned(r)
  PROVE  /\ reply'[r].row \in DOMAIN shown
         /\ answer'[r] = shown[reply'[r].row]
         /\ UNCHANGED <<indexes, shown>>
<1>0. rd[r].at = "load" /\ rd'[r].at = "idle" /\ reply'[r].code = "OK"
  BY DEF Returned
<1>a. /\ rd \in [Readers -> [at : {"idle", "lookup", "load"}, pair : Pairs \cup {NoPair}, row : Nat]]
      /\ DOMAIN reply = Readers /\ rows \in Seq(Pairs)
      /\ rd[r].row # 0
  <2>1. CoreTypeOK /\ DOMAIN reply = Readers /\ rows \in Seq(Pairs)
    BY DEF LifecycleInv, TypeOK
  <2>. QED BY <1>0, <2>1 DEF CoreTypeOK
<1>1. ASSUME NEW q \in Readers, ReturnLists(q) PROVE q = r
  BY <1>0, <1>1, <1>a DEF ReturnLists, LoadRow
<1>2. ASSUME NEW q \in Readers, Advance(q) PROVE FALSE
  <2>1. CASE \E p \in Asked : CheckStatus(q, p)
    BY <1>0, <1>a, <2>1 DEF CheckStatus
  <2>2. CASE LookUp(q, "Internal")
    BY <1>0, <1>a, <2>2 DEF LookUp
  <2>. QED BY <1>2, <2>1, <2>2 DEF Advance, PairsOnly
<1>3. CASE ReturnLists(r)
  <2>1. /\ reply'[r] = IF rd[r].row <= Len(rows)
                       THEN Answer(rd[r].pair, "OK", rows[rd[r].row])
                       ELSE Answer(rd[r].pair, "OutOfRange", NoPair)
        /\ answer' = [answer EXCEPT ![r] =
                        IF reply'[r].code = "OK" THEN shown[reply'[r].row] ELSE NoLists]
        /\ UNCHANGED <<indexes, shown>>
    BY <1>3, <1>a DEF ReturnLists, LoadRow, storeVars
  <2>2. rd[r].row \in DOMAIN rows /\ reply'[r].row = rows[rd[r].row]
    BY <1>0, <1>a, <2>1 DEF Answer
  <2>3. answer'[r] = shown[reply'[r].row]
    BY <1>0, <2>1 DEF HistoryInv
  <2>. QED BY <2>1, <2>2, <2>3 DEF SameBuffer, ListRange
<1>4. CASE UNCHANGED rd
  BY <1>0, <1>4
<1>5. CASE \E o \in Orders : DropOrder(o) \/ \E e \in Events : ConsumeOrder(o, e)
  BY <1>4, <1>5 DEF DropOrder, ConsumeOrder, vars
<1>6. CASE \E p \in Announced : AddPair(p)
  BY <1>4, <1>6 DEF AddPair, HandleAddPair, reads
<1>7. CASE \E p \in Removable : RemovePair(p)
  BY <1>4, <1>7 DEF RemovePair, HandleRemovePair, reads
<1>8. CASE \E diff \in Diffs : RunCycle(diff)
  BY <1>4, <1>8 DEF RunCycle, RankAndPublish, reads
<1>9. CASE (\E p \in Pairs : PromoteOne(p)) \/ FinishCycle \/ RefreshIndex
  BY <1>4, <1>9 DEF PromoteOne, FinishCycle, RefreshIndex, PairsOnly, Promote, EndCycle,
                    ExclusiveRefresh, RefreshPairIndex, reads
<1>10. CASE Clock
  BY <1>4, <1>10 DEF Clock, vars
<1>11. CASE UNCHANGED serviceVars
  BY <1>4, <1>11 DEF serviceVars, vars
<1>. QED BY <1>1, <1>2, <1>3, <1>5, <1>6, <1>7, <1>8, <1>9, <1>10, <1>11 DEF ServiceNext

(* The history is kept with every step of the service.                      *)
LEMMA HistoryInvariant == ServiceSpec => [](LifecycleInv /\ SameBuffer /\ HistoryInv)
BY InitHistory, StepHistory, BuffersCoincide, ServiceServes, LifecycleInvariant, PTL
   DEF ServiceSpec

(* No call returns an order that was not live in the last cycle and was not *)
(* ingested again: neither a stale index nor a row of another pair can      *)
(* bring it back.                                                           *)
THEOREM GoneOrdersNotReturned == ServiceSpec => GoneNotReturned
<1>1. LifecycleInv /\ SameBuffer /\ HistoryInv /\ [ServiceNext]_serviceVars
        => [\A r \in Readers : Returned(r) => \A o \in gone : answer'[r][o] = Store!NoScore]_serviceVars
  BY ReturnedLists DEF HistoryInv
<1>. QED BY <1>1, HistoryInvariant, PTL DEF ServiceSpec, GoneNotReturned

(* For a pair no removal can shift, a call returns an order the last cycle  *)
(* saw exactly when it is listed under the BinTag of that pair, whatever    *)
(* the owner did between the three loads of the call.                       *)
THEOREM SettledOrdersReturned == ServiceSpec => SettledReturned
<1> DEFINE AsListed(r) ==
      Returned(r) /\ reply'[r].pair \in Unmoved =>
        \A o \in settled :
          answer'[r][o] # Store!NoScore <=> indexes.byTag[reply'[r].pair.tag][o] > 0
<1>1. LifecycleInv /\ SameBuffer /\ HistoryInv /\ UnmovedOwnRow' /\ [ServiceNext]_serviceVars
        => [\A r \in Readers : AsListed(r)]_serviceVars
  <2> SUFFICES ASSUME LifecycleInv, SameBuffer, HistoryInv, UnmovedOwnRow',
                      [ServiceNext]_serviceVars, NEW r \in Readers,
                      Returned(r), reply'[r].pair \in Unmoved, NEW o \in settled
               PROVE  answer'[r][o] # Store!NoScore
                        <=> indexes.byTag[reply'[r].pair.tag][o] > 0
    OBVIOUS
  <2>1. reply'[r].row = reply'[r].pair
    BY DEF UnmovedOwnRow, Returned
  <2>2. /\ reply'[r].row \in DOMAIN shown
        /\ answer'[r] = shown[reply'[r].row]
    BY ReturnedLists
  <2>. QED BY <2>1, <2>2 DEF HistoryInv
<1>2. ServiceSpec => []UnmovedOwnRow
  BY ServiceServes, UnmovedAnswers, PTL
<1>. QED BY <1>1, <1>2, HistoryInvariant, PTL DEF ServiceSpec, SettledReturned

=============================================================================
