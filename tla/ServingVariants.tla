-------------------------- MODULE ServingVariants --------------------------
(***************************************************************************)
(* The pair lifecycle and the read path of go-cgo-impl ("cgo"),            *)
(* go-pure-impl ("pure") and the Kotlin implementation ("kotlin").         *)
(*                                                                         *)
(* They differ from rust-impl where it matters most: a removal leaves the  *)
(* pair's pending promotions alone.  Between them they differ in three     *)
(* steps: whether an addition extends the ranked list, what a pair of a    *)
(* PPS beyond the matrix does to a cycle, and whether the promotion looks  *)
(* at the status.                                                          *)
(*                                                                         *)
(* pendingWarmup is kept as the number of its entries for each pair.       *)
(***************************************************************************)
EXTENDS ServingCore

CONSTANTS
  Impls,          \* the implementations a run is about
  Announced,      \* the pairs the topology may announce
  MaxPending      \* a bound on the entries of one pair in pendingWarmup

ASSUME VariantsAssumption ==
  /\ Impls \subseteq {"cgo", "pure", "kotlin"}
  /\ Announced \subseteq Pairs
  /\ MaxPending \in Nat \ {0}

VARIABLES
  impl,           \* the implementation that runs
  mainPairs       \* the slice go-pure-impl's main keeps over the array of e.Pairs

varVars == <<impl, mainPairs>>
allVars == <<vars, impl, mainPairs>>

Init ==
  /\ CoreInit
  /\ pending = [p \in Pairs |-> 0]
  /\ impl \in Impls
  /\ mainPairs = InitialPairs

-----------------------------------------------------------------------------
(* Plausible bugs, for the mutation runs. *)

(* A pair that is tracked already is not queued again. *)
AddQueuesNewOnly(p) ==
  /\ stage = "idle"
  /\ pending[p] < MaxPending
  /\ topo' = [topo EXCEPT ![p] = "WarmingUp"]
  /\ IF p \in ListRange(pairs)
     THEN UNCHANGED <<pairs, pending>>
     ELSE pairs' = Append(pairs, p) /\ pending' = [pending EXCEPT ![p] = @ + 1]
  /\ UNCHANGED <<numPps, stage, served, reads, varVars>>

(* The pairs promoted by a cycle stay queued for the next one. *)
PromoteKeepsPending(p) ==
  /\ stage = "promoting"
  /\ pending[p] > 0
  /\ topo' = [topo EXCEPT ![p] = "Active"]
  /\ stage' = IF \A q \in Pairs \ {p} : pending[q] > 0 => topo[q] = "Active" THEN "idle" ELSE stage
  /\ UNCHANGED <<pairs, pending, numPps, served, reads, varVars>>

(* What was ranked before a task threw is published all the same. *)
PublishPartial ==
  /\ stage = "idle"
  /\ \E n \in 0 .. Len(pairs) : rows' = SubSeq(pairs, 1, n)
  /\ stage' = "promoting"
  /\ UNCHANGED <<topo, pairs, pending, numPps, index, reads, varVars>>

(* The gap is closed from the front: the engine's list is the same, and the *)
(* array under it names the first pair twice.                               *)
RemoveShiftsRight(p) ==
  /\ stage = "idle"
  /\ topo' = [topo EXCEPT ![p] = "Removed"]
  /\ pairs' = Without(pairs, p)
  /\ mainPairs' = [i \in DOMAIN mainPairs |->
                     IF impl = "pure" /\ i > 1 /\ \E j \in DOMAIN pairs : j >= i /\ pairs[j] = p
                     THEN mainPairs[i - 1] ELSE mainPairs[i]]
  /\ UNCHANGED <<pending, numPps, stage, served, reads, impl>>

-----------------------------------------------------------------------------
(* HandleAddPair.  go-pure-impl never extends e.Pairs; the others append a   *)
(* pair they do not track yet.  The matrix keeps the rows it was built with. *)
HandleAddPair(p) ==
  /\ stage = "idle"
  /\ pending[p] < MaxPending
  /\ topo' = [topo EXCEPT ![p] = "WarmingUp"]
  /\ pending' = [pending EXCEPT ![p] = @ + 1]
  /\ pairs' = IF impl = "pure" \/ p \in ListRange(pairs) THEN pairs ELSE Append(pairs, p)
  /\ UNCHANGED <<numPps, stage, served, reads, varVars>>

(* Filtering e.Pairs[:0] writes the pairs that stay over the front of the   *)
(* array; a longer slice over the same array keeps its old tail behind them.*)
Overlaid(s, old) == [i \in DOMAIN old |-> IF i <= Len(s) THEN s[i] ELSE old[i]]

(* HandleRemovePair: pendingWarmup is left alone.  Only in go-pure-impl does *)
(* main go on using the slice it gave to the engine.                         *)
HandleRemovePair(p) ==
  /\ stage = "idle"
  /\ topo' = [topo EXCEPT ![p] = "Removed"]
  /\ pairs' = Without(pairs, p)
  /\ mainPairs' = IF impl = "pure" THEN Overlaid(Without(pairs, p), mainPairs) ELSE mainPairs
  /\ UNCHANGED <<pending, numPps, stage, served, reads, impl>>

-----------------------------------------------------------------------------
(* phase2Rank and Publish *)

Publish(ranked) ==
  /\ stage = "idle"
  /\ rows' = ranked
  /\ stage' = "promoting"
  /\ UNCHANGED <<topo, pairs, pending, numPps, index, reads, varVars>>

(* Row does not check its argument: beyond the matrix it is a view of other  *)
(* memory, and the pair is ranked by whatever is there (NoPair), unless no   *)
(* active order is eligible for it (bare).                                   *)
RankCgo ==
  /\ impl = "cgo"
  /\ \E bare \in SUBSET ListRange(pairs) :
       Publish([i \in DOMAIN pairs |->
                  IF Pps[pairs[i]] < numPps \/ pairs[i] \in bare THEN pairs[i] ELSE NoPair])

(* The row of a removed pair is left empty; the matrix row is modulo.        *)
RankPure ==
  /\ impl = "pure"
  /\ Publish([i \in DOMAIN pairs |-> IF topo[pairs[i]] = "Removed" THEN NoPair ELSE pairs[i]])

(* No task throws: every pair has a row of its own, an empty one when no     *)
(* active order is eligible.                                                 *)
RankKotlin ==
  /\ impl = "kotlin"
  /\ Publish(pairs)

(* A pair of a PPS beyond the matrix, with an active eligible order.  In Go  *)
(* the memory is not mapped, and the process ends; in Kotlin the exception   *)
(* leaves runCycleWithDict, and main with it, with nothing published and     *)
(* nothing promoted, and calls of getTopK go on.                             *)
RankFails ==
  /\ impl \in {"cgo", "kotlin"}
  /\ stage = "idle"
  /\ \E p \in ListRange(pairs) : Pps[p] >= numPps
  /\ stage' = "crashed"
  /\ UNCHANGED <<topo, pairs, pending, numPps, served, reads, varVars>>

-----------------------------------------------------------------------------
(* promoteWarmingPairs *)

(* Every entry is activated, whatever the status; the list is then emptied, *)
(* and a second entry of the pair changes nothing.                           *)
PromoteAny(p) ==
  /\ impl \in {"cgo", "kotlin"}
  /\ stage = "promoting"
  /\ pending[p] > 0
  /\ topo' = [topo EXCEPT ![p] = "Active"]
  /\ pending' = [pending EXCEPT ![p] = 0]
  /\ UNCHANGED <<pairs, numPps, stage, served, reads, varVars>>

(* go-pure-impl: an entry of a warming pair, or of one the map does not      *)
(* name, which Activate then leaves alone.  Later entries of the pair find   *)
(* it Active and stay.                                                       *)
PromoteWarming(p) ==
  /\ impl = "pure"
  /\ stage = "promoting"
  /\ pending[p] > 0
  /\ topo[p] \in {"None", "WarmingUp"}
  /\ topo' = [topo EXCEPT ![p] = IF @ = "WarmingUp" THEN "Active" ELSE @]
  /\ pending' = [pending EXCEPT ![p] = @ - 1]
  /\ UNCHANGED <<pairs, numPps, stage, served, reads, varVars>>

(* The loop has passed every entry; go-pure-impl keeps those of a pair that  *)
(* does not warm up.                                                         *)
EndPromotion ==
  /\ stage = "promoting"
  /\ \A p \in Pairs : pending[p] > 0 => impl = "pure" /\ topo[p] \notin {"None", "WarmingUp"}
  /\ stage' = "idle"
  /\ UNCHANGED <<topo, pairs, pending, numPps, served, reads, varVars>>

-----------------------------------------------------------------------------
(* RefreshPairIndex with the engine's own list, as the other mains call it.  *)
(* Readers may be under way: the field is a plain map reference, of which a  *)
(* reader sees the old or the new value; the store is ordered before the     *)
(* owner's next publication, which is atomic.                                *)
RefreshFromEngine == RefreshPairIndex /\ UNCHANGED varVars

(* RefreshPairIndex as main of go-pure-impl calls it, right after            *)
(* HandleAddPair: the slice it built the engine with, and the new pair.      *)
RefreshWithNew(p) ==
  /\ impl = "pure"
  /\ stage = "idle"
  /\ p \notin ListRange(InitialPairs)
  /\ topo[p] = "WarmingUp"
  /\ index' = Positions(Append(mainPairs, p))
  /\ UNCHANGED <<topo, owned, rows, reads, varVars>>

(* GetTopK: a pair that is Active but not in the index is unavailable, in    *)
(* go-pure-impl not found.  A process that faulted answers nothing.          *)
GetTopK(r) ==
  /\ stage = "crashed" => impl = "kotlin"
  /\ \/ \E p \in Pairs : CheckStatus(r, p)
     \/ LookUp(r, IF impl = "pure" THEN "NotFound" ELSE "Unavailable")
     \/ LoadRow(r)
  /\ UNCHANGED varVars

-----------------------------------------------------------------------------
Next ==
  \/ \E p \in Announced : HandleAddPair(p) \/ PromoteAny(p) \/ PromoteWarming(p) \/ RefreshWithNew(p)
  \/ \E p \in Removable : HandleRemovePair(p)
  \/ RankCgo
  \/ RankPure
  \/ RankKotlin
  \/ RankFails
  \/ EndPromotion
  \/ RefreshFromEngine
  \/ \E r \in Readers : GetTopK(r)

Spec == Init /\ [][Next]_allVars

(* Cycles keep running, as in the loops of the three mains, until one fails. *)
Fairness ==
  /\ WF_allVars(RankCgo \/ RankPure \/ RankKotlin \/ RankFails)
  /\ WF_allVars(EndPromotion)
  /\ \A p \in Pairs : WF_allVars(PromoteAny(p) \/ PromoteWarming(p))

FairSpec == Spec /\ Fairness

-----------------------------------------------------------------------------
(* go-cgo-impl and Kotlin: a pair that is being served has no promotion      *)
(* queued, however often it was added, removed and added again: only a       *)
(* removal that overtakes a promotion can be undone by the next cycle.       *)
ServedNotQueued ==
  impl # "pure" => \A p \in Pairs : topo[p] = "Active" => pending[p] = 0

(* The pairs no removal can shift that every cycle ranks by scores of their  *)
(* own: pairs the matrix has a row for, in go-pure-impl the pairs of the     *)
(* start.                                                                    *)
Held ==
  CASE impl = "cgo"    -> {p \in Unmoved : Pps[p] < NumPPS}
    [] impl = "pure"   -> Unmoved \cap ListRange(InitialPairs)
    [] impl = "kotlin" -> Unmoved

(* Such a pair is answered from its own row, whatever runs between the three *)
(* loads of GetTopK; in go-pure-impl because main's own slice still names it *)
(* at its place, however the engine overwrote the array.                     *)
UnmovedOwnRow ==
  \A r \in Readers :
    reply[r].pair \in Held =>
      /\ reply[r].code = "OK" => reply[r].row = reply[r].pair
      /\ reply[r].code # "OutOfRange"

(* go-cgo-impl and Kotlin: a cycle that fails promotes nothing.  As long as  *)
(* a pair that was never withdrawn is being served, the published buffer has *)
(* a row for it (in go-cgo-impl a row of foreign memory, beyond the matrix). *)
ServedHasRow ==
  \A p \in Pairs \ Removable :
    impl # "pure" /\ topo[p] = "Active" =>
      p \in ListRange(rows) \/ (impl = "cgo" /\ Pps[p] >= numPps)

(* Every warming pair is promoted or removed, unless a pair of a PPS beyond  *)
(* the matrix ends the cycles first, which cannot happen in go-pure-impl.    *)
WarmupCompletes ==
  \A p \in Pairs :
    topo[p] = "WarmingUp" ~> topo[p] # "WarmingUp" \/ (stage = "crashed" /\ impl # "pure")

-----------------------------------------------------------------------------
(* What the comments and the README say, and the code does not do. *)

(* "Activate promotes a pair from StatusWarmingUp to StatusActive": no step *)
(* takes a removed pair to Active.                                          *)
ActivateOnlyWarming ==
  [][\A p \in Pairs : topo[p] # "Active" /\ topo'[p] = "Active" => topo[p] = "WarmingUp"]_allVars

(* "After one full cycle completes, the pair is promoted to Active and       *)
(* GetTopK succeeds": a pair is Active only once the buffer ranks it.        *)
ActiveIsRanked ==
  \A p \in Pairs : topo[p] = "Active" => p \in ListRange(rows)

=============================================================================
