---------------------------- MODULE ServingRust ----------------------------
(***************************************************************************)
(* The pair lifecycle and the read path of rust-impl.                      *)
(*                                                                         *)
(* pending_warmup is kept as the set of pairs it lists: the vector may     *)
(* name a pair twice, but a second activate of an Active pair changes      *)
(* nothing, and the order in which a drain activates its pairs is left     *)
(* open.                                                                   *)
(***************************************************************************)
EXTENDS ServingCore

Init ==
  /\ CoreInit
  /\ pending = {}

-----------------------------------------------------------------------------
(* Plausible bugs: each stands for an operation below in a mutation run,   *)
(* and breaks the property it is paired with.                              *)

(* A pair that is tracked already is not queued again. *)
AddQueuesNewOnly(p) ==
  /\ stage = "idle"
  /\ topo' = [topo EXCEPT ![p] = "WarmingUp"]
  /\ IF p \in ListRange(pairs)
     THEN UNCHANGED <<pairs, pending, numPps>>
     ELSE /\ pairs' = Append(pairs, p)
          /\ pending' = pending \cup {p}
          /\ numPps' = IF Pps[p] + 1 > numPps THEN Pps[p] + 1 ELSE numPps
  /\ UNCHANGED <<stage, served, reads>>

(* The matrix does not grow with a new PPS. *)
AddWithoutGrowth(p) ==
  /\ stage = "idle"
  /\ topo' = [topo EXCEPT ![p] = "WarmingUp"]
  /\ pending' = pending \cup {p}
  /\ pairs' = IF p \in ListRange(pairs) THEN pairs ELSE Append(pairs, p)
  /\ UNCHANGED <<numPps, stage, served, reads>>

(* A new pair is ranked first, which moves every other row. *)
AddAtFront(p) ==
  /\ stage = "idle"
  /\ topo' = [topo EXCEPT ![p] = "WarmingUp"]
  /\ pending' = pending \cup {p}
  /\ IF p \in ListRange(pairs)
     THEN UNCHANGED <<pairs, numPps>>
     ELSE /\ pairs' = <<p>> \o pairs
          /\ numPps' = IF Pps[p] + 1 > numPps THEN Pps[p] + 1 ELSE numPps
  /\ UNCHANGED <<stage, served, reads>>

(* The pending entry of a removed pair survives its removal. *)
RemoveKeepsPending(p) ==
  /\ stage = "idle"
  /\ topo' = [topo EXCEPT ![p] = "Removed"]
  /\ pairs' = Without(pairs, p)
  /\ UNCHANGED <<pending, numPps, stage, served, reads>>

-----------------------------------------------------------------------------
(* handle_add_pair: the matrix grows only together with the list of pairs. *)
HandleAddPair(p) ==
  /\ stage = "idle"
  /\ topo' = [topo EXCEPT ![p] = "WarmingUp"]
  /\ pending' = pending \cup {p}
  /\ IF p \in ListRange(pairs)
     THEN UNCHANGED <<pairs, numPps>>
     ELSE /\ pairs' = Append(pairs, p)
          /\ numPps' = IF Pps[p] + 1 > numPps THEN Pps[p] + 1 ELSE numPps
  /\ UNCHANGED <<stage, served, reads>>

(* handle_remove_pair *)
HandleRemovePair(p) ==
  /\ stage = "idle"
  /\ topo' = [topo EXCEPT ![p] = "Removed"]
  /\ pending' = pending \ {p}
  /\ pairs' = Without(pairs, p)
  /\ UNCHANGED <<numPps, stage, served, reads>>

(* phase2_rank and publish: a row of the matrix that does not exist is a   *)
(* slice out of range, the panic leaves the rayon pool and the cycle dies  *)
(* with nothing published.                                                 *)
RankAndPublish ==
  /\ stage = "idle"
  /\ IF \A p \in ListRange(pairs) : Pps[p] < numPps
     THEN rows' = pairs /\ stage' = "promoting"
     ELSE UNCHANGED rows /\ stage' = "crashed"
  /\ UNCHANGED <<topo, pairs, pending, numPps, index, reads>>

(* One iteration of the drain in promote_warming_pairs. *)
Promote(p) ==
  /\ stage = "promoting"
  /\ p \in pending
  /\ topo' = [topo EXCEPT ![p] = "Active"]
  /\ pending' = pending \ {p}
  /\ UNCHANGED <<pairs, numPps, stage, served, reads>>

(* refresh_pair_index takes &mut self: the borrow excludes calls of         *)
(* get_top_k that are under way.                                            *)
ExclusiveRefresh == NoReadInProgress /\ RefreshPairIndex

(* get_top_k: three loads, with the steps of the owner between them. *)
GetTopK(r) ==
  \/ \E p \in Pairs : CheckStatus(r, p)
  \/ LookUp(r, "Internal")
  \/ LoadRow(r)

Next ==
  \/ \E p \in Pairs : HandleAddPair(p) \/ Promote(p)
  \/ \E p \in Removable : HandleRemovePair(p)
  \/ RankAndPublish
  \/ EndCycle
  \/ ExclusiveRefresh
  \/ \E r \in Readers : GetTopK(r)

Spec == Init /\ [][Next]_vars

(* The owner keeps running cycles, as the loop of main does; topology       *)
(* events and reads may stop.                                               *)
Fairness ==
  /\ WF_vars(RankAndPublish)
  /\ WF_vars(EndCycle)
  /\ \A p \in Pairs : WF_vars(Promote(p))

-----------------------------------------------------------------------------
(* Types of the state and of the answers. *)
TypeOK ==
  /\ CoreTypeOK
  /\ pending \in SUBSET Pairs
  /\ rows \in Seq(Pairs)
  /\ reply \in [Readers ->
                  [code : {"Nothing", "NotFound", "Unavailable", "Internal", "OutOfRange", "OK"},
                   pair : Pairs \cup {NoPair}, row : Pairs \cup {NoPair}]]

(* A warming pair is always queued for promotion: handle_add_pair,         *)
(* handle_remove_pair and the drain together never leave one behind that   *)
(* no later cycle would promote.                                           *)
NoStrandedWarmup ==
  \A p \in Pairs : topo[p] = "WarmingUp" => p \in pending

(* The circuit breaker opens only for a pair the published buffer ranks:   *)
(* publish comes before activate, and removing a pair before the buffer    *)
(* loses its row.                                                          *)
ActiveIsRanked ==
  \A p \in Pairs : topo[p] = "Active" => p \in ListRange(rows)

(* phase2_rank never indexes the score matrix past its last row, although   *)
(* pairs come with any pps_id and only handle_add_pair grows the matrix.    *)
MatrixCoversPairs == stage # "crashed"

(* A pair that no removal can shift is always answered from its own row,   *)
(* whatever cycles, additions and index refreshes run between the three    *)
(* loads of get_top_k, and never reads past the buffer.                    *)
UnmovedOwnRow ==
  \A r \in Readers :
    reply[r].pair \in Unmoved =>
      /\ reply[r].code = "OK" => reply[r].row = reply[r].pair
      /\ reply[r].code # "OutOfRange"

(* Every warming pair stops warming: it is promoted, or removed first.     *)
WarmupCompletes ==
  \A p \in Pairs : topo[p] = "WarmingUp" ~> topo[p] # "WarmingUp"

(* The README's lifecycle, with the published buffer as its snapshot. *)
Lifecycle == INSTANCE PairLifecycle WITH status <- topo, ranked <- ListRange(rows)

(* rust-impl implements that lifecycle: in particular only an announcement *)
(* takes a pair out of Removed, and only from a snapshot that ranks it     *)
(* does a warming pair become Active.                                      *)
LifecycleImplemented == Lifecycle!Spec

=============================================================================
