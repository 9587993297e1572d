--------------------------- MODULE PairLifecycle ---------------------------
(***************************************************************************)
(* What the service promises about the lifecycle of a (PPS, BinTag) pair,  *)
(* independently of how an implementation keeps its lists: the diagram of  *)
(* README.md section 7 with the snapshot that makes it meaningful.         *)
(*                                                                         *)
(* A pair is announced (WarmingUp), becomes Active only when the published *)
(* snapshot already holds a ranking of it, and once withdrawn stays        *)
(* Removed until it is announced again.                                    *)
(***************************************************************************)
CONSTANT Pairs          \* the (PPS, BinTag) keys that may ever be used

VARIABLES
  status,               \* the circuit breaker's view of every pair
  ranked                \* the pairs the published snapshot holds a ranking of

vars == <<status, ranked>>

Statuses == {"None", "WarmingUp", "Active", "Removed"}

(* The pairs a compute cycle has to rank. *)
Tracked == {p \in Pairs : status[p] \in {"WarmingUp", "Active"}}

TypeOK ==
  /\ status \in [Pairs -> Statuses]
  /\ ranked \in SUBSET Pairs

(* At start-up any set of pairs may be served, with (empty) rankings. *)
Init ==
  /\ ranked \in SUBSET Pairs
  /\ status = [p \in Pairs |-> IF p \in ranked THEN "Active" ELSE "None"]

(* A pair is announced, or announced again. *)
Announce(p) ==
  /\ status' = [status EXCEPT ![p] = "WarmingUp"]
  /\ UNCHANGED ranked

(* A pair is withdrawn; the snapshot in use still holds its ranking. *)
Withdraw(p) ==
  /\ status' = [status EXCEPT ![p] = "Removed"]
  /\ UNCHANGED ranked

(* A compute cycle publishes a ranking of exactly the tracked pairs. *)
Snapshot ==
  /\ ranked' = Tracked
  /\ UNCHANGED status

(* A warming pair starts to be served, and only from a snapshot ranking it. *)
Serve(p) ==
  /\ status[p] = "WarmingUp"
  /\ p \in ranked
  /\ status' = [status EXCEPT ![p] = "Active"]
  /\ UNCHANGED ranked

Next ==
  \/ \E p \in Pairs : Announce(p) \/ Withdraw(p) \/ Serve(p)
  \/ Snapshot

Spec == Init /\ [][Next]_vars

=============================================================================
