----------------------------- MODULE StatusMap -----------------------------
(***************************************************************************)
(* What TopologyState promises its callers: a map from pairs to statuses   *)
(* in which every write takes effect at once, at some point of the call,   *)
(* and touches one pair only.                                              *)
(***************************************************************************)
CONSTANTS
  Keys,          \* the pair keys
  Guarded        \* whether Activate takes a pair to Active from WarmingUp only

VARIABLE status

Statuses == {"None", "WarmingUp", "Active", "Removed"}

Init == status = [k \in Keys |-> "None"]

Set(k, s) ==
  /\ Guarded /\ s = "Active" => status[k] = "WarmingUp"
  /\ status' = [status EXCEPT ![k] = s]

Next == \E k \in Keys : \E s \in Statuses \ {"None"} : Set(k, s)

Spec == Init /\ [][Next]_status

=============================================================================
