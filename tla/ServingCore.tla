---------------------------- MODULE ServingCore ----------------------------
(***************************************************************************)
(* The serving path of one pod: the state the four implementations share,  *)
(* and the steps whose code is the same in all of them.                    *)
(*                                                                         *)
(* One owner thread runs the compute cycle and the topology handlers       *)
(* sequentially.  Any number of readers run GetTopK without a lock: they   *)
(* load the topology map, then look the pair up in the server's index,     *)
(* then load the published buffer, and the owner may take steps between    *)
(* those three loads.                                                      *)
(*                                                                         *)
(* The content of a ranked row is abstracted to the pair it was ranked     *)
(* for: that is what tells a right answer from a wrong one here.  The rows *)
(* of the initial buffer hold -1 in every slot; row i of it stands for the *)
(* i-th initial pair.                                                      *)
(***************************************************************************)
EXTENDS PairLists

CONSTANTS
  Pairs,          \* the (PPS, BinTag) keys that may ever be used
  Readers,        \* the threads that call GetTopK
  InitialPairs,   \* the pairs the engine and the server are built with, in order
  Removable,      \* the pairs the topology may withdraw
  Pps,            \* the row number in the score matrix each pair is ranked by
  NumPPS,         \* the rows the score matrix is built with
  NoPair          \* the row of a reply that carries no lists

Statuses == {"None", "WarmingUp", "Active", "Removed"}

ASSUME ServingAssumption ==
  /\ InitialPairs \in Seq(Pairs)
  /\ NoRepeats(InitialPairs)
  /\ Removable \subseteq Pairs
  /\ NumPPS \in Nat
  /\ Pps \in [Pairs -> Nat]
  /\ \A p \in ListRange(InitialPairs) : Pps[p] < NumPPS
  /\ NoPair \notin Pairs

VARIABLES
  topo,      \* TopologyState: the status of every pair ("None": no entry)
  pairs,     \* ComputeEngine.pairs: the pairs the next cycle ranks, in order
  pending,   \* ComputeEngine.pending_warmup
  numPps,    \* PPSMatrix.num_pps
  stage,     \* where the owner thread is in the compute cycle
  rows,      \* the published ReadBuffer: rows[i] is the pair row i was ranked for
  index,     \* PriorityServer.pair_index: row of each pair, 0 when it has none
  rd,        \* a call of GetTopK in progress
  reply      \* the last answer a reader got

owned  == <<pairs, pending, numPps, stage>>
served == <<rows, index>>
reads  == <<rd, reply>>
vars   == <<topo, pairs, pending, numPps, stage, rows, index, rd, reply>>

(* The index map built from a list of pairs. *)
Positions(s) == [p \in Pairs |-> IndexRow(s, p)]

Idle == [at |-> "idle", pair |-> NoPair, row |-> 0]

Answer(p, code, row) == [code |-> code, pair |-> p, row |-> row]

CoreInit ==
  /\ topo = [p \in Pairs |-> IF p \in ListRange(InitialPairs) THEN "Active" ELSE "None"]
  /\ pairs = InitialPairs
  /\ numPps = NumPPS
  /\ stage = "idle"
  /\ rows = InitialPairs
  /\ index = Positions(InitialPairs)
  /\ rd = [r \in Readers |-> Idle]
  /\ reply = [r \in Readers |-> Answer(NoPair, "Nothing", NoPair)]

-----------------------------------------------------------------------------
(* GetTopK *)

(* The circuit breaker: one load of the topology map decides whether the    *)
(* call goes on.                                                            *)
CheckStatus(r, p) ==
  /\ rd[r].at = "idle"
  /\ \/ /\ topo[p] \in {"None", "Removed"}
        /\ reply' = [reply EXCEPT ![r] = Answer(p, "NotFound", NoPair)]
        /\ UNCHANGED rd
     \/ /\ topo[p] = "WarmingUp"
        /\ reply' = [reply EXCEPT ![r] = Answer(p, "Unavailable", NoPair)]
        /\ UNCHANGED rd
     \/ /\ topo[p] = "Active"
        /\ rd' = [rd EXCEPT ![r] = [at |-> "lookup", pair |-> p, row |-> 0]]
        /\ UNCHANGED reply
  /\ UNCHANGED <<topo, owned, served>>

(* The pair index gives the row; each implementation answers a miss with a  *)
(* code of its own.                                                         *)
LookUp(r, miss) ==
  /\ rd[r].at = "lookup"
  /\ \/ /\ index[rd[r].pair] = 0
        /\ reply' = [reply EXCEPT ![r] = Answer(rd[r].pair, miss, NoPair)]
        /\ rd' = [rd EXCEPT ![r] = Idle]
     \/ /\ index[rd[r].pair] # 0
        /\ rd' = [rd EXCEPT ![r].at = "load", ![r].row = index[rd[r].pair]]
        /\ UNCHANGED reply
  /\ UNCHANGED <<topo, owned, served>>

(* One load of the published buffer; the four lists come from that snapshot. *)
(* A row beyond its end is a slice out of range: the call panics.           *)
LoadRow(r) ==
  /\ rd[r].at = "load"
  /\ reply' = [reply EXCEPT ![r] =
                 IF rd[r].row <= Len(rows)
                 THEN Answer(rd[r].pair, "OK", rows[rd[r].row])
                 ELSE Answer(rd[r].pair, "OutOfRange", NoPair)]
  /\ rd' = [rd EXCEPT ![r] = Idle]
  /\ UNCHANGED <<topo, owned, served>>

NoReadInProgress == \A r \in Readers : rd[r].at = "idle"

-----------------------------------------------------------------------------
(* The owner thread *)

(* RefreshPairIndex(engine.pairs), at any point between two cycles. *)
RefreshPairIndex ==
  /\ stage = "idle"
  /\ index' = Positions(pairs)
  /\ UNCHANGED <<topo, owned, rows, reads>>

(* The cycle returns once every pending pair has been promoted. *)
EndCycle ==
  /\ stage = "promoting"
  /\ pending = {}
  /\ stage' = "idle"
  /\ UNCHANGED <<topo, pairs, pending, numPps, served, reads>>

-----------------------------------------------------------------------------
CoreTypeOK ==
  /\ topo \in [Pairs -> Statuses]
  /\ pairs \in Seq(Pairs)
  /\ numPps \in Nat
  /\ stage \in {"idle", "promoting", "crashed"}
  /\ index \in [Pairs -> Nat]
  /\ rd \in [Readers -> [at : {"idle", "lookup", "load"}, pair : Pairs \cup {NoPair}, row : Nat]]
  /\ \A r \in Readers :
       /\ rd[r].at # "idle" => rd[r].pair \in Pairs
       /\ rd[r].at = "load" => rd[r].row # 0

(* The pairs no removal can shift: every pair at or before them in the      *)
(* initial order stays; when nothing may be withdrawn, all of them.         *)
Unmoved ==
  {p \in Pairs : \/ Removable = {}
                 \/ \E k \in DOMAIN InitialPairs :
                      /\ InitialPairs[k] = p
                      /\ \A j \in 1 .. k : InitialPairs[j] \notin Removable}

=============================================================================
