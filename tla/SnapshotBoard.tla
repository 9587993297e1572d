--------------------------- MODULE SnapshotBoard ---------------------------
(***************************************************************************)
(* What a compute cycle promises the callers of GetTopK, whoever computes  *)
(* the lists and wherever they are kept: a board that is replaced as a     *)
(* whole, all of it made from one version of the scores and never from an  *)
(* older one than before, of which a call takes the lists of its pair at   *)
(* one moment and then reads what it took.                                 *)
(***************************************************************************)
EXTENDS Naturals, Sequences

CONSTANTS
  Counts,       \* the numbers of pairs a cycle may rank
  Tables,       \* the lists of a pair
  Readers

VARIABLES
  version,      \* the updates of the scores handed in so far
  board,        \* for every pair and list the version it was made from
  call          \* what a call took and what it has read of it

vars == <<version, board, call>>

None == [state |-> "none"]

Taken(lists, got) == [state |-> "taken", lists |-> lists, got |-> got]

(* Version 0 is a board nobody has made lists for. *)
Filled(n, v) == [i \in 1 .. n |-> [t \in 1 .. Tables |-> v]]

Init ==
  /\ version = 1
  /\ \E n \in Counts : board = Filled(n, 0)
  /\ call = [r \in Readers |-> None]

Update ==
  /\ version' = version + 1
  /\ UNCHANGED <<board, call>>

Replace(n) ==
  /\ board' = Filled(n, version)
  /\ UNCHANGED <<version, call>>

Take(r) ==
  /\ call[r] = None
  /\ \E i \in DOMAIN board : call' = [call EXCEPT ![r] = Taken(board[i], << >>)]
  /\ UNCHANGED <<version, board>>

Read(r) ==
  /\ call[r] # None
  /\ LET lists == call[r].lists
         got   == call[r].got
     IN  /\ Len(got) < Tables
         /\ call' = [call EXCEPT ![r] = Taken(lists, Append(got, lists[Len(got) + 1]))]
  /\ UNCHANGED <<version, board>>

Return(r) ==
  /\ call[r] # None
  /\ Len(call[r].got) = Tables
  /\ call' = [call EXCEPT ![r] = None]
  /\ UNCHANGED <<version, board>>

Next ==
  \/ Update
  \/ \E n \in Counts : Replace(n)
  \/ \E r \in Readers : Take(r) \/ Read(r) \/ Return(r)

Spec == Init /\ [][Next]_vars

=============================================================================
