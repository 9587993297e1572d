----------------------------- MODULE TopKSelect -----------------------------
(***************************************************************************)
(* The selection of the k best entries of a scratch slice: quickselect     *)
(* with a median-of-three pivot and a descending Lomuto partition, in the  *)
(* form go-cgo-impl and go-pure-impl share, then a sort of the prefix and  *)
(* the copy of its order IDs.                                              *)
(*                                                                         *)
(* Slots are numbered from 0 as in the code.  order[x] is the entry in     *)
(* slot x, score[o] its score: the slice is always a rearrangement of the  *)
(* entries it held at first.  The two implementations narrow the search    *)
(* around different slots (Target): k in go-cgo-impl, k - 1 in             *)
(* go-pure-impl.                                                           *)
(***************************************************************************)
EXTENDS Integers, Sequences

CONSTANTS
  Lengths,          \* the lengths the slice may have
  Limit,            \* TopK
  Values            \* the scores

ASSUME SelectAssumption ==
  /\ Lengths \subseteq Nat
  /\ Limit \in Nat \ {0}
  /\ Values \subseteq Int

VARIABLES
  n, score,         \* the length of the slice and the scores
  shift,            \* 0 in go-cgo-impl, 1 in go-pure-impl
  order,            \* the entry in each slot
  lo, hi,           \* the range quickselectTopK still searches
  i, j,             \* the indices of partitionDesc
  pc,               \* where the code is
  dst               \* the list written to the buffer

fixed == <<n, score, shift>>      \* these never change
selectVars == <<n, score, shift, order, lo, hi, i, j, pc, dst>>

Slots == 0 .. n - 1

At(x) == score[order[x]]

k == IF n < Limit THEN n ELSE Limit

Target == k - shift

Swapped(x, y) == [order EXCEPT ![x] = order[y], ![y] = order[x]]

SelectInit ==
  /\ n \in Lengths
  /\ score \in [Slots -> Values]
  /\ shift \in {0, 1}
  /\ order = [x \in Slots |-> x]
  /\ lo = 0 /\ hi = n - 1
  /\ i = 0 /\ j = 0
  /\ pc = IF k = 0 THEN "done" ELSE IF k = n THEN "sort" ELSE "search"
  /\ dst = << >>

-----------------------------------------------------------------------------
(* Plausible bugs, for the mutation runs. *)

(* The pivot is left at the end of the range. *)
PivotStaysLast ==
  /\ pc = "scan" /\ j = hi
  /\ i' = i + 1
  /\ pc' = "narrow"
  /\ UNCHANGED <<fixed, order, lo, hi, j, dst>>

(* The pivot stays in the range that is searched next. *)
NarrowKeepsPivot ==
  /\ pc = "narrow"
  /\ CASE i = Target -> pc' = "sort" /\ UNCHANGED <<lo, hi>>
       [] i < Target -> pc' = "search" /\ lo' = i /\ UNCHANGED hi
       [] i > Target -> pc' = "search" /\ hi' = i /\ UNCHANGED lo
  /\ UNCHANGED <<fixed, order, i, j, dst>>

-----------------------------------------------------------------------------
(* medianOfThree *)
MedianOfThree(a, b, c) ==
  LET u == At(a)  v == At(b)  w == At(c)
  IN  IF (u >= v /\ v >= w) \/ (w >= v /\ v >= u) THEN b
      ELSE IF (v >= u /\ u >= w) \/ (w >= u /\ u >= v) THEN a
      ELSE c

(* The loop of quickselectTopK starts a partition of lo .. hi, with its     *)
(* pivot moved to the end.                                                  *)
Pivot ==
  /\ pc = "search" /\ lo < hi
  /\ order' = Swapped(MedianOfThree(lo, lo + (hi - lo) \div 2, hi), hi)
  /\ i' = lo - 1
  /\ j' = lo
  /\ pc' = "scan"
  /\ UNCHANGED <<fixed, lo, hi, dst>>

SearchEnds ==
  /\ pc = "search" /\ lo >= hi
  /\ pc' = "sort"
  /\ UNCHANGED <<fixed, order, lo, hi, i, j, dst>>

(* One iteration of partitionDesc. *)
Scan ==
  /\ pc = "scan" /\ j < hi
  /\ IF At(j) >= At(hi)
     THEN i' = i + 1 /\ order' = Swapped(i + 1, j)
     ELSE UNCHANGED <<i, order>>
  /\ j' = j + 1
  /\ UNCHANGED <<fixed, lo, hi, pc, dst>>

(* The pivot goes to its place, i + 1, which partitionDesc returns. *)
Place ==
  /\ pc = "scan" /\ j = hi
  /\ order' = Swapped(i + 1, hi)
  /\ i' = i + 1
  /\ pc' = "narrow"
  /\ UNCHANGED <<fixed, lo, hi, j, dst>>

(* quickselectTopK looks at the place of the pivot. *)
Narrow ==
  /\ pc = "narrow"
  /\ CASE i = Target -> pc' = "sort" /\ UNCHANGED <<lo, hi>>
       [] i < Target -> pc' = "search" /\ lo' = i + 1 /\ UNCHANGED hi
       [] i > Target -> pc' = "search" /\ hi' = i - 1 /\ UNCHANGED lo
  /\ UNCHANGED <<fixed, order, i, j, dst>>

(* quickselectAndCopy sorts the prefix, in no particular order among equal  *)
(* scores, and copies the IDs.                                              *)
SortAndCopy ==
  /\ pc = "sort"
  /\ \E s \in [0 .. k - 1 -> 0 .. k - 1] :
       /\ \A x, y \in 0 .. k - 1 : x # y => s[x] # s[y]
       /\ \A x \in 1 .. k - 1 : At(s[x - 1]) >= At(s[x])
       /\ dst' = [x \in 1 .. k |-> order[s[x - 1]]]
  /\ pc' = "done"
  /\ UNCHANGED <<fixed, order, lo, hi, i, j>>

Done == pc = "done" /\ UNCHANGED selectVars

SelectNext == Pivot \/ SearchEnds \/ Scan \/ Place \/ Narrow \/ SortAndCopy \/ Done

SelectSpec == SelectInit /\ [][SelectNext]_selectVars

FairSelectSpec == SelectSpec /\ WF_selectVars(SelectNext)

-----------------------------------------------------------------------------
(* The list is k different entries, best first, and every entry left out is *)
(* no better than the last one.                                             *)
ListIsTopK ==
  pc = "done" =>
    /\ Len(dst) = k
    /\ \A x, y \in 1 .. k : x < y => dst[x] # dst[y] /\ score[dst[x]] >= score[dst[y]]
    /\ \A o \in Slots \ {dst[x] : x \in 1 .. k} : k > 0 => score[o] <= score[dst[k]]

(* Every step is towards the end, whatever the scores: what is left to      *)
(* search shrinks, and while it does not the phases of a round go by, in    *)
(* the scan with fewer slots to look at.  None of it falls below zero.      *)
PhasesLeft == [search |-> 4, scan |-> 3, narrow |-> 2, sort |-> 1, done |-> 0][pc]

Descends ==
  \/ hi' - lo' < hi - lo /\ lo' <= hi'
  \/ hi' - lo' = hi - lo /\ PhasesLeft' < PhasesLeft
  \/ UNCHANGED <<lo, hi, pc>> /\ hi' - j' < hi - j /\ j' <= hi'

SearchDescends == [][Descends]_selectVars

(* The search ends, on equal scores too. *)
Terminates == <>(pc = "done")

=============================================================================
