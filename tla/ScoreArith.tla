---------------------------- MODULE ScoreArith ----------------------------
(***************************************************************************)
(* The arithmetic of one slot of the score matrix.  A slot is a 16-bit     *)
(* integer kept within ScoreMin .. ScoreMax; a cycle adds to it the sum,   *)
(* over the item types an order is listed under, of the changes of their   *)
(* contributions, once per listing, and clamps the result.                 *)
(***************************************************************************)
EXTENDS Integers, FiniteSets, Functions

CONSTANTS
  Tpids,        \* the item types
  ScoreMin,     \* -32767 in the Go implementations, -32768 in the Kotlin one
  ScoreMax      \* 32767

ASSUME ScoreAssumption ==
  /\ IsFiniteSet(Tpids)
  /\ ScoreMin \in Int /\ ScoreMin <= 0
  /\ ScoreMax \in Nat

Scores == ScoreMin .. ScoreMax

(* A list of IDs in which an ID may be named more than once, kept as the    *)
(* number of times it names each.                                           *)
Bag(S) == [S -> Nat]

Clamp(v) == IF v > ScoreMax THEN ScoreMax ELSE IF v < ScoreMin THEN ScoreMin ELSE v

(* delta[o] starts at zero and is added to once for every listing. *)
Delta(listings, diff) == SumFunctionOnSet([t \in Tpids |-> listings[t] * diff[t]], Tpids)

Moved(score, listings, diff) == Clamp(score + Delta(listings, diff))

=============================================================================
