----------------------------- MODULE OrderBook -----------------------------
(***************************************************************************)
(* What the order side of the engine promises, independently of the four   *)
(* maps, the flat registry and the score matrix it is kept in: a book of   *)
(* live orders, each with the item types it needs, the BinTags it may be   *)
(* served at, a score, and the time it was accepted; and for every BinTag  *)
(* the ranking the last compute cycle showed.                              *)
(***************************************************************************)
EXTENDS Integers

CONSTANTS
  Orders,       \* the order IDs
  Tags,         \* the BinTag IDs
  TTL,          \* the age beyond which an order is dropped
  Contents,     \* what may be accepted: records of tpids, tags and score
  Diffs,        \* the contribution changes a cycle may apply
  Moved(_, _, _)    \* the score after a change, from the score and the item types before

VARIABLES
  book,         \* the live orders; None for the others
  shown,        \* shown[b][o]: the score o was ranked by at b, NoScore if it was not
  clock

vars == <<book, shown, clock>>

None == [state |-> "none"]
NoScore == [state |-> "unranked"]
Score(s) == [state |-> "ranked", score |-> s]

Expired(o) == book[o] # None /\ clock - book[o].since > TTL

Init ==
  /\ book = [o \in Orders |-> None]
  /\ shown = [b \in Tags |-> [o \in Orders |-> NoScore]]
  /\ clock = 1

(* A new order, or a new version of a live one. *)
Accept(o) ==
  /\ \E c \in Contents :
       book' = [book EXCEPT ![o] = [state |-> "live", tpids |-> c.tpids, tags |-> c.tags,
                                    score |-> c.score, since |-> clock]]
  /\ UNCHANGED <<shown, clock>>

Drop(o) ==
  /\ book' = [book EXCEPT ![o] = None]
  /\ UNCHANGED <<shown, clock>>

Tick ==
  /\ clock' = clock + 1
  /\ UNCHANGED <<book, shown>>

(* Drop what has expired, move the scores, show every live order at every   *)
(* BinTag it is eligible for, by its new score.                             *)
Cycle(diff) ==
  /\ book' = [o \in Orders |->
                IF book[o] = None \/ Expired(o) THEN None
                ELSE [book[o] EXCEPT !.score = Moved(@, book[o].tpids, diff)]]
  /\ shown' = [b \in Tags |-> [o \in Orders |->
                IF book'[o] # None /\ book'[o].tags[b] > 0
                THEN Score(book'[o].score) ELSE NoScore]]
  /\ UNCHANGED clock

Next ==
  \/ \E o \in Orders : Accept(o) \/ Drop(o)
  \/ Tick
  \/ \E diff \in Diffs : Cycle(diff)

Spec == Init /\ [][Next]_vars

=============================================================================
