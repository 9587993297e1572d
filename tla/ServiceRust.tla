---------------------------- MODULE ServiceRust ----------------------------
(***************************************************************************)
(* rust-impl as a whole: the pairs and the calls of ServingRust over the   *)
(* orders and the matrix of MatrixStore, with one owner thread, one list   *)
(* of pairs and one buffer between them.  What is told apart here is which *)
(* orders a caller is given.                                               *)
(*                                                                         *)
(* Where both modules model a handler, the step is a step of both, each for *)
(* its own fields: handle_add_pair counts the rows in num_pps, which        *)
(* ServingRust has, and makes them in data, which MatrixStore has.          *)
(***************************************************************************)
EXTENDS ServingRust, InvertedIndexes

CONSTANTS
  TTL, Events, Diffs, Deactivatable, MaxNow,      \* as in MatrixStore
  Announced,                                      \* the pairs the topology may announce
  Asked                                           \* the pairs callers ask for

VARIABLES
  active, since, indexes, matrix, shown, now,     \* as in MatrixStore
  answer,       \* the lists the last call of a reader returned
  gone,         \* history: orders that were not live in the last cycle, and not ingested since
  settled       \* history: orders that were live in it, and are as they were then

storeVars == <<active, since, indexes, matrix, shown, now>>
sinceCycle == <<gone, settled>>
serviceVars == <<vars, storeVars, answer, sinceCycle>>

Store == INSTANCE MatrixStore WITH impl <- "rust", pairs <- ListRange(pairs), NewPairs <- Pairs

ASSUME ServiceAssumption ==
  /\ Pairs \subseteq [pps : Nat, tag : Tags]
  /\ Pps = [p \in Pairs |-> p.pps]
  /\ NumPPS > 0
  /\ ListRange(InitialPairs) = [pps : 0 .. NumPPS - 1, tag : Tags]
  /\ Announced \cup Asked \subseteq Pairs
  /\ TTL \in Nat /\ MaxNow \in Nat
  /\ Events \subseteq OrderEvents
  /\ Diffs \subseteq [Tpids -> Int]
  /\ Deactivatable \subseteq Orders

NoLists == [o \in Orders |-> Store!NoScore]

ServiceInit ==
  /\ Init
  /\ Store!Init
  /\ answer = [r \in Readers |-> NoLists]
  /\ gone = Orders
  /\ settled = {}

-----------------------------------------------------------------------------
(* The owner thread: orders, pairs and cycles *)

ConsumeOrder(o, e) ==
  /\ stage = "idle"
  /\ UNCHANGED <<vars, answer>>
  /\ Store!IngestOrder(o, e)
  /\ gone' = gone \ {o}
  /\ settled' = settled \ {o}

(* handle_order_removed, or a deactivate. *)
DropOrder(o) ==
  /\ stage = "idle"
  /\ UNCHANGED <<vars, answer, gone>>
  /\ Store!EvictOrder(o) \/ (o \in Deactivatable /\ Store!Deactivate(o))
  /\ settled' = settled \ {o}

AddPair(p) ==
  /\ HandleAddPair(p)
  /\ Store!HandleAddPair(p)
  /\ UNCHANGED <<answer, sinceCycle>>

RemovePair(p) ==
  /\ HandleRemovePair(p)
  /\ Store!HandleRemovePair(p)
  /\ UNCHANGED <<answer, sinceCycle>>

(* run_cycle_with_dict up to the publication: purge, both phases, and one   *)
(* buffer for both modules.                                                 *)
RunCycle(diff) ==
  /\ RankAndPublish
  /\ Store!RunCycleWithDict(diff)
  /\ gone' = {o \in Orders : ~active'[o]}
  /\ settled' = {o \in Orders : active'[o]}
  /\ UNCHANGED answer

(* What the promotion and the refresh do is the pairs' affair. *)
PairsOnly(A) == A /\ UNCHANGED <<storeVars, answer, sinceCycle>>

PromoteOne(p) == PairsOnly(Promote(p))
FinishCycle == PairsOnly(EndCycle)
RefreshIndex == PairsOnly(ExclusiveRefresh)

Clock ==
  /\ UNCHANGED <<vars, answer, sinceCycle>>
  /\ Store!Tick

(* get_top_k: the row that was looked up, in the buffer of the moment. *)
ReturnLists(r) ==
  /\ LoadRow(r)
  /\ answer' = [answer EXCEPT ![r] = IF reply'[r].code = "OK" THEN shown[reply'[r].row] ELSE NoLists]
  /\ UNCHANGED <<storeVars, sinceCycle>>

Advance(r) == PairsOnly((\E p \in Asked : CheckStatus(r, p)) \/ LookUp(r, "Internal"))

ServiceNext ==
  \/ \E o \in Orders : DropOrder(o) \/ \E e \in Events : ConsumeOrder(o, e)
  \/ \E p \in Announced : AddPair(p)
  \/ \E p \in Removable : RemovePair(p)
  \/ \E diff \in Diffs : RunCycle(diff)
  \/ \E p \in Pairs : PromoteOne(p)
  \/ FinishCycle
  \/ RefreshIndex
  \/ Clock
  \/ \E r \in Readers : Advance(r) \/ ReturnLists(r)

ServiceSpec == ServiceInit /\ [][ServiceNext]_serviceVars

(* The fairness of the owner is that of ServingRust, whatever the item       *)
(* dictionary sends.                                                        *)
ServiceFairSpec == ServiceSpec /\ Fairness

-----------------------------------------------------------------------------
(* The matrix has in data exactly the rows num_pps counts, which handlers    *)
(* extend in two statements: a row that is counted and not made panics in    *)
(* the next removal of an order, and one that is made and not counted keeps  *)
(* the scores of the order that had the slot before.  And the buffer has     *)
(* lists for exactly the pairs of its rows, which calls look into.           *)
SameBuffer ==
  /\ DOMAIN matrix = 0 .. numPps - 1
  /\ DOMAIN shown = ListRange(rows)

Returned(r) == reply'[r].code = "OK" /\ rd[r].at = "load" /\ rd'[r].at = "idle"

(* An order that was evicted, deactivated or has expired by the last cycle   *)
(* is in no answer, whatever pair was asked for and whichever row it came    *)
(* from.                                                                    *)
GoneNotReturned ==
  [][\A r \in Readers : Returned(r) => \A o \in gone : answer'[r][o] = Store!NoScore]_serviceVars

(* An order the last cycle has seen, and nothing happened to since, is in    *)
(* the answer for a pair no removal can shift exactly if it is eligible for  *)
(* the BinTag of that pair.                                                 *)
SettledReturned ==
  [][\A r \in Readers : Returned(r) /\ reply'[r].pair \in Unmoved =>
       \A o \in settled :
         answer'[r][o] # Store!NoScore <=> indexes.byTag[reply'[r].pair.tag][o] > 0]_serviceVars

=============================================================================
