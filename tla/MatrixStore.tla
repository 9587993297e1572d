---------------------------- MODULE MatrixStore ----------------------------
(***************************************************************************)
(* The order side of rust-impl and of go-pure-impl, with every row of the  *)
(* score matrix and every pair that is ranked.  The registry and the       *)
(* indexes are those of OrderStore but for the way an order leaves its     *)
(* lists.  What differs is the matrix: rust-impl adds rows while it runs   *)
(* and saturates in two steps; go-pure-impl maps a PPS to a row by a       *)
(* subtraction or a modulo, and shows every active order at a BinTag that  *)
(* no order is listed under.                                               *)
(***************************************************************************)
EXTENDS InvertedIndexes

CONSTANTS
  TTL,            \* OrderTTLSecs
  Events,         \* the contents of the order events that may be consumed
  Diffs,          \* the contribution changes an ItemDict update may carry
  Deactivatable,  \* the orders on which Deactivate may be called
  NumPPS,         \* the rows of the matrix at the start
  NewPairs,       \* the pairs that may be announced while the engine runs
  MaxNow          \* a bound on the clock

ASSUME MatrixAssumption ==
  /\ TTL \in Nat
  /\ Events \subseteq OrderEvents
  /\ Diffs \subseteq [Tpids -> Int]
  /\ Deactivatable \subseteq Orders
  /\ NumPPS \in Nat \ {0}
  /\ NewPairs \subseteq [pps : Nat, tag : Tags]
  /\ MaxNow \in Nat

VARIABLES
  impl,           \* "rust" or "pure": the implementation that runs
  active,         \* OrderRegistry.meta[o].active
  since,          \* OrderRegistry.meta[o].inserted_at_secs
  indexes,        \* InvertedIndexes
  matrix,         \* PPSMatrix: the slots of every row
  pairs,          \* ComputeEngine.pairs, without their order
  shown,          \* the published ReadBuffer: the row of every pair it ranks
  now             \* the clock, in seconds

registry == <<active, since>>
vars == <<impl, active, since, indexes, matrix, pairs, shown, now>>

BaseRows == 0 .. NumPPS - 1

Pair(p, b) == [pps |-> p, tag |-> b]

(* main: a pair for every PPS and BinTag; a PPS is numbered from 0 in       *)
(* rust-impl and from 1 in go-pure-impl.                                    *)
PpsIds == IF impl = "rust" THEN BaseRows ELSE 1 .. NumPPS
FirstPps == IF impl = "rust" THEN 0 ELSE 1

NoScore == [state |-> "unranked"]
Score(s) == [state |-> "ranked", score |-> s]

Init ==
  /\ impl \in {"rust", "pure"}
  /\ active = [o \in Orders |-> FALSE]
  /\ since = [o \in Orders |-> 0]
  /\ indexes = EmptyIndexes
  /\ matrix = [r \in BaseRows |-> [o \in Orders |-> 0]]
  /\ pairs = [pps : PpsIds, tag : Tags]
  /\ shown = [pr \in pairs |-> [o \in Orders |-> NoScore]]
  /\ now = 1

-----------------------------------------------------------------------------
(* What the two implementations do differently *)

(* clampInt16 stops at -32767; the casts of rust-impl use the whole type. *)
Saturate(i, v) == IF i = "rust" /\ v < ScoreMin THEN ScoreMin - 1 ELSE Clamp(v)

(* saturating_add of a delta that was clamped first *)
RustMoved(score, listings, diff) ==
  Saturate("rust", score + Saturate("rust", Delta(listings, diff)))

MovedBy(score, listings, diff) ==
  IF impl = "rust" THEN RustMoved(score, listings, diff) ELSE Moved(score, listings, diff)

Remove(ix, S) == IF impl = "rust" THEN RetainOthers(ix, S) ELSE RemoveOrders(ix, S)

(* The matrix row a pair is ranked by. *)
RowOf(p) ==
  IF impl = "rust" THEN p
  ELSE IF p \in 1 .. NumPPS THEN p - 1 ELSE p % NumPPS

NoneListed(ix, b) == \A o \in Orders : ix.byTag[b][o] = 0

(* Plausible bug: the fallback tops up a list that is short. *)
EligibleToppedUp(ix, b, o) == ix.byTag[b][o] > 0 \/ impl = "pure"

(* The orders a pair is ranked from, before those not active are skipped. *)
Eligible(ix, b, o) == ix.byTag[b][o] > 0 \/ (impl = "pure" /\ NoneListed(ix, b))

-----------------------------------------------------------------------------
(* The matrix *)

(* Plausible bugs: the loop ends one row early, or at the rows of the start. *)
EvictFirstRows(m, S) ==
  [r \in DOMAIN m |-> [o \in Orders |->
     IF o \in S /\ r < Cardinality(DOMAIN m) - 1 THEN 0 ELSE m[r][o]]]
EvictBaseRows(m, S) ==
  [r \in DOMAIN m |-> [o \in Orders |-> IF o \in S /\ r \in BaseRows THEN 0 ELSE m[r][o]]]

(* PPSMatrix::evict_order, for every order of S *)
EvictSlots(m, S) == [r \in DOMAIN m |-> [o \in Orders |-> IF o \in S THEN 0 ELSE m[r][o]]]

(* Ingestion writes the rows there were at the start: main of rust-impl     *)
(* loops to NUM_PPS; the matrix of go-pure-impl has no others.              *)
WriteBase(m, o, v) ==
  [r \in DOMAIN m |-> IF r \in BaseRows THEN [m[r] EXCEPT ![o] = v] ELSE m[r]]

(* phase1_update *)
MoveAll(m, ix, diff) ==
  [r \in DOMAIN m |-> [o \in Orders |-> MovedBy(m[r][o], Listings(ix, o), diff)]]

(* Plausible bug: orders that are no longer active are not skipped. *)
RankListed(isActive, ix, m) ==
  [pr \in pairs |-> [o \in Orders |->
     IF Eligible(ix, pr.tag, o) THEN Score(m[RowOf(pr.pps)][o]) ELSE NoScore]]

(* phase2_rank *)
RankPairs(isActive, ix, m) ==
  [pr \in pairs |-> [o \in Orders |->
     IF isActive[o] /\ Eligible(ix, pr.tag, o) THEN Score(m[RowOf(pr.pps)][o]) ELSE NoScore]]

-----------------------------------------------------------------------------
(* The ingestion of main, and IngestOrder of go-pure-impl. *)
IngestOrder(o, e) ==
  /\ active' = [active EXCEPT ![o] = TRUE]
  /\ since' = [since EXCEPT ![o] = now]
  /\ indexes' = List(Remove(indexes, {o}), o, e)
  /\ matrix' = WriteBase(matrix, o, Saturate(impl, e.base))
  /\ UNCHANGED <<impl, pairs, shown, now>>

(* handle_order_removed, which returns early when the order is not active. *)
EvictOrder(o) ==
  /\ active[o]
  /\ active' = [active EXCEPT ![o] = FALSE]
  /\ since' = [since EXCEPT ![o] = 0]
  /\ indexes' = Remove(indexes, {o})
  /\ matrix' = EvictSlots(matrix, {o})
  /\ UNCHANGED <<impl, pairs, shown, now>>

Deactivate(o) ==
  /\ active' = [active EXCEPT ![o] = FALSE]
  /\ UNCHANGED <<impl, since, indexes, matrix, pairs, shown, now>>

(* Plausible bug: the orders that expire in a cycle are kept until the next. *)
NoneExpired == {}

(* The orders purge_expired evicts. *)
Expired == {o \in Orders : active[o] /\ since[o] > 0 /\ now - since[o] > TTL}

(* run_cycle_with_dict: purge, phase 1, phase 2 and publish. *)
RunCycleWithDict(diff) ==
  LET kept == Remove(indexes, Expired)
  IN  /\ active' = [o \in Orders |-> active[o] /\ o \notin Expired]
      /\ since' = [o \in Orders |-> IF o \in Expired THEN 0 ELSE since[o]]
      /\ indexes' = kept
      /\ matrix' = MoveAll(EvictSlots(matrix, Expired), kept, diff)
      /\ shown' = RankPairs(active', kept, matrix')
      /\ UNCHANGED <<impl, pairs, now>>

(* Plausible bug: the matrix grows to pps_id rows. *)
AddPairShortGrowth(pr) ==
  /\ impl = "rust"
  /\ pairs' = pairs \cup {pr}
  /\ matrix' = [r \in DOMAIN matrix \cup 0 .. pr.pps - 1 |->
                  IF r \in DOMAIN matrix THEN matrix[r] ELSE [o \in Orders |-> 0]]
  /\ UNCHANGED <<impl, registry, indexes, shown, now>>

(* handle_add_pair of rust-impl: the matrix gets the rows it needs, all     *)
(* zero.  In go-pure-impl the handler changes nothing of what is kept here. *)
HandleAddPair(pr) ==
  /\ impl = "rust"
  /\ pairs' = pairs \cup {pr}
  /\ matrix' = [r \in DOMAIN matrix \cup 0 .. pr.pps |->
                  IF r \in DOMAIN matrix THEN matrix[r] ELSE [o \in Orders |-> 0]]
  /\ UNCHANGED <<impl, registry, indexes, shown, now>>

(* handle_remove_pair; the matrix keeps its rows.  A bound: the pairs of    *)
(* the first PPS stay, so that there is always a row to look at.            *)
HandleRemovePair(pr) ==
  /\ pr.pps # FirstPps
  /\ pairs' = pairs \ {pr}
  /\ UNCHANGED <<impl, registry, indexes, matrix, shown, now>>

Tick ==
  /\ now < MaxNow
  /\ now' = now + 1
  /\ UNCHANGED <<impl, registry, indexes, matrix, pairs, shown>>

Next ==
  \/ \E o \in Orders :
       \/ \E e \in Events : IngestOrder(o, e)
       \/ EvictOrder(o)
  \/ \E o \in Deactivatable : Deactivate(o)
  \/ \E diff \in Diffs : RunCycleWithDict(diff)
  \/ \E pr \in NewPairs : HandleAddPair(pr)
  \/ \E pr \in pairs : HandleRemovePair(pr)
  \/ Tick

Spec == Init /\ [][Next]_vars

-----------------------------------------------------------------------------
(* Types: a slot stays within the range of its implementation, and every    *)
(* pair that is ranked has a row.                                           *)
TypeOK ==
  /\ impl \in {"rust", "pure"}
  /\ active \in [Orders -> BOOLEAN]
  /\ since \in [Orders -> Nat]
  /\ indexes \in Indexes /\ Agree(indexes)
  /\ BaseRows \subseteq DOMAIN matrix
  /\ \A r \in DOMAIN matrix : \A o \in Orders : Saturate(impl, matrix[r][o]) = matrix[r][o]
  /\ \A pr \in pairs : RowOf(pr.pps) \in DOMAIN matrix
  /\ now \in Nat \ {0}

(* The rows there were at the start agree on every order, through ingestion, *)
(* expiry and growth: it does not matter that go-pure-impl ranks a PPS it    *)
(* does not know by the row of another.                                      *)
RowsAgree == \A r \in BaseRows : matrix[r] = matrix[0]

(* An order that is not live is in no list and leaves its slot zero in every *)
(* row, those added at run time included.                                    *)
DeadLeaveNothing ==
  \A o \in Orders \ Deactivatable :
    ~active[o] => /\ \A t \in Tpids : indexes.byTpid[t][o] = 0
                  /\ \A b \in Tags : indexes.byTag[b][o] = 0
                  /\ \A r \in DOMAIN matrix : matrix[r][o] = 0

(* Whatever the fallback shows, an order eligible for the BinTag comes       *)
(* first: every live one is shown, and an order that is not eligible only    *)
(* where no live order is.                                                   *)
EligibleFirst ==
  [][shown' # shown =>
       \A pr \in DOMAIN shown' :
         LET eligible == {o \in Orders : active'[o] /\ indexes'.tagsOf[o][pr.tag] > 0}
             ranked   == {o \in Orders : shown'[pr][o] # NoScore}
         IN  /\ eligible \subseteq ranked
             /\ ranked # eligible => eligible = {} /\ \A o \in ranked : active'[o]]_vars

(* The orders as the pairs of the first PPS show them. *)
Book == INSTANCE OrderBook WITH
          book <- [o \in Orders |->
                     IF active[o] THEN [state |-> "live", tpids |-> indexes.tpidsOf[o],
                                        tags |-> indexes.tagsOf[o], score |-> matrix[0][o],
                                        since |-> since[o]]
                     ELSE [state |-> "none"]],
          shown <- [b \in Tags |-> shown[Pair(FirstPps, b)]],
          clock <- now,
          Moved <- RustMoved,
          Contents <- {[tpids |-> e.tpids, tags |-> e.tags, score |-> Saturate("rust", e.base)] : e \in Events}

(* rust-impl is the book of live orders as well, with its own arithmetic and *)
(* its own removal from lists, while rows and pairs come and go.             *)
RustKeepsBook == [][impl = "rust" => [Book!Next]_(Book!vars)]_vars

=============================================================================
