---------------------------- MODULE PairRanking ----------------------------
(***************************************************************************)
(* The four lists of one (PPS, BinTag) pair over the life of its orders:   *)
(* what the numbers in them mean, and what that does to the ranking.       *)
(*                                                                         *)
(* Contributions and base scores are floats; the matrix keeps them scaled  *)
(* and cut to integers, the base once and every change of a contribution   *)
(* on its own: no contribution is ever stored.  Scores are taken here in   *)
(* units fine enough to hold the floats: Unit of them make one unit of a   *)
(* slot.  A slot saturates, and what it could not hold is lost for good.   *)
(* Deadlines are 64-bit seconds, and rank by a difference that is cut to   *)
(* 32 bits, here to -Half .. Half - 1.                                     *)
(*                                                                         *)
(* The four implementations rank alike but for the threshold of the Large  *)
(* list, the order of ties, and the scratch arrays of Kotlin.  The orders  *)
(* are the ones eligible for the pair; the snapshots of Kotlin are taken   *)
(* before every cycle (FrozenStore has the other callers).                 *)
(***************************************************************************)
EXTENDS ScoreArith, Sequences

CONSTANTS
  Impls,        \* the implementations a run is about; the two of Go rank alike
  Orders,       \* the slots of the registry, by number
  Events,       \* the contents each order may be ingested with
  Contribs,     \* the contributions of an item type, in fine units
  Unit,         \* fine units to a unit of a slot
  TopK,         \* TOP_K, the length of a list
  Threshold,    \* LARGE_QTY_THRESHOLD
  Cutoff,       \* CRITICAL_CUTOFF_SECS
  Half,         \* half the numbers a deadline score can be, 2^31 in the code
  MaxTime,      \* a bound on the clock
  MaxUpdates    \* a bound on the updates an order goes through

NotLive == [listed |-> 0]

(* An event may name an item type, or the BinTag of the pair, more than     *)
(* once: tpids and listed count the times.  A deadline of zero or less is   *)
(* none.                                                                    *)
OrderMeta == [qty : Nat, deadline : Int, base : Nat, tpids : Bag(Tpids), listed : Nat \ {0}]

ASSUME RankingAssumption ==
  /\ Impls \subseteq {"rust", "go", "kotlin"}
  /\ Orders \subseteq Nat /\ IsFiniteSet(Orders)
  /\ \A o \in Orders : Events[o] \subseteq OrderMeta
  /\ Contribs \subseteq Int /\ Contribs # {}
  /\ {Unit, TopK, Half} \subseteq Nat \ {0}
  /\ {Threshold, Cutoff, MaxTime, MaxUpdates} \subseteq Nat

Tables == {"heuristic", "large", "pbt", "critical"}

VARIABLES
  impl,         \* the implementation that runs
  contrib,      \* MockItemDictClient.tpidScores: the item dictionary
  meta,         \* OrderMeta of the live orders with their index entries
  slot,         \* the score of each order in the matrix row of the PPS
  delta,        \* phase1Update: what the entries of an update add to each slot
  now,          \* the time the last cycle read
  lists,        \* the four lists in the published buffer
  stage,        \* "idle", "updating", "ranking", or "failed": the cycle has thrown
  origin,       \* history: the base, less the contributions at ingestion
  updates,      \* history: entries added to the slot since the order was ingested
  cut,          \* history: the ends of the range the slot was cut at since then
  same          \* history: orders nothing happened to since the last cycle

history == <<origin, updates, cut, same>>
vars == <<impl, contrib, meta, slot, delta, now, lists, stage, history>>

Live == {o \in Orders : meta[o] # NotLive}

(* The cast of a float to an integer drops the fraction. *)
Trunc(x) == IF x >= 0 THEN x \div Unit ELSE -((-x) \div Unit)

(* The cast of a 64-bit integer to a deadline score. *)
Wrap(x) == ((x + Half) % (2 * Half)) - Half

ContribSum(tpids) == Delta(tpids, contrib)

(* Go keeps its slots from -32767 up, the others from -32768.               *)
Lowest == IF impl = "go" THEN ScoreMin ELSE ScoreMin - 1

Stored(v) == IF v > ScoreMax THEN ScoreMax ELSE IF v < Lowest THEN Lowest ELSE v

(* rust-impl cuts the delta to 16 bits before it adds it.                   *)
Applied(score, d) == Stored(score + (IF impl = "rust" THEN Stored(d) ELSE d))

(* The ends of the range a number lies beyond. *)
Beyond(v) == (IF v > ScoreMax THEN {"above"} ELSE {}) \cup (IF v < Lowest THEN {"below"} ELSE {})

Init ==
  /\ impl \in Impls
  /\ contrib \in [Tpids -> Contribs]
  /\ meta = [o \in Orders |-> NotLive]
  /\ slot = [o \in Orders |-> 0]
  /\ delta = [o \in Orders |-> 0]
  /\ now = 0
  /\ lists = [t \in Tables |-> << >>]
  /\ stage = "idle"
  /\ origin = [o \in Orders |-> 0]
  /\ updates = [o \in Orders |-> 0]
  /\ cut = [o \in Orders |-> {}]
  /\ same = Orders

-----------------------------------------------------------------------------
(* Which orders a list is drawn from, and by what it ranks them *)

IsLarge(o) ==
  IF impl = "rust" THEN meta[o].qty > Threshold ELSE meta[o].qty >= Threshold

HasDeadline(o) == meta[o].deadline > 0

(* A bug for the mutation run: what is overdue is no longer critical. *)
IsDueSoon(o, t) == HasDeadline(o) /\ meta[o].deadline \in t .. t + Cutoff

(* An overdue order is as critical as one that is due soon. *)
IsCritical(o, t) == HasDeadline(o) /\ meta[o].deadline <= t + Cutoff

Candidates(table, t) ==
  CASE table = "heuristic" -> Live
    [] table = "large"     -> {o \in Live : IsLarge(o)}
    [] table = "pbt"       -> {o \in Live : HasDeadline(o)}
    [] table = "critical"  -> {o \in Live : IsCritical(o, t)}

(* int32(nowSecs - deadline).  Kotlin packs the negated score above the     *)
(* order ID and sorts upwards; the negation wraps as well.                  *)
DeadlineKey(o, t) ==
  LET score == Wrap(t - meta[o].deadline)
  IN  IF impl = "kotlin" THEN -Wrap(-score) ELSE score

(* A bug for the mutation run: the Critical list ranks by score. *)
KeyOfScore(table, o, t) == IF table = "pbt" THEN DeadlineKey(o, t) ELSE slot[o]

Key(table, o, t) ==
  IF table \in {"pbt", "critical"} THEN DeadlineKey(o, t) ELSE slot[o]

(* A bug for the mutation run: Kotlin packs the score and not its negation. *)
OutranksUnnegated(table, o, p, t) ==
  IF impl = "kotlin" THEN Key(table, o, t) < Key(table, p, t)
  ELSE Key(table, o, t) > Key(table, p, t)

(* Ties fall as they may, in Kotlin to the lower order ID. *)
Outranks(table, o, p, t) ==
  \/ Key(table, o, t) > Key(table, p, t)
  \/ impl = "kotlin" /\ Key(table, o, t) = Key(table, p, t) /\ o < p

-----------------------------------------------------------------------------
Times(s, o) == Cardinality({i \in DOMAIN s : s[i] = o})

Entries(S) == SumFunctionOnSet([o \in S |-> meta[o].listed], S)

(* fill_topk_desc, quickselectAndCopy, packTopKAndCopy: the best entries in *)
(* order.  An order listed twice has two entries.                           *)
TopEntries(table, t) ==
  LET S == Candidates(table, t)
      n == IF Entries(S) < TopK THEN Entries(S) ELSE TopK
  IN  {s \in [1 .. n -> S] :
         /\ \A i, j \in 1 .. n : i < j => ~Outranks(table, s[j], s[i], t)
         /\ \A o \in S :
              /\ Times(s, o) <= meta[o].listed
              /\ Times(s, o) < meta[o].listed => \A i \in 1 .. n : ~Outranks(table, o, s[i], t)}

-----------------------------------------------------------------------------
(* Plausible bugs, for the mutation runs. *)

(* The packed arrays of Kotlin have one entry less. *)
ShortScratch == Entries(Live) < Cardinality(Orders)

(* Kotlin keeps its delta from cycle to cycle, and does not clear it.        *)
StaleDelta ==
  /\ stage = "updating"
  /\ slot' = [o \in Orders |-> Applied(slot[o], delta[o])]
  /\ cut' = [o \in Orders |-> cut[o] \cup Beyond(slot[o] + delta[o])]
  /\ delta' = IF impl = "kotlin" THEN delta ELSE [o \in Orders |-> 0]
  /\ stage' = "ranking"
  /\ UNCHANGED <<impl, contrib, meta, now, lists, origin, updates, same>>

-----------------------------------------------------------------------------
(* IngestOrder, of a new order or of one that is live. *)
Ingest(o, e) ==
  /\ stage = "idle"
  /\ meta' = [meta EXCEPT ![o] = e]
  /\ slot' = [slot EXCEPT ![o] = Stored(Trunc(e.base))]
  /\ origin' = [origin EXCEPT ![o] = e.base - ContribSum(e.tpids)]
  /\ updates' = [updates EXCEPT ![o] = 0]
  /\ cut' = [cut EXCEPT ![o] = Beyond(Trunc(e.base))]
  /\ same' = same \ {o}
  /\ UNCHANGED <<impl, contrib, delta, now, lists, stage>>

(* EvictOrder, on an event or because the order expired. *)
Evict(o) ==
  /\ stage = "idle"
  /\ o \in Live
  /\ meta' = [meta EXCEPT ![o] = NotLive]
  /\ slot' = [slot EXCEPT ![o] = 0]
  /\ origin' = [origin EXCEPT ![o] = 0]
  /\ updates' = [updates EXCEPT ![o] = 0]
  /\ cut' = [cut EXCEPT ![o] = {}]
  /\ same' = same \ {o}
  /\ UNCHANGED <<impl, contrib, delta, now, lists, stage>>

(* The times an order is listed under t: none when it is not live. *)
Needs(o, t) == IF o \in Live THEN meta[o].tpids[t] ELSE 0

(* One entry of an update: in Fetch the contribution of t becomes v, and    *)
(* phase1Update cuts the difference and adds it to the delta of every order  *)
(* listed under t, once for each listing.                                   *)
Fetch(t, v) ==
  /\ stage \in {"idle", "updating"}
  /\ v # contrib[t]
  /\ \A o \in Orders : updates[o] + Needs(o, t) <= MaxUpdates
  /\ contrib' = [contrib EXCEPT ![t] = v]
  /\ delta' = [o \in Orders |-> delta[o] + Needs(o, t) * Trunc(v - contrib[t])]
  /\ updates' = [o \in Orders |-> updates[o] + Needs(o, t)]
  /\ stage' = "updating"
  /\ UNCHANGED <<impl, meta, slot, now, lists, origin, cut, same>>

(* The deltas are applied to the row, all entries of the update at once.    *)
Phase1 ==
  /\ stage = "updating"
  /\ slot' = [o \in Orders |-> Applied(slot[o], delta[o])]
  /\ cut' = [o \in Orders |-> cut[o] \cup Beyond(slot[o] + delta[o])
                                \cup (IF impl = "rust" THEN Beyond(delta[o]) ELSE {})]
  /\ delta' = [o \in Orders |-> 0]
  /\ stage' = "ranking"
  /\ UNCHANGED <<impl, contrib, meta, now, lists, origin, updates, same>>

(* A cycle without an update, or with one that changes nothing. *)
NoUpdate ==
  /\ stage = "idle"
  /\ stage' = "ranking"
  /\ UNCHANGED <<impl, contrib, meta, slot, delta, now, lists, history>>

(* The packed arrays of Kotlin have an entry for every order; the slices of  *)
(* the other implementations grow.                                           *)
ScratchSuffices == impl # "kotlin" \/ Entries(Live) <= Cardinality(Orders)

(* Phase 2 and Publish, at the time t the cycle read. *)
Rank(t) ==
  /\ stage = "ranking"
  /\ ScratchSuffices
  /\ \E h \in TopEntries("heuristic", t), l \in TopEntries("large", t),
        p \in TopEntries("pbt", t), c \in TopEntries("critical", t) :
       lists' = [heuristic |-> h, large |-> l, pbt |-> p, critical |-> c]
  /\ now' = t
  /\ same' = Orders
  /\ stage' = "idle"
  /\ UNCHANGED <<impl, contrib, meta, slot, delta, origin, updates, cut>>

(* An entry past the end of an array: the task throws, and main ends. *)
RankThrows ==
  /\ stage = "ranking"
  /\ ~ScratchSuffices
  /\ stage' = "failed"
  /\ UNCHANGED <<impl, contrib, meta, slot, delta, now, lists, history>>

Next ==
  \/ \E o \in Orders : Evict(o) \/ \E e \in Events[o] : Ingest(o, e)
  \/ \E t \in Tpids, v \in Contribs : Fetch(t, v)
  \/ Phase1
  \/ NoUpdate
  \/ \E t \in now .. MaxTime : Rank(t)
  \/ RankThrows

Spec == Init /\ [][Next]_vars

-----------------------------------------------------------------------------
(* The deadlines the cast of a difference does not change in meaning. *)
Near(o, t) == HasDeadline(o) => t - meta[o].deadline \in 1 - Half .. Half - 1

AllNear(t) == \A o \in Live : Near(o, t)

Listed(s) == {s[i] : i \in DOMAIN s}

JustRanked == stage = "idle" /\ same = Orders

(* The lists of a buffer tell one story: the Critical list is the head of   *)
(* the PBT list (up to orders due at the same second), as long as no live   *)
(* deadline is farther from the clock than the cast can hold, and an order  *)
(* of the Large list that scores above an entry of the Heuristic list is on *)
(* that list too.                                                           *)
ListsAgree ==
  JustRanked =>
    /\ AllNear(now) =>
         /\ Len(lists.critical) <= Len(lists.pbt)
         /\ \A i \in DOMAIN lists.critical :
              meta[lists.critical[i]].deadline = meta[lists.pbt[i]].deadline
    /\ \A o \in Listed(lists.large), p \in Listed(lists.heuristic) :
         slot[o] > slot[p] => o \in Listed(lists.heuristic)

(* An urgent order stays until it is dealt with: from one buffer to the next *)
(* an order leaves the Critical list only when it was evicted or ingested   *)
(* again, or when the list is full of orders due no later.                  *)
UrgentStays ==
  [][stage = "ranking" /\ stage' = "idle" /\ AllNear(now') =>
       \A o \in Listed(lists.critical) \cap same \cap Live :
         \/ o \in Listed(lists'.critical)
         \/ /\ Len(lists'.critical) = TopK
            /\ \A p \in Listed(lists'.critical) : meta[p].deadline <= meta[o].deadline]_vars

(* The score of an order is its base and what the contributions of its item *)
(* types have changed since it was ingested, once for each listing.         *)
Defined(o) == origin[o] + ContribSum(meta[o].tpids)

(* How far a slot strays from the score its order has by definition.  Every *)
(* entry of an update is cut to an integer on its own: each strays by less   *)
(* than a unit, and so does the base.                                       *)
Strayed(o) == slot[o] * Unit - Defined(o)

Allowed(o) == Unit * (updates[o] + 1)

(* The differences add up to the contributions of now, although no slot     *)
(* holds one: the slot of an order is off by less than one unit for the     *)
(* base and one for every entry, once the cycle has applied them.  Only      *)
(* saturation takes it farther, and one way: a slot that was cut at the top *)
(* may say too little and never too much, and at the bottom too much and    *)
(* never too little, whatever is added to it afterwards.                    *)
DriftBounded ==
  stage # "updating" =>
    \A o \in Live :
      /\ "below" \notin cut[o] => Strayed(o) < Allowed(o)
      /\ "above" \notin cut[o] => -Strayed(o) < Allowed(o)

(* The ranking is right up to the drift: of two orders whose defined scores *)
(* are farther apart than both may have strayed, the worse one is never     *)
(* listed without the better one before it, unless the better one lost      *)
(* something at the top of the range or the worse one at the bottom.        *)
RankingHonest ==
  JustRanked =>
    \A o, p \in Live :
      (/\ Defined(o) - Defined(p) >= Allowed(o) + Allowed(p)
       /\ "above" \notin cut[o] /\ "below" \notin cut[p]) =>
        \A j \in DOMAIN lists.heuristic :
          lists.heuristic[j] = p => \E i \in 1 .. j : lists.heuristic[i] = o

(* Kotlin: only an order that names the BinTag more than once can overflow  *)
(* the packed arrays, however many orders there are.                        *)
ThrowsOnRepeats ==
  stage = "failed" => \E o \in Live : meta[o].listed > 1

=============================================================================
