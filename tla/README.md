# Priority Service: specifications

This directory holds TLA+ specifications of the Priority Service of this
repository: four implementations (`src/rust-impl`, `src/go-cgo-impl`,
`src/go-pure-impl`, `src/java_kotlin`) of one design, described in
`src/README.md`. For every picking station (PPS) and bin tag the service keeps
four ranked lists of orders, recomputed by a compute cycle, and answers
`GetTopK` from an immutable snapshot while the next one is being made.

Everything is translated from the source. Where the four implementations have
the same code there is one definition; where they differ, they have modules of
their own. The modules model the control of the code (guards, early returns,
the order of steps, what runs concurrently) and keep of the data only what the
properties tell apart. `PROJECT.json` maps every definition to its lines.

## 1. The system

| Component | State | Operations | Talks to |
|---|---|---|---|
| Compute engine (`ComputeEngine`) | `pairs` in rank order, `pending_warmup`, the stores below | `handle_add_pair`, `handle_remove_pair`, `run_cycle` (purge, phase 1, phase 2, publish, promote) | writes the topology, the double buffer and the matrix |
| Topology (`TopologyState`) | one immutable map from pair to WarmingUp / Active / Removed behind an atomic reference | `AddWarmingUp`, `Activate`, `Remove` by copy-on-write; `Get` by one load | written by the engine, read by the server |
| Double buffer (`DoubleBuffer`, `ReadBuffer`) | a pointer to the current snapshot | `Publish`, `Load`, `GetList` | written by the cycle, read by the server |
| Server (`PriorityServer`) | `pair_index`: the row of each pair | `GetTopK`, `RefreshPairIndex` | reads topology, then index, then buffer |
| Order registry (`OrderRegistry`) | a flat array of order metadata, with the time of insertion | `Upsert`, `Deactivate`, `EvictOrder`, `PurgeExpired` | evictions also change indexes and matrix |
| Inverted indexes (`InvertedIndexes`) | item type to orders, bin tag to orders, and two reverse maps; frozen copies in Kotlin | `AddOrder`, `RemoveOrder`; `materialize` in Kotlin | read by both phases |
| Score matrix (`PPSMatrix`) | one int16 for every PPS and order | phase 1 adds a delta and clamps; ingestion sets a slot; eviction zeroes it | read by phase 2 |
| Ranking | four scratch slices for a pair | what the Heuristic, Large, PBT and Critical lists are drawn from, and by what they rank | inside phase 2; reads registry, indexes, matrix |
| Selection | a scratch slice | quickselect, sort of the prefix, copy | inside phase 2 |
| Worker pool | one goroutine, future or rayon piece for a block of rows or pairs | phase 1, phase 2, the barrier after each | inside the cycle |
| Configuration | the number of workers, and settings of the runtime | `defaultResourceConfig`, `initFromEnv` | read when the engine is built |
| External systems | order events, the item dictionary with its contributions, gRPC | mocks in the repository | inputs of the models |

The engine is sequential: topology events, order events and cycles are handled
one after the other (`main` of each implementation). Concurrency comes from
the readers, which take no lock, from the goroutines inside a cycle, and from
`RefreshPairIndex`, which in Go and Kotlin may run beside the readers.

What is hard here, and what must hold:

- `GetTopK` takes three separate loads (status, index, buffer); the engine may
  add, remove, publish and promote between any two. An answer must be the row
  of the pair that was asked for, and what it shows must be the orders of the
  last cycle: none that was gone by then, and each one nothing happened to since.
- A pair goes WarmingUp, Active, Removed, and may be announced again, twice, or
  while it is served. A warming pair must be promoted by a later cycle, a
  served pair must have a row, a removed one must stay removed.
- The registry, four maps and the matrix describe the same orders, and change
  together on ingestion, re-ingestion, eviction and expiry. A dead order must
  leave nothing behind in a slot that the next order will use, and must never
  be shown.
- Kotlin ranks from snapshots of the indexes that its caller refreshes.
- Contributions are floats and slots are integers; only changes of a
  contribution reach a slot. A slot must stay near the score its order has by
  definition, and the lists must be right up to that.
- Deadlines are 64-bit seconds ranked by a difference cut to 32 bits, against a
  clock that goes on: what is urgent must stay on the lists.
- A partition must cover every row and pair exactly once for every number of
  workers that the configuration can give; phase 2 must not start before phase
  1 has finished; a published buffer must never be written again.
- In Kotlin a task may throw, and the tasks of that cycle run on: they must
  write into nothing that is shown.
- Quickselect must be right with ties and at the boundaries of k, and must end.
- Copy-on-write must not lose an update.

The hazards list of `PROJECT.json` gives each of these its line, the
properties that catch it, and, where there is none, the reason.

## 2. Modules

```
PairLifecycle <---- ServingRust ------\
                    ServingVariants ---+--> ServingCore --> PairLists
StatusMap    <----- TopologyCow
OrderBook    <----- OrderStore  -----\
             <----- MatrixStore -----+--> InvertedIndexes --> ScoreArith
                    FrozenStore (extends OrderStore)
MatrixStore  <----- ServiceRust (extends ServingRust and InvertedIndexes)
SnapshotBoard <---- RankPool
                    PairRanking      TopKSelect
```
`<--` is "implements": the left module is an abstract specification, and the
detailed one states it as a property through `INSTANCE ... WITH`; `-->` is
"extends". Each `MC...` module extends one specification with the values of its
constants for TLC. The theorems are in eight modules:

| Module | Theorems about |
|---|---|
| `Lists_proofs` | lemmas: lists of pairs, sums over finite sets |
| `ServingRust_proofs` | `ServingRust`, and `ServiceRust` |
| `ServingVariants_proofs` | `ServingVariants` |
| `InvertedIndexes_proofs` | lemmas on the operations of the four maps |
| `OrderStore_proofs` | `OrderStore` and `FrozenStore` |
| `MatrixStore_proofs` | `MatrixStore` |
| `Ranking_proofs` | `TopKSelect` and `PairRanking`, and how they meet |
| `Threads_proofs` | `RankPool` and `TopologyCow` |

`TopKSelect` and `TopologyCow` name their specifications `SelectSpec` and
`CowSpec`, so that these modules can extend two specifications at once.

### Serving: `ServingCore`, `ServingRust`, `ServingVariants`

`ServingCore` has the state and the steps all four share. `ServingRust` is
rust-impl. `ServingVariants` is the other three, whose removal leaves the
pair's pending promotions alone; its variable `impl`, chosen in `Init`, says
which of them runs. A mechanism one of them has alone is an action, or a
branch, guarded by `impl`.

`PairLists` has the lists the engine and the server keep their pairs in: what
is on a list, how a pair is filtered out (`Without`), and the row the index map
built from it gives a pair (`IndexRow`).

State: `topo` (TopologyState), `pairs` and `pending` (the engine), `numPps`
(rows of the matrix), `stage` (where the owner is in a cycle), `rows` (the
published buffer: which pair each row was ranked for), `index` (the server's
map), `rd` and `reply` (a call of each reader, and its last answer). The
content of a row is abstracted to the pair it was ranked for.

| Action | Code |
|---|---|
| `HandleAddPair`, `HandleRemovePair` | the handlers of the engine, every list they change. rust-impl also grows the matrix and forgets pending promotions; go-pure-impl does not extend the list |
| `RankAndPublish`; `RankCgo`, `RankPure`, `RankKotlin`, `RankFails` | phase 2 and `Publish`, and what happens to a pair whose PPS the matrix has no row for: a panic in rust-impl (never reached), memory behind the matrix or a fault in go-cgo-impl, another row in go-pure-impl, an exception out of the cycle in Kotlin |
| `Promote`, `EndCycle`; `PromoteAny`, `PromoteWarming`, `EndPromotion` | `promote_warming_pairs`, one pair at a time, since readers see each activation; go-pure-impl looks at the status and keeps the entries it does not use |
| `GetTopK` (`CheckStatus`, `LookUp`, `LoadRow`) | the three loads of a call, one step each. A faulted process answers nothing; in Kotlin calls go on after a cycle has thrown |
| `ExclusiveRefresh`, `RefreshFromEngine` | `RefreshPairIndex` with the engine's list. rust-impl takes `&mut self`, so no reader is under way; the others have no such exclusion |
| `RefreshWithNew` | what go-pure-impl's `main` passes instead: the slice it built the engine with, and the new pair |

go-pure-impl's `HandleRemovePair` filters into `Pairs[:0]`, the array under the
slice that `main` still holds. `mainPairs` is that slice: a removal writes the
shorter list over its front (`Overlaid`), so that it names the last pair twice.

Publication and promotion are separate steps. The steps before the
publication inside a cycle are one action with it: they change nothing a
reader sees, and the handlers cannot run between them.

`PairLifecycle` is the diagram of `src/README.md` section 7 with a snapshot: a
pair is served only from a snapshot that ranks it, and leaves Removed only by a
new announcement.

### Topology: `TopologyCow`, `StatusMap`

`AddWarmingUp`, `Activate` and `Remove` begin a call of a writer; then there is
one action for the lock, the load and copy, the store, and the unlock. `Locked`
is true for Go and Kotlin and false for rust-impl, whose writers number at most
one (an assumption of the module, as in `main.rs`: the engine owns the only
writer). `Guarded` is true for go-pure-impl, whose `Activate` returns early
unless the pair is warming up. `StatusMap` is a map in which each write is one
step.

### Orders: `ScoreArith`, `InvertedIndexes`, `OrderStore`, `MatrixStore`, `OrderBook`, `FrozenStore`

`ScoreArith` has the slot arithmetic and `InvertedIndexes` the four maps with
their operations, as operators on a record. `OrderStore` is go-cgo-impl. Its
state: `active`, `since` (registry), `indexes` (four maps; lists are bags, for
an event may name a bin tag twice), `column` (one slot of the matrix for every
order: all rows get the same additions), `ranked` (what the last cycle showed,
before the cut to TopK), `now`. Actions: `IngestOrder`, `EvictOrder`,
`Deactivate`, `RunCycleWithDict` (purge, phase 1, phase 2, publish), `Tick`.
A cycle is one action, because the registry and the indexes belong to the
same goroutine and readers see only the published buffer.

`OrderBook` is a table of live orders and what was last shown of them, without
reverse maps, slots or lists. `FrozenStore` adds the two snapshots of Kotlin
and the calls that take them; its cycle reads the snapshots. `UnitTestSpec` is
the caller of the unit test, which takes none.

`MatrixStore` is the order side of rust-impl and of go-pure-impl; the variable
`impl`, chosen in `Init`, says which of the two runs. It keeps every row of
the matrix and the pairs that are ranked, because that is where they differ:

| | rust-impl | go-pure-impl |
|---|---|---|
| removal from a list | `RetainOthers`: every occurrence | `RemoveOrders`: one for each reverse entry |
| a slot after a delta | `RustMoved`: the delta is saturated, then the sum | `Moved`: the sum is clamped |
| least score | the int16 minimum | one more than that |
| rows | `HandleAddPair` adds zero rows up to the new PPS | fixed |
| row of a PPS | its number | its number less one, else modulo |
| eligible orders | those listed for the BinTag | all, where none is listed |

Ingestion writes the rows of the start only (`WriteBase`), eviction all of
them (`EvictSlots`), as in the code. The book is read off row 0 and the pairs
of the first PPS, which `RowsAgree` makes the same as any other row of the
start.

### Both sides of rust-impl: `ServiceRust`

`ServiceRust` puts the two sides of rust-impl together. It extends `ServingRust`
and instantiates `MatrixStore` with the engine's own list as the pairs to rank;
where both modules model a handler, the step is a step of both (`AddPair`,
`RemovePair`, `RunCycle`), and where one of them does, the other stands still.
Orders are consumed and dropped, and pairs added and removed, between cycles
(`stage`), since one thread does all of it. `ReturnLists` is the last load of
`get_top_k` with what the row it finds holds (`answer`). `gone` and `settled` are
history variables: the orders that were not live in the last cycle and have not
been ingested since, and those that were live in it and nothing has happened to
since. The pairs of the start are every BinTag of every row of the matrix, as
`build_pairs` makes them, and the pairs of the first PPS are not withdrawn, for
`MatrixStore` reads its book off them.

That the whole keeps to both modules holds by construction and is no result:
every action is one of a module, or leaves its state alone. What is not by
construction is whether the two handlers of one step agree. Were they to ask
for different pairs to rank, the joint step would be disabled and nothing would
be seen; the lemma `HandlersAgree` shows that adding a pair to the engine's list
adds it to the set of the other module, and removing it removes it there, so
that each module's own handler alone decides. `SameBuffer` is the rest: the rows
that `handle_add_pair` counts (`num_pps`) are the rows it has made (`data`),
after any additions, and the lists a cycle published are those of the pairs it
ranked. `GoneNotReturned` and `SettledReturned` say what neither module can:
which orders a call returns.

### The lists of a pair: `PairRanking`

One pair, and the orders eligible for it, over the life of those orders.
`contrib` is the item dictionary: the mocks keep the
contributions and send the old and the new one (`Fetch`); go-pure-impl's sends a
change without keeping what it changes, which is the same as a dictionary that
moves by it. Scores are in fine units, `Unit`
of which make one unit of a slot. An update has any number of entries: `Fetch`
is one of them, cuts the change to an integer (`Trunc`) and adds it to the
`delta` of every order listed under the item type, once for each time its event
named the type (`tpids` is a bag). `Phase1` then applies the deltas to the row
and clears them. `Ingest` cuts the base likewise; no contribution is ever
stored.

A slot saturates (`Stored`, `Applied`): rust-impl brings the delta into 16 bits
first and the sum afterwards, the others the sum only; Go stops at -32767, the
others at -32768 (`Lowest`). What does not fit is lost for good: a later change
the other way is taken off in full. `cut` is the history of the ends of the
range at which something of an order was lost, and the two properties about
scores say what is left of them then: a slot that was cut at the top may be too
low by any amount, but never too high by more than the drift, and at the bottom
the other way round.

`Candidates` and `Key` say what each of the four lists is drawn from
and ranked by, with deadlines as differences wrapped to a signed integer of `2
* Half` values (`Wrap`; 32 bits in the code), which Kotlin negates once more.
`TopEntries` is the set of lists the selection may return: the best entries in
order, ties in any order (in Kotlin the lower order ID first), an order twice
if the event listed it twice. Kotlin packs candidates into arrays with one
entry for every order; `RankThrows` is the exception when that is too few.
`impl` chooses between the inclusive and the exclusive threshold of the Large
list, the ties and the arrays.

`origin`, `updates`, `cut` and `same` are history variables: the base less the
contributions at ingestion, the entries added to the slot since, the ends at
which it was cut, and the orders nothing happened to since the last cycle. No
action reads them; `updates` also serves the bound of the run.

### The cycle inside: `RankPool`, `TopKSelect`

`RankPool` runs a cycle as its tasks, in Go, Kotlin and rust-impl: the loop
that starts them (`Spawn`), one step for each row (`UpdateRow`) and each list
(`RankList`), the barriers (`BeginRank`, `Publish`), and readers that keep a
snapshot over several cycles (`Load`, `GetList`, `Return`). Buffers live in a
`heap`, so that a buffer that was published can be seen to change. The number
of workers is what `DefaultResourceConfig` and `InitFromEnv` make of the number
of cores, the number of pairs and the environment, or what another caller
passes; `NumW` is what the engine makes of it. rayon takes every row or pair as
a piece of its own. In Kotlin a task whose pair belongs to a PPS beyond the
matrix throws (`Throw`); the wait throws the first such exception (`Rethrow`)
and the cycle is over, while the other tasks of it run on (`stale`,
`RankStale`) in the buffer nobody will see, from a matrix the next cycle may be
changing.

`SnapshotBoard` is what all of this promises a reader: a table of versions that is
replaced as a whole (`Replace`), made of one version of the scores and never of an
older one than before; a call takes the lists of its pair at one moment and
reads what it took. `RankPool` implements it: tasks, failures, stale tasks and
buffers that are written list by list are stutters there, and `Publish` is
`Replace`.

`TopKSelect` is quickselect by single assignments: pivot, scan, placement,
narrowing, and the sort and copy. `shift` chooses between the targets of
go-cgo-impl and go-pure-impl. Kotlin searches as go-cgo-impl does, on entries
packed with their order and negated.

## 3. Runs

On two workers the runs take seconds to two and a half minutes each:
`serving_variants` more than two minutes, `service_rust`, `pair_ranking`,
`rank_pool` and `matrix_store` between one and a half and two.

| Run | Configuration | Shows |
|---|---|---|
| `service_rust` | `ServiceRust.cfg` | rust-impl as a whole. Its pairs: the answers of an unmoved pair, no stranded warm-up, the matrix is large enough, the lifecycle is implemented, every warm-up completes. With its orders: the matrix has the rows that are counted and the published lists are those of the published pairs, a call returns no order that is gone, and a settled order exactly where it is eligible |
| `serving_variants` | `ServingVariants.cfg` | go-cgo-impl, go-pure-impl, Kotlin: the answers of a pair that keeps its place, a served pair is never queued for promotion, a served pair keeps a row although cycles fail, every warm-up completes unless the cycles end |
| `cgo_activate` | `ServingVariantsActivate.cfg` | violation: a removed pair becomes Active |
| `pure_ranked` | `ServingVariantsRanked.cfg` | violation: an Active pair without a row |
| `cow_map` | `TopologyCow.cfg` | no lost update, every call returns |
| `order_store` | `OrderStore.cfg` | maps agree, dead orders leave nothing, the book is implemented, dead orders leave the rows |
| `matrix_store` | `MatrixStore.cfg` | rust-impl and go-pure-impl: the rows agree, dead orders leave no row anything, the fallback never displaces an eligible order, rust-impl implements the book |
| `frozen_store` | `FrozenStore.cfg` | stale snapshots never show a dead order; with fresh ones every step is one of the book |
| `kotlin_unfrozen` | `FrozenStoreUnfrozen.cfg` | violation: without a snapshot an eligible order is never ranked |
| `pair_ranking` | `PairRanking.cfg` | the four lists agree, an urgent order stays, drift is bounded in the direction a saturated slot leaves and the ranking right up to it, only repeated bin tags overflow Kotlin's arrays |
| `rank_pool` | `RankPool.cfg` | disjoint tasks, the barrier, complete publications, to its readers a cycle is one step, every cycle returns or throws |
| `top_k` | `TopKSelect.cfg` | the list is the best k, every step brings the search nearer to its end, it ends |

Bounds.

- `service_rust`: one PPS and two bin tags at the start, and both pairs of a
  second PPS announced at run time, the first of which is withdrawn again: so
  there are pairs before, at and behind a removal, a matrix that grows, and a
  row that was added later. One order, with an event for either bin tag,
  deactivated, evicted or expired: what is returned of an order does not depend
  on the others before the cut to TopK. TTL 0 and a clock to 2, so that an order
  expires while it is on a published list; scores 0 and 1, for only whether a
  list has an order matters. One reader, who asks for a pair of the start and for
  the one behind the removal; a second reader changes nothing, since readers
  share no state they write. The theorems cover any number of all of these.
- `serving_variants`: four pairs, three from the start, of which the middle one
  comes and goes, and a fourth of a PPS beyond the matrix that is announced. So
  there is a pair before the gap and one behind it, an entry of `mainPairs` that
  is written over, and a cycle that can fail. At most `MaxPending = 2` queued
  entries of a pair, so that a duplicate entry exists. The theorems have neither
  bound but `MaxPending`, which may be any number.
- Orders: two orders, one item type, two bin tags, two contents (one names a
  bin tag twice and has a base score out of range), TTL 1 and a clock to 3 or 4,
  so that an order can reach its TTL exactly, pass it and be ingested again;
  scores in -2 .. 2 (-3 .. 2 in Kotlin, whose range is the full int16) so that a
  delta saturates.
- `matrix_store`: two orders, one type, one tag, scores in -1 .. 1 (and -2 in
  rust-impl) with a delta of 3, which saturates before it is added; two rows and
  one pair of a third PPS, which is the least for a row added at run time; a
  clock to 3, and one event with no tag, so that the fallback applies.
- `pair_ranking`: three orders for lists of two, so that an order is left out;
  two fine units to a unit and contributions 0 and 15, so that every change is
  cut to 7, half a unit short; four entries for an order, so that drift adds up
  over two cycles, or two entries of one update. Slots from -4 (Go: -3) to 12: a
  change of 7 leaves that range from most bases, in both directions, and the 14
  of an order that names its item type twice is also more than rust-impl adds at
  once; one base is out of range when it is ingested. So a slot is cut at the
  top, at the bottom, at both in turn, and not at all. Deadlines within three
  bits, one of them too far from the clock at the start; a cutoff of 1 and a
  clock to 2, so that an order becomes critical and then overdue; quantities
  below, at and above the threshold; an event that lists its bin tag twice. The
  number of entries is `MaxUpdates`, a bound of the model that the theorems leave
  open.
- `rank_pool`: 0, 3 or 4 pairs and two PPS, among one worker (one core), two
  (the default of Go, when a caller passes 0 or 2) and three (the environment),
  and with the environment value -1, which is ignored: the last task is short,
  or a worker gets nothing, or there is nothing to rank; the pairs at positions
  1 and 2 may throw, so that one task throws before another has ended; two
  cycles, so that a reader holds a buffer over a publication and a stale task
  runs beside the next cycle.
- `top_k`: all slices of 0 to 6 entries with three scores, k = 3. `cow_map`: two
  pairs, two writers.

Deadlock is checked except where the system may stop: `rank_pool` after its
last cycle, `pair_ranking` when its arrays have overflowed, and
`serving_variants`, where the process may end with a fault.

Fairness. The engine is assumed to keep running cycles (`main` loops; a
deployment calls the cycle by a timer) and to finish a cycle it began, until one
fails; nothing is assumed of events, readers or refreshes. `UnitTestSpec` has the
same cycles. In `RankPool` every task that can run is eventually run, and the wait
for tasks that have ended, or thrown, goes on. In `TopologyCow` a thread inside
a call runs on, and the lock is strongly fair: `sync.Mutex` hands itself to a
waiter that has starved for a millisecond. In `TopKSelect` the code is
sequential and runs on.

Every property of a passing run comes with a mutant: a definition in the same
module, under "plausible bugs", that stands for an operation and makes TLC find
the property violated.

## 4. Findings

1. go-cgo-impl (`cgo_activate`; Kotlin has the same code): `HandleRemovePair`
   leaves `pendingWarmup` alone and `promoteWarmingPairs` activates whatever is
   in it. A pair added and removed before the next cycle ends as Active.
   rust-impl removes the entry, go-pure-impl looks at the status.
2. go-pure-impl (`pure_ranked`): `HandleAddPair` does not append to `Pairs`;
   the pair becomes Active and no cycle ever ranks it.
3. Kotlin (`kotlin_unfrozen`): phase 2 reads the frozen lists
   (`Compute.kt:222`), which are empty until `materialize` has been called. The
   unit test ingests, runs two cycles without it and expects a non-empty list
   (`ComputeTest.kt:46`).

Met while modelling, and not the subject of a run: in rust-impl a call that has
passed the status check is answered OK although its pair is removed before
the buffer is loaded (`server.rs:85-105`; `README.md:387` promises NotFound);
in go-cgo-impl, go-pure-impl and Kotlin the index and the buffer are refreshed
at two moments, so that after a removal, from the publication of the next
buffer until `RefreshPairIndex`, a pair behind the removed one is answered with
the row of its neighbour, or a slice past the end of the buffer (in Kotlin
`getList` throws likewise), which is why
`UnmovedOwnRow` speaks of the pairs no removal shifts; a row rust-impl adds at
run time starts at zero and no code seeds it (`compute.rs:216`, `main.rs:91`),
although `README.md:642` lists such a step (the theorem `StartPpsShowTheSame`
confines the difference to the PPS added at run time);
go-cgo-impl's matrix does not grow for a new PPS and `Row` does not check its
argument (`scoring_bridge.go:41`); go-pure-impl's `promoteWarmingPairs` keeps
entries that are not warming up for ever (`compute.go:372`), where
`README.md:390-392` speaks of draining the queue; an event that
names a bin tag twice lists its order twice (`registry.go:82`), although the
comment speaks of sets; the threshold of the Large list is exclusive in
rust-impl (`compute.rs:172`) and inclusive elsewhere; a deadline farther from
the clock than 32 bits of seconds wraps and ranks at the wrong end of the PBT
and Critical lists (`compute.go:344`), which `ListsAgree` and `UrgentStays`
exclude by `AllNear`.

A slot saturates, and the excess never comes back. rust-impl's own mock reaches
that: contributions in [0, 100) (`mock.rs:39`, `mock.rs:68`) times 100, over one
to five item types (`mock.rs:124`), are changes of up to 50000 in one cycle, to a
slot that ends at 32767 (`compute.rs:120`). After that an order is ranked by
less than the contributions say, for as long as it lives, whatever is added or
taken off again, and two orders at the end of the range tie however far apart
they should be. No document promises more; `DriftBounded` and `RankingHonest` say
exactly what is still true of such orders.

## 5. Proofs

TLAPS proves the following for every value of the constants, from the
assumptions named in the modules (`ServingAssumption`, `ServiceAssumption`,
`VariantsAssumption`, `CowAssumption`, `ScoreAssumption`, `OrderAssumption`,
`MatrixAssumption`, `RankingAssumption`, `SelectAssumption`, `PoolAssumption`)
and nothing else. Every invariant and every action property of the passing runs
is among them, and so are the refinements; `PROJECT.json` lists which theorem
states which. Some of what is proved no run checks, since a property of a run
implies it or says the same: `TypeOK` and `ActiveIsRanked` of `ServingRust` (the
refinement of the lifecycle), `CopyIsFresh` (`AtomicMap`) and `SnapshotUntorn` (`BoardImplemented`).

### Serving

- `ServingRust_proofs`: `TypeOK`, `NoStrandedWarmup`, `ActiveIsRanked`,
  `MatrixCoversPairs`, `UnmovedOwnRow` and `LifecycleImplemented`, for any
  pairs, readers, initial list and matrix size. The inductive invariant
  `LifecycleInv` adds to them that `pairs` has no repeats and is exactly the set
  of warming and active pairs, that every queued pair is on it, that during
  the promotion the buffer ranks exactly `pairs` (publish comes before
  activate), and that the matrix covers every pair of it. None of
  these follows from the properties alone: for instance an Active
  pair keeps its row over the next publication only because it is on `pairs`.
  `UnmovedInv` says that an unmoved pair has one and the same position in
  `pairs`, `rows` and `index`, wherever it occurs, and in a call under way.
  The refinement maps the buffer to the snapshot: `RankAndPublish` is `Snapshot`,
  `Promote` is `Serve`, the handlers `Announce` and `Withdraw`.
- `ServingRust_proofs`, the whole of rust-impl: `BuffersCoincide`,
  `GoneOrdersNotReturned` and `SettledOrdersReturned`. The lemma `ServiceServes`
  carries the results above over to it. `BuffersCoincide` states `SameBuffer`: the
  matrix has the rows the serving side counts, and the published lists are
  those of the published rows. `HandlersAgree` (by `PairsAdded` and
  `PairsRemoved`: a list without repeats and its set take and lose the same pair)
  says that the joint steps are not disabled by a disagreement of their two
  halves. `HistoryInv` is what the orders need: no published list has an order of
  `gone`, and an order of `settled` is on a published list exactly if it is
  listed for the BinTag of that pair. A handler that changes the indexes of an
  order takes it out of `settled` (`OthersKept`: it changes no other), and a
  cycle establishes both anew, because it ranks what is active and listed. For
  a pair no removal can shift, `UnmovedInv` makes the row the call ends at
  its own, so that the BinTag is that of the pair that was asked for.
- `ServingVariants_proofs`: `ServedNotQueued`, `ServedHasRow` and
  `UnmovedOwnRow`, for the three other implementations and any pairs, readers
  and matrix. `ServedHasRow` is not
  inductive: `RowsInv` adds that a pair that was announced and never withdrawn
  stays on the list to rank, and that during a promotion the buffer has a row for
  every pair of that list, so that a cycle that fails before it publishes has
  promoted nothing. For `UnmovedOwnRow`, `PlacesInv` says where the pairs of the
  start that no removal can shift are: at their first place in the engine's
  list, and in go-pure-impl also in the buffer and in main's own slice, which
  names each of them there and nowhere else, although the slice as a whole may
  come to name a pair twice. `AnswersInv` carries that place through the index and
  through a call under way. What ranks by memory that is not the matrix
  (go-cgo-impl) is no `Held` pair.

### Stores

- `InvertedIndexes_proofs`: what `RemoveOrders`, `List` and `AddOrder` do to
  indexes whose four maps agree, and `RetainIsRemove`: on such indexes
  the two ways of leaving a list give the same result, however often an order
  is in it. Without the agreement they do not.
- `OrderStore_proofs`, go-cgo-impl: `TypeOK` (a slot never leaves the range of
  a score), `IndexesAgree`, `DeadLeaveNothing` and `BookImplemented`,
  for any orders, types, tags, events, TTL and score range. The inductive
  invariant `StoreInv` is the types and the agreement of the four maps.
- `OrderStore_proofs`, Kotlin: `SnapshotKeepsLive`, `OnlyLiveRanked` and
  `BookWhenFresh`, for snapshots of any age and any caller. `FrozenInv` is
  `StoreInv` and `SnapshotKeepsLive` itself, which is inductive once the four
  maps are known to agree: a removal then takes nothing from the lists but the
  orders that leave. A fresh snapshot differs from the live indexes in no live
  order, so that the cycle that reads it adds the same deltas and ranks the
  same orders as the book.
- `MatrixStore_proofs`: `TypeOK`, `RowsAgree`, `DeadLeaveNothing`,
  `EligibleFirst` and `RustKeepsBook`,
  for any orders, events, pairs and number of rows, and for both values of
  `impl`. The inductive invariant `MatrixInv` adds to the agreement of the
  rows that of the four maps (by `RetainIsRemove` one argument serves both ways
  of removal), that the matrix still has its first rows, that the pairs of the
  first PPS are still ranked, that in rust-impl every pair has a row, that the
  slots are in the range of their own implementation (rust-impl uses one value
  more), and that an active order has a time of insertion,
  without which the purge would not be the expiry of the book.
  `StartPpsShowTheSame`: the pairs of one BinTag show the same scores for every
  PPS there was at the start, in both implementations.

### The lists of a pair

`Ranking_proofs` first proves the selection, then the ranking, then that one
is what the other takes it for.

- `SelectsTopK`: what quickselect, the sort and the copy leave is the list of
  the k best, for slices of any length, any scores with any ties, both targets,
  and any pivot. `SelectInv` is the textbook invariant made exact: the slice is
  a rearrangement of its entries; the range `lo .. hi` contains the target, and
  everything before it is at least, everything behind it at most, what is in it
  (`Parted` at both ends); inside a scan the two zones are on their sides of
  the pivot; where the search ends, the slice is parted at k.
- `DriftStaysBounded`: `DriftBounded`, for any contributions, item types named
  any number of times, any range and any number of updates. `DriftInv` is
  the property for the slot with the delta it is still owed, since only the two
  together follow the contributions inside an update. Each entry of an update
  adds at most a unit for each listing, since cutting to an integer moves a
  change by less (`TruncFacts`, `MoreCuts`, `SumMoves`). When the delta is applied,
  `AppliedFacts` says what saturation does in rust-impl's two cuts and in the one
  of the others: unless something was beyond the top the slot holds no less
  than the sum, and unless something was beyond the bottom no more. The sum over
  item types is a recursive definition of the community modules; `Lists_proofs`
  shows what it computes by induction over the subsets of a finite set, which
  are well founded by strict inclusion, and that it is additive.
- `ListsAreTop`: after a cycle, until something happens to an order, each list
  is one of those `TopEntries` allows (`RankedInv`). `RankingStaysHonest`
  follows from it and the drift: when the defined scores of two orders are
  farther apart than both drifts, and neither the better one was cut at the top
  nor the worse one at the bottom, their slots are strictly ordered, so that the
  better order comes first. `ListsTellOneStory` follows from it for the pairs of lists
  that share candidates: two lists of top entries of two sets, of which one is
  the part of the other that is due first, have the same deadlines entry by
  entry (by counting listings on either side), and the best of the large orders
  are among the best of all.
- `OnlyRepeatsThrow`: `ThrowsOnRepeats`: with one listing for each order, the
  sum of the listings is the number of candidates, which is at most the entries
  of the arrays.
- `UrgentOrdersStay`: `UrgentStays`. It needs `CriticalInv` beside `RankedInv`:
  an order of the Critical list that nothing happened to is still critical,
  since the clock only brings its deadline nearer; so the next cycle has it
  among the candidates and leaves it out only for orders due no later.
- `SelectionRanks`: where the scratch slice has an entry for every listing of a
  candidate, with its key, and `Limit` is `TopK`, the list the finished
  selection leaves is in `TopEntries`. So the choice `PairRanking` makes is not
  an assumption about the selection, for the selection of Go.
- `PackedSelectionRanks`: the same for Kotlin, whose entries are the key and the
  order ID in one number. With a cap above every order ID two entries are
  ordered by their keys first and by their IDs, the lower one first, where the
  keys are equal (`PackedApart`, `PackingRanks`), so that the order of ties
  `TopEntries` gives to Kotlin is what the selection does. (rust-impl calls its
  library; its ties are modelled in `TopEntries` only.)
- `SearchAlwaysDescends`: `SearchDescends`: for slices of any length and any
  pivots every step leaves a shorter range to search, or the same range in a
  later phase of the round, or, inside a scan, fewer slots to look at. None of
  these can fall for ever, which is why the search ends; `Terminates` itself is
  liveness and left to TLC.

### Threads

- `TopologyCow`: `CopyIsFresh` and `AtomicMap`, for any keys and writers that
  hold the lock, or a single one that does not. `CowInv` is that a writer past
  the lock is alone, its copy differs from the map in its own pair only, and
  what the guard of `Activate` saw still holds.
- `RankPool`, the split: `TasksDisjoint` and `MatrixUpdated`, for any number of
  rows, pairs, workers and cycles and any order of the tasks. `SplitInv` keeps
  every task within the items taken so far; `UpdateInv` says of each row
  whether it still waits for the update: nobody has taken it, or its task has
  not come to it. At the barrier nothing waits.
- `RankPool`, the buffers: `PublishedComplete` and `SnapshotUntorn`, over
  cycles that throw and tasks that run on after them. `WrittenInv` is
  `UpdateInv` for lists: a list of the new buffer waits, or has the version of
  this cycle. `OwnersInv` says who writes where: the tasks of the cycle into
  the last buffer, which is not the published one, the stale ones into a buffer
  that is neither that nor the published one; `ReadersInv` that no stale task
  has a buffer a reader holds, which is why it may keep it. Neither property is
  inductive without these three.
- `RankPool`, the refinement: `CyclesAreAtomic`: `RankPool` implements
  `SnapshotBoard`, for any number of readers, workers, pairs and cycles. It adds to
  the invariants above which version each published list is made from and what a
  call has read so far of the buffer it holds.

Only model-checked: the five liveness properties (`WarmupCompletes` of the two
serving specifications, `DeadLeaveRows`, `CycleEnds`, `Terminates`, `CallsReturn`),
since they rest on fairness, which is beyond the proof system; and the three
disagreements of section 4, which a counterexample settles. The theorems are
about the modules as they are: what section 6 leaves out they leave out too.

## 6. Not modelled

The garbage collector, the memory limit and the number of threads in the
configuration, which change no result; printing; the random generators and the
latencies of the mocks, the topology stream no program reads, and the transport;
the SLA flag; the sort and the selection of rust-impl's standard library, and
the work-stealing of rayon beyond the fact that pieces run in any order;
`ensureScratch`, which only sizes slices. go-pure-impl's mock takes the `Active`
flag of an event into the registry; nothing in the repository sends an
inactive event, and the models take it to be true. go-pure-impl's queue of pending
promotions is bounded by `MaxPending` in the models: that the code never
shortens it is described above, and no property states it. The delta a cycle
collects for an order is taken to fit 32 bits, which is the width the code adds
it up in: it is at most the changes of the item types of one event, times their
scale. The floats are taken to be exact: rounding below a fine unit is not
modelled.

## 7. What could come next

The serving path, the stores, the lists and the inside of a cycle are
modelled, and every safety property that is checked is proved. What is left:

1. Only rust-impl has its two sides composed. For the three others a composition
   would have to say what a row holds that is ranked by memory that is not the
   matrix (go-cgo-impl), by another row (go-pure-impl) or from old snapshots
   (Kotlin).
2. `ServiceRust` tells which orders a call returns before the cut to TopK. With
   the four lists of `PairRanking` in it, it would say in which order.
