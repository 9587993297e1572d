------------------------------ MODULE RankPool ------------------------------
(***************************************************************************)
(* One compute cycle as its tasks run it, and the readers of what it       *)
(* publishes: the goroutines of the two Go implementations ("go"), the     *)
(* futures of a ForkJoinPool ("kotlin") and the parallel iterators of      *)
(* rust-impl ("rust").                                                     *)
(*                                                                         *)
(* Phase 1 splits the rows of the score matrix among tasks, phase 2 the    *)
(* pairs; each phase waits for its tasks.  A buffer is written table by    *)
(* table, published by one store of a pointer, and read table by table.    *)
(*                                                                         *)
(* The matrix row of a PPS is abstracted to the number of updates applied  *)
(* to it, a ranked list to the row it was computed from, 0 for the -1s of  *)
(* a new buffer.                                                           *)
(***************************************************************************)
EXTENDS Integers, Sequences

CONSTANTS
  Impls,            \* the implementations a run is about
  NumPPS,           \* rows of the matrix
  PairCounts,       \* the numbers of pairs a cycle may find
  Cores,            \* logical CPUs
  EnvWorkers,       \* what PS_NUM_WORKERS may say, 0 when it says nothing
  CallerWorkers,    \* the values other callers of NewComputeEngine pass
  PairsPerPod,      \* the pairs of the start
  NumWorkers,       \* the package default of Go
  Tables,           \* the ranked lists of a pair
  Beyond,           \* positions whose pair may belong to a PPS beyond the matrix
  Readers,
  MaxCycles         \* the cycles main runs

ASSUME PoolAssumption ==
  /\ Impls \subseteq {"go", "kotlin", "rust"}
  /\ NumPPS \in Nat \ {0}
  /\ PairCounts \subseteq Nat
  /\ {Cores, NumWorkers} \subseteq Nat \ {0}
  /\ EnvWorkers \cup CallerWorkers \subseteq Int
  /\ PairsPerPod \in Nat
  /\ Tables \in Nat \ {0}
  /\ Beyond \subseteq Nat
  /\ MaxCycles \in Nat

VARIABLES
  impl,             \* the implementation that runs
  numWorkers,       \* ComputeEngine.numWorkers; of no use to rust-impl
  numPairs,         \* len(e.Pairs) in this cycle
  stage,            \* "idle", "phase1", "phase2", or "failed": the cycle threw
  tasks,            \* the tasks of this phase: next item, table, end, buffer
  stale,            \* tasks of earlier cycles that threw, still running
  version,          \* the updates handed to phase 1 so far
  matrix,           \* the updates each row has received
  heap,             \* every buffer allocated; the last one is being filled
  ptr,              \* DoubleBuffer.ptr
  rd                \* a call of GetTopK: its snapshot, its row, what it read

config == <<impl, numWorkers>>
engine == <<config, numPairs, stage, tasks, stale, version, matrix>>
buffers == <<heap, ptr>>
vars == <<impl, numWorkers, numPairs, stage, tasks, stale, version, matrix, heap, ptr, rd>>

-----------------------------------------------------------------------------
(* defaultResourceConfig: a worker for each core, if there are pairs enough. *)
DefaultResourceConfig ==
  LET workers == IF PairsPerPod < Cores THEN PairsPerPod ELSE Cores
  IN  IF workers < 1 THEN 1 ELSE workers

(* initFromEnv: a value that is no positive number is ignored. *)
InitFromEnv(env) == IF env > 0 THEN env ELSE DefaultResourceConfig

(* NewReadBuffer *)
EmptyBuffer(n) == [i \in 1 .. n |-> [t \in 1 .. Tables |-> 0]]

Idle == [buf |-> 0, row |-> 0, got |-> << >>]

Init ==
  /\ impl \in Impls
  /\ numWorkers \in IF impl = "rust" THEN {Cores}
                    ELSE {InitFromEnv(env) : env \in EnvWorkers} \cup CallerWorkers
  /\ numPairs \in PairCounts
  /\ stage = "idle"
  /\ tasks = << >>
  /\ stale = {}
  /\ version = 1
  /\ matrix = [p \in 0 .. NumPPS - 1 |-> 1]
  /\ heap = <<EmptyBuffer(numPairs)>>
  /\ ptr = 1
  /\ rd = [r \in Readers |-> Idle]

-----------------------------------------------------------------------------
(* The split *)

Items == IF stage = "phase1" THEN NumPPS ELSE numPairs

(* What is not positive is replaced, in Kotlin by the number of cores.       *)
(* Rayon hands out every row and every pair as a piece of its own.          *)
NumW ==
  LET asked == IF numWorkers > 0 THEN numWorkers
               ELSE IF impl = "kotlin" THEN Cores ELSE NumWorkers
  IN  IF impl = "rust" \/ asked > Items THEN Items ELSE asked

(* rowsPerWorker, pairsPerWorker *)
Chunk == (Items + NumW - 1) \div NumW

(* In Go the loop of phase 2 also ends after NumW goroutines. *)
MoreTasks ==
  /\ Items > 0
  /\ Len(tasks) * Chunk < Items
  /\ impl = "go" /\ stage = "phase2" => Len(tasks) < NumW

Running == stage \in {"phase1", "phase2"}

Ended(task) == task.at = task.end \/ task.threw

NewTask(lo, hi) == [at |-> lo, table |-> 1, end |-> hi, buf |-> Len(heap), threw |-> FALSE]

(* More plausible bugs: nobody waits; the wait group counts every worker; a *)
(* task takes the first item of the next one; the buffer that readers see   *)
(* is reused.                                                               *)
TasksStarted == ~MoreTasks

EveryWorkerEnded ==
  /\ Len(tasks) >= NumW
  /\ \A w \in DOMAIN tasks : tasks[w].at = tasks[w].end

(* In Kotlin: the wait asks whether a task is done, and not how it ended.    *)
FailureSwallowed == ~MoreTasks /\ \A w \in DOMAIN tasks : Ended(tasks[w])

SpawnOverlap ==
  /\ Running /\ MoreTasks
  /\ LET lo == Len(tasks) * Chunk
         hi == IF lo + Chunk + 1 < Items THEN lo + Chunk + 1 ELSE Items
     IN  tasks' = Append(tasks, NewTask(lo, hi))
  /\ UNCHANGED <<config, numPairs, stage, stale, version, matrix, buffers, rd>>

(* wg.Wait, for_each, or get() on every task. *)
PhaseEnded ==
  /\ ~MoreTasks
  /\ \A w \in DOMAIN tasks : tasks[w].at = tasks[w].end

RankInPlace ==
  /\ stage = "phase1" /\ PhaseEnded
  /\ stage' = "phase2"
  /\ tasks' = << >>
  /\ heap' = IF Len(heap[ptr]) = numPairs THEN Append(SubSeq(heap, 1, ptr - 1), heap[ptr])
             ELSE Append(heap, EmptyBuffer(numPairs))
  /\ UNCHANGED <<config, numPairs, stale, version, matrix, ptr, rd>>

-----------------------------------------------------------------------------
(* The engine *)

(* RunCycleWithDict, with an update. *)
BeginUpdate(n) ==
  /\ ~Running /\ Len(heap) <= MaxCycles
  /\ tasks' = << >>
  /\ numPairs' = n
  /\ stage' = "phase1"
  /\ version' = version + 1
  /\ UNCHANGED <<config, stale, matrix, buffers, rd>>

(* RunCycle: phase 1 returns at once. *)
BeginWithoutUpdate(n) ==
  /\ ~Running /\ Len(heap) <= MaxCycles
  /\ tasks' = << >>
  /\ numPairs' = n
  /\ stage' = "phase2"
  /\ heap' = Append(heap, EmptyBuffer(n))
  /\ UNCHANGED <<config, stale, version, matrix, ptr, rd>>

(* One iteration of the loop that starts the goroutines of a phase. *)
Spawn ==
  /\ Running /\ MoreTasks
  /\ LET lo == Len(tasks) * Chunk
         hi == IF lo + Chunk < Items THEN lo + Chunk ELSE Items
     IN  tasks' = Append(tasks, NewTask(lo, hi))
  /\ UNCHANGED <<config, numPairs, stage, stale, version, matrix, buffers, rd>>

(* A goroutine of phase 1 adds the delta to its next row. *)
UpdateRow(w) ==
  /\ stage = "phase1" /\ tasks[w].at < tasks[w].end
  /\ matrix' = [matrix EXCEPT ![tasks[w].at] = @ + 1]
  /\ tasks' = [tasks EXCEPT ![w].at = @ + 1]
  /\ UNCHANGED <<config, numPairs, stage, stale, version, buffers, rd>>

(* phase1Update returns; phase2Rank allocates its buffer. *)
BeginRank ==
  /\ stage = "phase1" /\ PhaseEnded
  /\ stage' = "phase2"
  /\ tasks' = << >>
  /\ heap' = Append(heap, EmptyBuffer(numPairs))
  /\ UNCHANGED <<config, numPairs, stale, version, matrix, ptr, rd>>

(* The next list of the pair a task is at, and what is left to do. *)
Ranked(task) == [heap EXCEPT ![task.buf][task.at + 1][task.table] = matrix[task.at % NumPPS]]

Advanced(task) ==
  IF task.table < Tables THEN [task EXCEPT !.table = @ + 1]
  ELSE [task EXCEPT !.at = @ + 1, !.table = 1]

(* A task of phase 2 writes the next list of its pair. *)
RankList(w) ==
  /\ stage = "phase2" /\ ~Ended(tasks[w])
  /\ heap' = Ranked(tasks[w])
  /\ tasks' = [tasks EXCEPT ![w] = Advanced(@)]
  /\ UNCHANGED <<config, numPairs, stage, stale, version, matrix, ptr, rd>>

(* Kotlin: the pair belongs to a PPS beyond the matrix; the task throws      *)
(* before it has written a list of that pair.                                *)
Throw(w) ==
  /\ impl = "kotlin" /\ stage = "phase2"
  /\ ~Ended(tasks[w]) /\ tasks[w].table = 1 /\ tasks[w].at \in Beyond
  /\ tasks' = [tasks EXCEPT ![w].threw = TRUE]
  /\ UNCHANGED <<config, numPairs, stage, stale, version, matrix, buffers, rd>>

(* tasks.forEach { it.get() }: the first task that threw ends the cycle once *)
(* those before it have ended.  The others go on, in the buffer of a cycle   *)
(* that is over.                                                             *)
Rethrow ==
  /\ stage = "phase2" /\ ~MoreTasks
  /\ \E w \in DOMAIN tasks :
       /\ tasks[w].threw
       /\ \A v \in 1 .. w - 1 : tasks[v].at = tasks[v].end
       /\ stale' = stale \cup {tasks[v] : v \in {x \in w + 1 .. Len(tasks) : ~Ended(tasks[x])}}
  /\ stage' = "failed"
  /\ tasks' = << >>
  /\ UNCHANGED <<config, numPairs, version, matrix, buffers, rd>>

(* Such a task ranks on, from the matrix as it is by now, or throws in turn, *)
(* at a pair of its own or because the list of pairs has become shorter.     *)
RankStale(task) ==
  /\ \/ /\ heap' = Ranked(task)
        /\ stale' = (stale \ {task}) \cup {t \in {Advanced(task)} : ~Ended(t)}
     \/ stale' = stale \ {task} /\ UNCHANGED heap
  /\ UNCHANGED <<config, numPairs, stage, tasks, version, matrix, ptr, rd>>

Publish ==
  /\ stage = "phase2" /\ PhaseEnded
  /\ ptr' = Len(heap)
  /\ stage' = "idle"
  /\ tasks' = << >>
  /\ UNCHANGED <<config, numPairs, stale, version, matrix, heap, rd>>

-----------------------------------------------------------------------------
(* The readers *)

(* One load of the pointer. *)
Load(r) ==
  /\ rd[r] = Idle
  /\ \E i \in DOMAIN heap[ptr] : rd' = [rd EXCEPT ![r] = [buf |-> ptr, row |-> i, got |-> << >>]]
  /\ UNCHANGED <<engine, buffers>>

(* GetList of the next table of that snapshot. *)
GetList(r) ==
  /\ rd[r] # Idle /\ Len(rd[r].got) < Tables
  /\ rd' = [rd EXCEPT ![r].got = Append(@, heap[rd[r].buf][rd[r].row][Len(@) + 1])]
  /\ UNCHANGED <<engine, buffers>>

Return(r) ==
  /\ Len(rd[r].got) = Tables
  /\ rd' = [rd EXCEPT ![r] = Idle]
  /\ UNCHANGED <<engine, buffers>>

Next ==
  \/ \E n \in PairCounts : BeginUpdate(n) \/ BeginWithoutUpdate(n)
  \/ Spawn
  \/ \E w \in DOMAIN tasks : UpdateRow(w) \/ RankList(w) \/ Throw(w)
  \/ Rethrow
  \/ \E task \in stale : RankStale(task)
  \/ BeginRank
  \/ Publish
  \/ \E r \in Readers : Load(r) \/ GetList(r) \/ Return(r)

Spec == Init /\ [][Next]_vars

(* The scheduler runs every task of a phase that can run. *)
FairSpec ==
  /\ Spec
  /\ WF_vars(Spawn) /\ WF_vars(BeginRank) /\ WF_vars(Publish) /\ WF_vars(Rethrow)
  /\ WF_vars(\E w \in DOMAIN tasks : UpdateRow(w) \/ RankList(w) \/ Throw(w))

-----------------------------------------------------------------------------
(* No two tasks of a phase work on the same row or pair, for any       *)
(* number of workers and of items.                                          *)
TasksDisjoint ==
  \A v, w \in DOMAIN tasks : v < w => tasks[v].end <= tasks[w].at

(* Phase 2 ranks from a matrix to which the update has been applied once,   *)
(* in every row.                                                            *)
MatrixUpdated == stage # "phase1" => \A p \in DOMAIN matrix : matrix[p] = version

(* What is published is complete: every list of every pair, all from the    *)
(* same version of the matrix, and after a cycle that returned from the     *)
(* last one.  A cycle that threw publishes nothing, and what it left        *)
(* running writes into nothing that is shown.                               *)
PublishedComplete ==
  ptr > 1 =>
    /\ \A i \in DOMAIN heap[ptr] : \A t \in 1 .. Tables :
         heap[ptr][i][t] = heap[ptr][1][1] /\ heap[ptr][i][t] > 0
    /\ stage = "idle" => /\ Len(heap[ptr]) = numPairs
                         /\ \A i \in DOMAIN heap[ptr] : heap[ptr][i][1] = version

(* The lists a reader collects from its snapshot belong together, although  *)
(* cycles go on and publish between its reads.                              *)
SnapshotUntorn ==
  \A r \in Readers : \A x, y \in DOMAIN rd[r].got : rd[r].got[x] = rd[r].got[y]

(* The buffers as readers know them: the published one, and for each call    *)
(* the lists of its pair in the buffer it loaded.                           *)
Board == INSTANCE SnapshotBoard WITH
           Counts <- PairCounts,
           board <- heap[ptr],
           call <- [r \in Readers |->
                      IF rd[r] = Idle THEN [state |-> "none"]
                      ELSE [state |-> "taken", lists |-> heap[rd[r].buf][rd[r].row],
                            got |-> rd[r].got]]

(* The cycle is atomic to its readers: tasks that write list by list, those  *)
(* a failed cycle left running, and a pointer to shared memory look like a  *)
(* board that is replaced as a whole and of which every call has a copy.    *)
BoardImplemented == Board!Spec

(* Every cycle returns or throws. *)
CycleEnds == Running ~> ~Running

=============================================================================
