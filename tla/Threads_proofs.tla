--------------------------- MODULE Threads_proofs ---------------------------
(***************************************************************************)
(* Proofs about what several threads run in at once.                       *)
(*                                                                         *)
(* RankPool: the split of a phase among its tasks is right and a published *)
(* buffer is complete and never torn, for any number of rows, pairs,       *)
(* workers, readers and cycles, and whatever order the tasks run in, in    *)
(* Go, in Kotlin and in rust-impl.                                         *)
(*                                                                         *)
(* TopologyCow: the copy-on-write topology map is an atomic map, for any   *)
(* keys and any writers, when writers hold the lock or there is only one.  *)
(***************************************************************************)
EXTENDS RankPool, TopologyCow, TLAPS


-----------------------------------------------------------------------------
(* The inductive invariant *)

TaskOf(B) == [at : Nat, table : Nat, end : Nat, buf : B, threw : BOOLEAN]

PoolTypeOK ==
  /\ impl \in {"go", "kotlin", "rust"}
  /\ numWorkers \in Int
  /\ numPairs \in Nat
  /\ stage \in {"idle", "phase1", "phase2", "failed"}
  /\ version \in Nat
  /\ matrix \in [0 .. NumPPS - 1 -> Nat]
  /\ \E B : tasks \in Seq(TaskOf(B))

(* What the tasks started so far have taken from the front of the items. *)
Taken == Len(tasks) * Chunk

SplitInv ==
  /\ ~Running => tasks = << >>
  /\ \A w \in DOMAIN tasks : /\ tasks[w].at <= tasks[w].end
                             /\ tasks[w].end <= Taken /\ tasks[w].end <= Items
  /\ TasksDisjoint

(* A row still waits for the update as long as nobody has taken it, or the  *)
(* task that took it has not come to it.                                    *)
Waits(p) == p >= Taken \/ \E w \in DOMAIN tasks : tasks[w].at <= p /\ p < tasks[w].end

UpdateInv ==
  /\ stage = "phase1" =>
       \A p \in DOMAIN matrix : matrix[p] = IF Waits(p) THEN version - 1 ELSE version
  /\ MatrixUpdated

PoolInv == PoolTypeOK /\ SplitInv /\ UpdateInv

-----------------------------------------------------------------------------
(* A sequence over a set is one over any larger set. *)
LEMMA WiderSeq ==
  ASSUME NEW S, NEW T, S \subseteq T, NEW s \in Seq(S)
  PROVE  s \in Seq(T)
<1>1. Len(s) \in Nat /\ DOMAIN s = 1 .. Len(s) /\ \A i \in 1 .. Len(s) : s[i] \in T
  OBVIOUS
<1>2. s = [i \in 1 .. Len(s) |-> s[i]]
  BY <1>1
<1>. QED BY <1>1, <1>2

(* (n + m - 1) / m, the share of a worker, is a number of items. *)
LEMMA ShareIsNat ==
  ASSUME NEW n \in Nat, NEW m \in Nat \ {0}
  PROVE  (n + m - 1) \div m \in Nat
<1>1. PICK k \in Nat : k = n + m - 1
  OBVIOUS
<1>2. k \div m \in Nat
  OBVIOUS
<1>. QED BY <1>1, <1>2

(* With something to split there is a worker, and its share is positive. *)
LEMMA ChunkFacts ==
  ASSUME PoolTypeOK
  PROVE  /\ Items \in Nat /\ Len(tasks) \in Nat /\ DOMAIN tasks = 1 .. Len(tasks)
         /\ Items > 0 => Chunk \in Nat /\ Taken \in Nat
<1> USE PoolAssumption
<1>1. Items \in Nat
  BY DEF PoolTypeOK, Items
<1>2. Len(tasks) \in Nat /\ DOMAIN tasks = 1 .. Len(tasks)
  BY DEF PoolTypeOK
<1>3. ASSUME Items > 0 PROVE Chunk \in Nat
  <2>1. NumW \in Nat \ {0}
    BY <1>1, <1>3 DEF PoolTypeOK, NumW
  <2>. QED BY <1>1, <2>1, ShareIsNat DEF Chunk
<1>. QED BY <1>1, <1>2, <1>3 DEF Taken

(* The invariant holds initially. *)
LEMMA InitPool == Init => PoolInv
<1> SUFFICES ASSUME Init PROVE PoolInv
  OBVIOUS
<1> USE PoolAssumption DEF Init
<1>1. numWorkers \in Int
  BY DEF InitFromEnv, DefaultResourceConfig
<1>2. \A B : << >> \in Seq(TaskOf(B))
  OBVIOUS
<1>3. PoolTypeOK
  BY <1>1, <1>2 DEF PoolTypeOK
<1>4. SplitInv /\ UpdateInv
  BY DEF SplitInv, UpdateInv, TasksDisjoint, MatrixUpdated, Running
<1>. QED BY <1>3, <1>4 DEF PoolInv

(* A step that leaves the tasks and the matrix alone. *)
LEMMA NoTaskMoves ==
  ASSUME PoolInv, UNCHANGED <<impl, numWorkers, numPairs, stage, tasks, version, matrix>>
  PROVE  PoolInv'
BY DEF PoolInv, PoolTypeOK, SplitInv, UpdateInv, TasksDisjoint, MatrixUpdated, Waits, Taken,
       Running, Chunk, NumW, Items

(* A phase starts or ends without any task. *)
LEMMA PhaseStarts ==
  ASSUME PoolInv, tasks' = << >>, numPairs' \in Nat,
         stage' \in {"idle", "phase2", "failed"}, stage # "phase1" \/ PhaseEnded,
         UNCHANGED <<config, version, matrix>>
  PROVE  PoolInv'
<1>1. PoolTypeOK'
  BY DEF PoolInv, PoolTypeOK, config
<1>2. SplitInv'
  BY DEF SplitInv, TasksDisjoint
<1>3. \A p \in DOMAIN matrix : matrix[p] = version
  <2>1. CASE stage # "phase1"
    BY <2>1 DEF PoolInv, UpdateInv, MatrixUpdated
  <2>2. CASE stage = "phase1" /\ PhaseEnded
    <3>1. /\ Items = NumPPS /\ NumPPS \in Nat \ {0}
          /\ DOMAIN matrix = 0 .. NumPPS - 1
          /\ version \in Nat
      BY <2>2, PoolAssumption DEF PoolInv, PoolTypeOK, Items
    <3>2. /\ Taken \in Nat /\ DOMAIN tasks = 1 .. Len(tasks)
          /\ Taken >= NumPPS
      BY <2>2, <3>1, ChunkFacts DEF PoolInv, PhaseEnded, MoreTasks, Taken
    <3>3. \A w \in DOMAIN tasks : tasks[w].at = tasks[w].end /\ tasks[w].at \in Nat
      <4>1. PICK B : tasks \in Seq(TaskOf(B))
        BY DEF PoolInv, PoolTypeOK
      <4>2. \A w \in DOMAIN tasks : tasks[w] \in TaskOf(B)
        BY <4>1
      <4>. QED BY <2>2, <4>2 DEF PhaseEnded, TaskOf
    <3>4. ASSUME NEW p \in DOMAIN matrix PROVE ~Waits(p)
      BY <3>1, <3>2, <3>3 DEF Waits
    <3>. QED BY <2>2, <3>4 DEF PoolInv, UpdateInv
  <2>. QED BY <2>1, <2>2
<1>. QED BY <1>1, <1>2, <1>3 DEF PoolInv, UpdateInv, MatrixUpdated, config

(* The next task takes the items after those that are taken. *)
LEMMA SpawnKeeps == PoolInv /\ Spawn => PoolInv'
<1> SUFFICES ASSUME PoolInv, Spawn PROVE PoolInv'
  OBVIOUS
<1> DEFINE hi == IF Taken + Chunk < Items THEN Taken + Chunk ELSE Items
           t == NewTask(Taken, hi)
<1>1. /\ Running /\ Items > 0 /\ Taken < Items
      /\ tasks' = Append(tasks, t)
      /\ UNCHANGED <<impl, numWorkers, numPairs, stage, version, matrix>>
  BY DEF Spawn, MoreTasks, Taken, config
<1>2. /\ PoolTypeOK /\ Chunk \in Nat /\ Taken \in Nat /\ Items \in Nat
      /\ Len(tasks) \in Nat /\ DOMAIN tasks = 1 .. Len(tasks)
  BY <1>1, ChunkFacts DEF PoolInv
<1>3. PICK B : tasks \in Seq(TaskOf(B))
  BY <1>2 DEF PoolTypeOK
<1>4. /\ Len(tasks') = Len(tasks) + 1 /\ DOMAIN tasks' = 1 .. Len(tasks) + 1
      /\ \A w \in DOMAIN tasks : tasks'[w] = tasks[w]
      /\ tasks'[Len(tasks) + 1] = t
  BY <1>1, <1>2, <1>3
<1>5. t.at = Taken /\ t.end = hi /\ hi \in Nat /\ Taken <= hi /\ hi <= Items /\ hi <= Taken + Chunk
  BY <1>1, <1>2 DEF NewTask
<1>6. Items' = Items /\ Chunk' = Chunk
  BY <1>1 DEF Chunk, NumW, Items
<1>7. Taken' = Taken + Chunk
  BY <1>2, <1>4, <1>6 DEF Taken
<1>8. PoolTypeOK'
  <2>1. t \in TaskOf(B \cup {Len(heap)})
    BY <1>2, <1>5 DEF NewTask, TaskOf
  <2>2. TaskOf(B) \subseteq TaskOf(B \cup {Len(heap)})
    BY DEF TaskOf
  <2> HIDE DEF t, hi
  <2>3. tasks \in Seq(TaskOf(B \cup {Len(heap)}))
    BY <1>3, <2>2, WiderSeq
  <2>4. tasks' \in Seq(TaskOf(B \cup {Len(heap)}))
    BY <1>1, <2>1, <2>3
  <2>. QED BY <1>1, <1>2, <2>4 DEF PoolTypeOK
<1>9. \A w \in DOMAIN tasks :
        /\ tasks[w].at \in Nat /\ tasks[w].end \in Nat
        /\ tasks[w].at <= tasks[w].end /\ tasks[w].end <= Taken /\ tasks[w].end <= Items
  <2>1. \A w \in DOMAIN tasks : tasks[w] \in TaskOf(B)
    BY <1>3
  <2>. QED BY <2>1 DEF TaskOf, PoolInv, SplitInv
<1> HIDE DEF t, hi
<1>10. SplitInv'
  <2>1. TasksDisjoint'
    BY <1>2, <1>4, <1>5, <1>9 DEF TasksDisjoint, PoolInv, SplitInv
  <2>2. \A w \in DOMAIN tasks' : /\ tasks'[w].at <= tasks'[w].end
                                 /\ tasks'[w].end <= Taken' /\ tasks'[w].end <= Items'
    BY <1>2, <1>4, <1>5, <1>6, <1>7, <1>9
  <2>. QED BY <1>1, <2>1, <2>2 DEF SplitInv, Running
<1>11. UpdateInv'
  <2>1. ASSUME stage = "phase1", NEW p \in DOMAIN matrix PROVE Waits(p)' <=> Waits(p)
    <3>1. p \in Nat /\ p < Items
      BY <1>2, <2>1, PoolAssumption DEF PoolTypeOK, Items
    <3>2. Waits(p)' <=> \/ p >= Taken + Chunk
                        \/ \E w \in DOMAIN tasks : tasks[w].at <= p /\ p < tasks[w].end
                        \/ Taken <= p /\ p < hi
      BY <1>2, <1>4, <1>5, <1>7 DEF Waits
    <3>3. p >= Taken <=> p >= Taken + Chunk \/ (Taken <= p /\ p < hi)
      BY <1>2, <3>1 DEF hi
    <3>. QED BY <3>2, <3>3 DEF Waits
  <2>. QED BY <1>1, <2>1 DEF PoolInv, UpdateInv, MatrixUpdated
<1>. QED BY <1>8, <1>10, <1>11 DEF PoolInv

(* A task goes on within what it took: the split stays as it is. *)
LEMMA TaskGoesOn ==
  ASSUME PoolInv, NEW B, tasks \in Seq(TaskOf(B)), NEW w \in DOMAIN tasks, NEW c \in TaskOf(B),
         c.end = tasks[w].end, tasks[w].at <= c.at, c.at <= c.end,
         tasks' = [tasks EXCEPT ![w] = c],
         matrix' \in [0 .. NumPPS - 1 -> Nat],
         UNCHANGED <<impl, numWorkers, numPairs, stage, version>>
  PROVE  /\ PoolTypeOK' /\ SplitInv' /\ Taken' = Taken
         /\ DOMAIN tasks' = DOMAIN tasks
         /\ \A v \in DOMAIN tasks : tasks'[v] = IF v = w THEN c ELSE tasks[v]
<1>1. /\ Len(tasks) \in Nat /\ DOMAIN tasks = 1 .. Len(tasks)
      /\ \A v \in DOMAIN tasks : tasks[v] \in TaskOf(B)
  OBVIOUS
<1>2. /\ tasks' \in Seq(TaskOf(B)) /\ Len(tasks') = Len(tasks)
      /\ DOMAIN tasks' = DOMAIN tasks
      /\ \A v \in DOMAIN tasks : tasks'[v] = IF v = w THEN c ELSE tasks[v]
  BY <1>1
<1>3. Items' = Items /\ Taken' = Taken /\ (Running' <=> Running)
  BY <1>2 DEF Taken, Chunk, NumW, Items, Running
<1>4. PoolTypeOK'
  BY <1>2 DEF PoolInv, PoolTypeOK
<1>5. \A v \in DOMAIN tasks : tasks[v].at \in Nat /\ tasks[v].end \in Nat /\ c.at \in Nat
  BY <1>1 DEF TaskOf
<1>6. TasksDisjoint'
  <2>1. ASSUME NEW u \in DOMAIN tasks, NEW v \in DOMAIN tasks, u < v
        PROVE  tasks'[u].end <= tasks'[v].at
    <3>1. tasks[u].end <= tasks[v].at
      BY <2>1 DEF PoolInv, SplitInv, TasksDisjoint
    <3>2. tasks'[u].end = tasks[u].end
      BY <1>2
    <3>3. tasks'[v].at >= tasks[v].at
      BY <1>2, <1>5
    <3>4. tasks'[v].at \in Nat
      BY <1>2, <1>5
    <3>. QED BY <1>5, <3>1, <3>2, <3>3, <3>4
  <2>. QED BY <1>2, <2>1 DEF TasksDisjoint
<1>7. \A v \in DOMAIN tasks : /\ tasks'[v].at <= tasks'[v].end
                              /\ tasks'[v].end <= Taken /\ tasks'[v].end <= Items
  BY <1>2 DEF PoolInv, SplitInv
<1>8. Running
  BY DEF PoolInv, SplitInv
<1>. QED BY <1>2, <1>3, <1>4, <1>6, <1>7, <1>8 DEF SplitInv

(* The row that is updated waits no longer, and no other row is touched. *)
LEMMA UpdateRowKeeps ==
  ASSUME PoolInv, NEW w \in DOMAIN tasks, UpdateRow(w)
  PROVE  PoolInv'
<1>1. PICK B : tasks \in Seq(TaskOf(B))
  BY DEF PoolInv, PoolTypeOK
<1>2. /\ stage = "phase1" /\ tasks[w].at < tasks[w].end
      /\ matrix' = [matrix EXCEPT ![tasks[w].at] = @ + 1]
      /\ tasks' = [tasks EXCEPT ![w].at = @ + 1]
      /\ UNCHANGED <<impl, numWorkers, numPairs, stage, version>>
  BY DEF UpdateRow, config
<1> DEFINE c == [tasks[w] EXCEPT !.at = @ + 1]
<1>3. /\ tasks[w] \in TaskOf(B)
      /\ \A v \in DOMAIN tasks : tasks[v].at \in Nat /\ tasks[v].end \in Nat
  <2>1. \A v \in DOMAIN tasks : tasks[v] \in TaskOf(B)
    BY <1>1
  <2>. QED BY <2>1 DEF TaskOf
<1>4. c \in TaskOf(B) /\ c.end = tasks[w].end /\ c.at = tasks[w].at + 1
  BY <1>3 DEF TaskOf
<1>5. tasks' = [tasks EXCEPT ![w] = c]
  BY <1>2
<1>6. /\ PoolTypeOK /\ matrix \in [0 .. NumPPS - 1 -> Nat] /\ version \in Nat
      /\ Items = NumPPS /\ Items \in Nat
      /\ DOMAIN tasks = 1 .. Len(tasks) /\ Len(tasks) \in Nat
  BY <1>2, ChunkFacts DEF PoolInv, PoolTypeOK, Items
<1>7. matrix' \in [0 .. NumPPS - 1 -> Nat]
  <2>1. \A p \in 0 .. NumPPS - 1 : matrix[p] \in Nat /\ matrix[p] + 1 \in Nat
    BY <1>6
  <2>. QED BY <1>2, <1>6, <2>1
<1> HIDE DEF c
<1>8. tasks[w].at <= c.at /\ c.at <= c.end
  BY <1>2, <1>3, <1>4
<1>9. /\ PoolTypeOK' /\ SplitInv' /\ Taken' = Taken
      /\ DOMAIN tasks' = DOMAIN tasks
      /\ \A v \in DOMAIN tasks : tasks'[v] = IF v = w THEN c ELSE tasks[v]
  BY <1>1, <1>2, <1>4, <1>5, <1>7, <1>8, TaskGoesOn
<1>10. /\ tasks[w].end <= Items /\ tasks[w].end <= Taken
       /\ \A v \in DOMAIN tasks : tasks[v].end <= Taken
       /\ \A u, v \in DOMAIN tasks : u < v => tasks[u].end <= tasks[v].at
       /\ \A p \in DOMAIN matrix : matrix[p] = IF Waits(p) THEN version - 1 ELSE version
  BY <1>2 DEF PoolInv, SplitInv, TasksDisjoint, UpdateInv
<1>11. Taken \in Nat
  BY <1>2, <1>3, <1>6, <1>10, ChunkFacts
<1>a. PICK row \in Nat : row = tasks[w].at
  BY <1>3
<1>12. row \in DOMAIN matrix /\ row < tasks[w].end /\ row < Taken
  BY <1>2, <1>3, <1>6, <1>10, <1>11, <1>a
<1>13. Waits(row) /\ ~Waits(row)'
  <2>1. Waits(row)
    BY <1>12, <1>a DEF Waits
  <2>2. ASSUME NEW v \in DOMAIN tasks, tasks'[v].at <= row, row < tasks'[v].end PROVE FALSE
    <3>1. v # w
      BY <1>3, <1>4, <1>9, <1>a, <2>2
    <3>2. tasks[v].at <= row /\ row < tasks[v].end
      BY <1>9, <2>2, <3>1
    <3>3. v < w \/ w < v
      BY <1>6, <3>1
    <3>. QED BY <1>3, <1>10, <1>12, <1>a, <3>2, <3>3
  <2>3. ~(row >= Taken)
    BY <1>11, <1>12
  <2>4. ~ \/ row >= Taken'
          \/ \E v \in DOMAIN tasks' : tasks'[v].at <= row /\ row < tasks'[v].end
    BY <1>9, <2>2, <2>3
  <2>. QED BY <2>1, <2>4 DEF Waits
<1>14. ASSUME NEW p \in DOMAIN matrix, p # row PROVE Waits(p)' <=> Waits(p)
  <2>1. p \in Nat
    BY <1>6
  <2>2. \A v \in DOMAIN tasks : (tasks'[v].at <= p /\ p < tasks'[v].end)
                                 <=> (tasks[v].at <= p /\ p < tasks[v].end)
    BY <1>3, <1>4, <1>9, <1>12, <1>14, <1>a, <2>1
  <2>. QED BY <1>9, <2>2 DEF Waits
<1>15. ASSUME NEW p \in DOMAIN matrix
       PROVE  matrix'[p] = IF Waits(p)' THEN version - 1 ELSE version
  <2>1. CASE p = row
    BY <1>2, <1>6, <1>10, <1>12, <1>13, <1>a, <2>1
  <2>2. CASE p # row
    BY <1>2, <1>3, <1>6, <1>10, <1>14, <1>a, <2>2
  <2>. QED BY <2>1, <2>2
<1>16. UpdateInv'
  BY <1>2, <1>6, <1>7, <1>15 DEF UpdateInv, MatrixUpdated
<1>. QED BY <1>9, <1>16 DEF PoolInv

(* Phase 2 ranks, and a task may throw; the matrix stays as it is. *)
LEMMA RankKeeps ==
  ASSUME PoolInv, NEW w \in DOMAIN tasks, RankList(w) \/ Throw(w)
  PROVE  PoolInv'
<1>1. PICK B : tasks \in Seq(TaskOf(B))
  BY DEF PoolInv, PoolTypeOK
<1> DEFINE c == IF Throw(w) THEN [tasks[w] EXCEPT !.threw = TRUE] ELSE Advanced(tasks[w])
<1>2. /\ stage = "phase2" /\ tasks[w].at # tasks[w].end
      /\ UNCHANGED <<impl, numWorkers, numPairs, stage, version, matrix>>
  BY DEF RankList, Throw, Ended, config
<1>3. tasks' = [tasks EXCEPT ![w] = c]
  BY DEF RankList, Throw
<1>4. /\ tasks[w] \in TaskOf(B) /\ tasks[w].at \in Nat /\ tasks[w].end \in Nat
      /\ tasks[w].at <= tasks[w].end
  <2>1. tasks[w] \in TaskOf(B)
    BY <1>1
  <2>. QED BY <2>1 DEF TaskOf, PoolInv, SplitInv
<1>5. /\ c \in TaskOf(B) /\ c.end = tasks[w].end
      /\ c.at = tasks[w].at \/ c.at = tasks[w].at + 1
  <2>1. [tasks[w] EXCEPT !.threw = TRUE] \in TaskOf(B)
    BY <1>4 DEF TaskOf
  <2>2. [tasks[w] EXCEPT !.threw = TRUE].at = tasks[w].at /\ [tasks[w] EXCEPT !.threw = TRUE].end = tasks[w].end
    BY <1>4 DEF TaskOf
  <2> DEFINE a == Advanced(tasks[w])
  <2>3. a \in TaskOf(B) /\ a.end = tasks[w].end /\ (a.at = tasks[w].at \/ a.at = tasks[w].at + 1)
    <3>1. CASE tasks[w].table < Tables
      <4>1. a = [tasks[w] EXCEPT !.table = @ + 1]
        BY <3>1 DEF Advanced
      <4> HIDE DEF a
      <4>. QED BY <1>4, <4>1 DEF TaskOf
    <3>2. CASE ~(tasks[w].table < Tables)
      <4> DEFINE b == [tasks[w] EXCEPT !.at = @ + 1]
      <4>1. b \in TaskOf(B) /\ b.at = tasks[w].at + 1 /\ b.end = tasks[w].end
        BY <1>4 DEF TaskOf
      <4>2. a = [b EXCEPT !.table = 1]
        BY <1>4, <3>2 DEF Advanced, TaskOf
      <4> HIDE DEF a, b
      <4>. QED BY <4>1, <4>2 DEF TaskOf
    <3>. QED BY <3>1, <3>2
  <2> HIDE DEF a
  <2>4. c = [tasks[w] EXCEPT !.threw = TRUE] \/ c = a
    BY DEF a
  <2>. QED BY <2>1, <2>2, <2>3, <2>4
<1> HIDE DEF c
<1>6. tasks[w].at <= c.at /\ c.at <= c.end
  BY <1>2, <1>4, <1>5
<1>7. matrix' \in [0 .. NumPPS - 1 -> Nat]
  BY <1>2 DEF PoolInv, PoolTypeOK
<1>8. PoolTypeOK' /\ SplitInv'
  BY <1>1, <1>2, <1>3, <1>5, <1>6, <1>7, TaskGoesOn
<1>. QED BY <1>2, <1>8 DEF PoolInv, UpdateInv, MatrixUpdated

(* Every step keeps it. *)
LEMMA StepPool == PoolInv /\ [Next]_vars => PoolInv'
<1> SUFFICES ASSUME PoolInv, [Next]_vars PROVE PoolInv'
  OBVIOUS
<1>0. PairCounts \subseteq Nat
  BY PoolAssumption
<1>1. ASSUME NEW n \in PairCounts, BeginUpdate(n) PROVE PoolInv'
  <2>1. /\ ~Running /\ tasks' = << >> /\ numPairs' = n /\ stage' = "phase1" /\ version' = version + 1
        /\ UNCHANGED <<impl, numWorkers, matrix>>
    BY <1>1 DEF BeginUpdate, config
  <2>2. PoolTypeOK'
    <3>1. version' \in Nat
      BY <2>1 DEF PoolInv, PoolTypeOK
    <3>2. \E B : tasks' \in Seq(TaskOf(B))
      BY <2>1
    <3>. QED BY <1>0, <2>1, <3>1, <3>2 DEF PoolInv, PoolTypeOK
  <2>3. SplitInv'
    BY <2>1 DEF SplitInv, TasksDisjoint, Running
  <2>4. Taken' = 0
    <3>1. Items' = NumPPS
      BY <2>1 DEF Items
    <3>2. NumW' \in Nat \ {0}
      BY <2>2, <3>1, PoolAssumption DEF NumW, PoolTypeOK
    <3>3. Chunk' = (NumPPS + NumW' - 1) \div NumW'
      BY <3>1 DEF Chunk
    <3>4. Chunk' \in Nat
      BY <3>2, <3>3, ShareIsNat, PoolAssumption
    <3>5. PICK c \in Nat : c = Chunk'
      BY <3>4
    <3>6. Len(tasks') = 0
      BY <2>1
    <3>7. Taken' = 0 * c
      BY <3>5, <3>6 DEF Taken
    <3>. QED BY <3>7
  <2>5. \A p \in DOMAIN matrix : p >= 0 /\ matrix[p] = version /\ version \in Nat
    BY <2>1 DEF PoolInv, PoolTypeOK, UpdateInv, MatrixUpdated, Running
  <2>6. \A p \in DOMAIN matrix : Waits(p)'
    BY <2>4, <2>5 DEF Waits
  <2>7. UpdateInv'
    BY <2>1, <2>5, <2>6 DEF UpdateInv, MatrixUpdated
  <2>. QED BY <2>2, <2>3, <2>7 DEF PoolInv
<1>2. ASSUME NEW n \in PairCounts, BeginWithoutUpdate(n) PROVE PoolInv'
  BY <1>0, <1>2, PhaseStarts DEF BeginWithoutUpdate, Running
<1>3. ASSUME Spawn PROVE PoolInv'
  BY <1>3, SpawnKeeps
<1>4. ASSUME Rethrow \/ BeginRank \/ Publish PROVE PoolInv'
  <2>1. numPairs' \in Nat
    BY <1>4 DEF Rethrow, BeginRank, Publish, PoolInv, PoolTypeOK
  <2>. QED BY <1>4, <2>1, PhaseStarts DEF Rethrow, BeginRank, Publish
<1>5. ASSUME NEW task \in stale, RankStale(task) PROVE PoolInv'
  BY <1>5, NoTaskMoves DEF RankStale, config
<1>6. ASSUME NEW r \in Readers, Load(r) \/ GetList(r) \/ Return(r) PROVE PoolInv'
  BY <1>6, NoTaskMoves DEF Load, GetList, Return, engine, config
<1>7. ASSUME UNCHANGED vars PROVE PoolInv'
  BY <1>7, NoTaskMoves DEF vars
<1>. QED BY <1>1, <1>2, <1>3, <1>4, <1>5, <1>6, <1>7, UpdateRowKeeps, RankKeeps DEF Next

(* The split and the matrix are right in every reachable state. *)
THEOREM PoolInvariant == Spec => []PoolInv
BY InitPool, StepPool, PTL DEF Spec

(* No two tasks of a phase share an item, for any number of workers, rows    *)
(* and pairs.                                                                *)
THEOREM ItemsSplit == Spec => []TasksDisjoint
<1>1. PoolInv => TasksDisjoint
  BY DEF PoolInv, SplitInv
<1>. QED BY <1>1, PoolInvariant, PTL

(* When phase 1 is over every row has had the update exactly once.           *)
THEOREM RowsUpdatedOnce == Spec => []MatrixUpdated
<1>1. PoolInv => MatrixUpdated
  BY DEF PoolInv, UpdateInv
<1>. QED BY <1>1, PoolInvariant, PTL

-----------------------------------------------------------------------------
(* The buffers *)

(* What a buffer is, for any number of pairs. *)
AnyBuffer == UNION {[1 .. m -> [1 .. Tables -> Nat]] : m \in Nat}

(* Every list of a buffer shows the same version of the matrix. *)
Uniform(b) == \A i \in DOMAIN heap[b] : \A t \in 1 .. Tables : heap[b][i][t] = heap[b][1][1]

(* A list of the buffer that is being filled still waits to be written.     *)
ListWaits(i, t) ==
  \/ i >= Taken
  \/ \E w \in DOMAIN tasks : /\ tasks[w].at <= i /\ i < tasks[w].end
                             /\ i = tasks[w].at => tasks[w].table <= t

HeapTypeOK ==
  /\ heap \in Seq(AnyBuffer)
  /\ rd \in [Readers -> [buf : Nat, row : Nat, got : Seq(Nat)]]
  /\ stale \subseteq TaskOf(Nat)

(* The buffer that is filled is not the published one, the tasks write into *)
(* it, and what they left running in earlier cycles writes into others.     *)
OwnersInv ==
  /\ version > 0
  /\ ptr \in 1 .. Len(heap)
  /\ stage \in {"phase2", "failed"} => ptr < Len(heap)
  /\ stage = "phase2" =>
       /\ DOMAIN heap[Len(heap)] = 1 .. numPairs
       /\ \A w \in DOMAIN tasks : tasks[w].buf = Len(heap) /\ tasks[w].table \in 1 .. Tables
  /\ \A s \in stale :
       /\ s.buf \in 1 .. Len(heap) /\ s.table \in 1 .. Tables
       /\ s.buf # ptr
       /\ stage = "phase2" => s.buf < Len(heap)

(* What no longer waits is written, from the matrix of this cycle. *)
WrittenInv ==
  stage = "phase2" =>
    \A i \in 0 .. numPairs - 1 : \A t \in 1 .. Tables :
      ListWaits(i, t) \/ heap[Len(heap)][i + 1][t] = version

(* A reader holds a buffer that was published, which nobody writes. *)
ReadersInv ==
  \A r \in Readers : rd[r] # Idle =>
    LET b == rd[r].buf
    IN  /\ b \in 1 .. ptr
        /\ rd[r].row \in DOMAIN heap[b]
        /\ Uniform(b)
        /\ \A x \in DOMAIN rd[r].got : rd[r].got[x] = heap[b][1][1]
        /\ \A s \in stale : s.buf # b

BufferInv == OwnersInv /\ WrittenInv /\ ReadersInv /\ Uniform(ptr) /\ PublishedComplete

(* One list is written, and nothing else. *)
LEMMA WriteFacts ==
  ASSUME HeapTypeOK, matrix \in [0 .. NumPPS - 1 -> Nat],
         NEW task, task.at \in Nat, task.table \in 1 .. Tables, task.buf \in 1 .. Len(heap),
         NEW h, h = Ranked(task)
  PROVE  /\ h \in Seq(AnyBuffer) /\ Len(h) = Len(heap)
         /\ \A b \in 1 .. Len(heap) : DOMAIN h[b] = DOMAIN heap[b]
         /\ \A b \in 1 .. Len(heap) : b # task.buf => h[b] = heap[b]
         /\ \A i \in DOMAIN heap[task.buf] : \A t \in 1 .. Tables :
              h[task.buf][i][t] = IF i = task.at + 1 /\ t = task.table THEN matrix[task.at % NumPPS]
                                  ELSE heap[task.buf][i][t]
<1>1. heap \in Seq(AnyBuffer) /\ Len(heap) \in Nat /\ DOMAIN heap = 1 .. Len(heap)
  BY DEF HeapTypeOK
<1> DEFINE b == task.buf
           x == task.at + 1
           v == matrix[task.at % NumPPS]
           row == [heap[b][x] EXCEPT ![task.table] = v]
           buf == [heap[b] EXCEPT ![x] = row]
<1>2. heap[b] \in AnyBuffer
  BY <1>1
<1>3. PICK m \in Nat : heap[b] \in [1 .. m -> [1 .. Tables -> Nat]]
  BY <1>2 DEF AnyBuffer
<1>4. v \in Nat
  BY PoolAssumption
<1>5. h = [heap EXCEPT ![b] = buf]
  BY DEF Ranked
<1> HIDE DEF v
<1>6. buf \in [1 .. m -> [1 .. Tables -> Nat]]
  BY <1>3, <1>4
<1>7. \A i \in 1 .. m : \A t \in 1 .. Tables :
        buf[i][t] = IF i = x /\ t = task.table THEN v ELSE heap[b][i][t]
  BY <1>3
<1> HIDE DEF buf, row
<1>8. buf \in AnyBuffer
  BY <1>6 DEF AnyBuffer
<1>9. h \in Seq(AnyBuffer) /\ Len(h) = Len(heap) /\ h[b] = buf
      /\ \A c \in 1 .. Len(heap) : c # b => h[c] = heap[c]
  BY <1>1, <1>5, <1>8
<1>. QED BY <1>3, <1>6, <1>7, <1>9 DEF v

(* What readers hold and what is published stays complete when it is not    *)
(* written and nothing new that might write it is left running.             *)
LEMMA HeldStay ==
  ASSUME ReadersInv, Uniform(ptr), PublishedComplete, HeapTypeOK, OwnersInv,
         UNCHANGED <<rd, ptr>>, heap'[ptr] = heap[ptr],
         \A r \in Readers : rd[r] # Idle => heap'[rd[r].buf] = heap[rd[r].buf],
         \A s \in stale' : s.buf > ptr \/ \E t \in stale : s.buf = t.buf,
         stage' = "idle" => UNCHANGED <<stage, numPairs, version>>
  PROVE  ReadersInv' /\ Uniform(ptr)' /\ PublishedComplete'
<1>1. Uniform(ptr)'
  BY DEF Uniform
<1>2. PublishedComplete'
  BY DEF PublishedComplete
<1>3. ReadersInv'
  <2> SUFFICES ASSUME NEW r \in Readers, rd[r] # Idle
               PROVE  LET b == rd[r].buf
                      IN  /\ b \in 1 .. ptr
                          /\ rd[r].row \in DOMAIN heap'[b]
                          /\ Uniform(b)'
                          /\ \A x \in DOMAIN rd[r].got : rd[r].got[x] = heap'[b][1][1]
                          /\ \A s \in stale' : s.buf # b
    BY DEF ReadersInv, Idle
  <2> DEFINE b == rd[r].buf
  <2>1. /\ b \in 1 .. ptr
        /\ rd[r].row \in DOMAIN heap[b]
        /\ Uniform(b)
        /\ \A x \in DOMAIN rd[r].got : rd[r].got[x] = heap[b][1][1]
        /\ \A s \in stale : s.buf # b
    BY DEF ReadersInv
  <2>2. heap'[b] = heap[b]
    OBVIOUS
  <2>3. \A s \in stale' : s.buf # b
    <3>1. ptr \in Nat
      BY DEF OwnersInv, HeapTypeOK
    <3>. QED BY <2>1, <3>1
  <2>4. Uniform(b)'
    BY <2>1, <2>2 DEF Uniform
  <2>. QED BY <2>1, <2>2, <2>3, <2>4
<1>. QED BY <1>1, <1>2, <1>3

(* A new buffer is put behind the others. *)
LEMMA NewBufferFacts ==
  ASSUME HeapTypeOK, NEW m \in Nat, heap' = Append(heap, EmptyBuffer(m))
  PROVE  /\ heap' \in Seq(AnyBuffer) /\ Len(heap') = Len(heap) + 1 /\ Len(heap) \in Nat
         /\ \A b \in 1 .. Len(heap) : heap'[b] = heap[b]
         /\ DOMAIN heap'[Len(heap')] = 1 .. m
<1>1. EmptyBuffer(m) \in [1 .. m -> [1 .. Tables -> Nat]]
  BY DEF EmptyBuffer
<1>2. EmptyBuffer(m) \in AnyBuffer
  BY <1>1 DEF AnyBuffer
<1>3. DOMAIN EmptyBuffer(m) = 1 .. m
  BY DEF EmptyBuffer
<1> HIDE DEF EmptyBuffer
<1>. QED BY <1>2, <1>3 DEF HeapTypeOK

(* Phase 2 begins with a new buffer and no task. *)
LEMMA RankBegins ==
  ASSUME PoolInv, HeapTypeOK, BufferInv, NEW m \in Nat, heap' = Append(heap, EmptyBuffer(m)),
         numPairs' = m, stage' = "phase2", tasks' = << >>,
         UNCHANGED <<config, stale, version, ptr, rd>>
  PROVE  HeapTypeOK' /\ BufferInv'
<1>1. /\ heap' \in Seq(AnyBuffer) /\ Len(heap') = Len(heap) + 1 /\ Len(heap) \in Nat
      /\ \A b \in 1 .. Len(heap) : heap'[b] = heap[b]
      /\ DOMAIN heap'[Len(heap')] = 1 .. m
  BY NewBufferFacts
<1>2. HeapTypeOK'
  BY <1>1 DEF HeapTypeOK
<1>3. OwnersInv'
  BY <1>1 DEF BufferInv, OwnersInv
<1>4. WrittenInv'
  <2> SUFFICES ASSUME NEW i \in 0 .. m - 1, NEW t \in 1 .. Tables PROVE ListWaits(i, t)'
    BY DEF WrittenInv
  <2>1. Items' = m /\ m > 0
    BY DEF Items
  <2>2. NumW' \in Nat \ {0}
    BY <2>1, PoolAssumption DEF NumW, config, PoolInv, PoolTypeOK
  <2>3. Chunk' \in Nat
    BY <2>1, <2>2, ShareIsNat DEF Chunk
  <2>4. Len(tasks') = 0
    OBVIOUS
  <2>5. Taken' = 0
    <3>1. PICK c \in Nat : c = Chunk'
      BY <2>3
    <3>2. Taken' = 0 * c
      BY <2>4, <3>1 DEF Taken
    <3>. QED BY <3>2
  <2>. QED BY <2>5 DEF ListWaits
<1>5. ptr \in 1 .. Len(heap) /\ \A r \in Readers : rd[r] # Idle => rd[r].buf \in 1 .. Len(heap)
  BY <1>1 DEF BufferInv, OwnersInv, ReadersInv
<1>6. ReadersInv' /\ Uniform(ptr)' /\ PublishedComplete'
  BY <1>1, <1>5, HeldStay DEF BufferInv
<1>. QED BY <1>2, <1>3, <1>4, <1>6 DEF BufferInv

(* A step of the engine that starts no phase 2 and writes no list. *)
LEMMA EngineGoesOn ==
  ASSUME HeapTypeOK, BufferInv, stage' # "phase2", stage' = "failed" => stage = "failed",
         stage' = "idle" => UNCHANGED <<stage, numPairs, version>>,
         version' \in Nat, version' > 0, UNCHANGED <<stale, heap, ptr, rd>>
  PROVE  HeapTypeOK' /\ BufferInv'
<1>1. HeapTypeOK'
  BY DEF HeapTypeOK
<1>2. OwnersInv'
  BY DEF BufferInv, OwnersInv
<1>3. WrittenInv'
  BY DEF WrittenInv
<1>4. ReadersInv' /\ Uniform(ptr)' /\ PublishedComplete'
  BY HeldStay DEF BufferInv
<1>. QED BY <1>1, <1>2, <1>3, <1>4 DEF BufferInv

(* A task that starts takes over lists that waited for it. *)
LEMMA SpawnKeepsBuffers ==
  ASSUME PoolInv, HeapTypeOK, BufferInv, Spawn
  PROVE  HeapTypeOK' /\ BufferInv'
<1> DEFINE hi == IF Taken + Chunk < Items THEN Taken + Chunk ELSE Items
           task == NewTask(Taken, hi)
<1>1. /\ Running /\ Items > 0 /\ Taken < Items
      /\ tasks' = Append(tasks, task)
      /\ UNCHANGED <<impl, numWorkers, numPairs, stage, stale, version, matrix, heap, ptr, rd>>
  BY DEF Spawn, MoreTasks, Taken, config, buffers
<1>2. /\ PoolTypeOK /\ Chunk \in Nat /\ Taken \in Nat /\ Items \in Nat
      /\ Len(tasks) \in Nat /\ DOMAIN tasks = 1 .. Len(tasks)
  BY <1>1, ChunkFacts DEF PoolInv
<1>3. PICK B : tasks \in Seq(TaskOf(B))
  BY <1>2 DEF PoolTypeOK
<1>4. /\ Len(tasks') = Len(tasks) + 1 /\ DOMAIN tasks' = 1 .. Len(tasks) + 1
      /\ \A w \in DOMAIN tasks : tasks'[w] = tasks[w]
      /\ tasks'[Len(tasks) + 1] = task
  BY <1>1, <1>2, <1>3
<1>5. task.at = Taken /\ task.end = hi /\ task.buf = Len(heap) /\ task.table = 1
  BY DEF NewTask
<1>6. Items' = Items /\ Chunk' = Chunk
  BY <1>1 DEF Chunk, NumW, Items
<1>7. Taken' = Taken + Chunk
  BY <1>2, <1>4, <1>6 DEF Taken
<1> HIDE DEF task
<1>8. HeapTypeOK'
  BY <1>1 DEF HeapTypeOK
<1>9. OwnersInv'
  <2>1. 1 \in 1 .. Tables
    BY PoolAssumption
  <2>2. stage = "phase2" => \A w \in DOMAIN tasks' : tasks'[w].buf = Len(heap) /\ tasks'[w].table \in 1 .. Tables
    BY <1>2, <1>4, <1>5, <2>1 DEF BufferInv, OwnersInv
  <2>. QED BY <1>1, <2>2 DEF BufferInv, OwnersInv
<1>10. WrittenInv'
  <2> SUFFICES ASSUME stage = "phase2", NEW i \in 0 .. numPairs - 1, NEW t \in 1 .. Tables,
                      ~ListWaits(i, t)'
               PROVE  heap[Len(heap)][i + 1][t] = version
    BY <1>1 DEF WrittenInv
  <2>1. i \in Nat /\ i < Items
    BY <1>2 DEF Items, PoolTypeOK
  <2>2. ~ (i >= Taken + Chunk)
    BY <1>7 DEF ListWaits
  <2>3. ~ (Taken <= i /\ i < hi)
    <3>1. t >= 1
      OBVIOUS
    <3>. QED BY <1>2, <1>4, <1>5, <3>1 DEF ListWaits
  <2>4. ~ (i >= Taken)
    BY <1>2, <2>1, <2>2, <2>3
  <2>5. ~ListWaits(i, t)
    BY <1>2, <1>4, <2>4 DEF ListWaits
  <2>. QED BY <2>5 DEF BufferInv, WrittenInv
<1>11. ReadersInv' /\ Uniform(ptr)' /\ PublishedComplete'
  BY <1>1, HeldStay DEF BufferInv
<1>. QED BY <1>8, <1>9, <1>10, <1>11 DEF BufferInv

(* What a task has left after it wrote a list. *)
LEMMA AdvancedFacts ==
  ASSUME NEW B, NEW task \in TaskOf(B), task.table \in 1 .. Tables
  PROVE  /\ Advanced(task) \in TaskOf(B)
         /\ Advanced(task).end = task.end /\ Advanced(task).buf = task.buf
         /\ Advanced(task).table \in 1 .. Tables
         /\ \/ Advanced(task).at = task.at /\ Advanced(task).table = task.table + 1
            \/ Advanced(task).at = task.at + 1 /\ Advanced(task).table = 1 /\ task.table = Tables
<1> USE PoolAssumption
<1>1. CASE task.table < Tables
  <2>1. Advanced(task) = [task EXCEPT !.table = @ + 1]
    BY <1>1 DEF Advanced
  <2>. QED BY <1>1, <2>1 DEF TaskOf
<1>2. CASE ~(task.table < Tables)
  <2> DEFINE b == [task EXCEPT !.at = @ + 1]
  <2>1. b \in TaskOf(B) /\ b.at = task.at + 1 /\ b.end = task.end /\ b.buf = task.buf
    BY DEF TaskOf
  <2>2. Advanced(task) = [b EXCEPT !.table = 1]
    BY <1>2 DEF Advanced, TaskOf
  <2> HIDE DEF b
  <2>3. task.table = Tables
    BY <1>2
  <2>. QED BY <2>1, <2>2, <2>3 DEF TaskOf
<1>. QED BY <1>1, <1>2

(* A task of phase 2 is at a pair of this cycle. *)
LEMMA RankingTask ==
  ASSUME PoolInv, NEW w \in DOMAIN tasks, tasks[w].at # tasks[w].end
  PROVE  /\ DOMAIN tasks = 1 .. Len(tasks) /\ Len(tasks) \in Nat
         /\ \E B : tasks \in Seq(TaskOf(B)) /\ tasks[w] \in TaskOf(B)
         /\ tasks[w].at \in Nat /\ tasks[w].end \in Nat /\ Items \in Nat
         /\ tasks[w].at < tasks[w].end /\ tasks[w].end <= Items
<1>1. PICK B : tasks \in Seq(TaskOf(B))
  BY DEF PoolInv, PoolTypeOK
<1>2. tasks[w] \in TaskOf(B) /\ DOMAIN tasks = 1 .. Len(tasks) /\ Len(tasks) \in Nat
  BY <1>1
<1>3. tasks[w].at <= tasks[w].end /\ tasks[w].end <= Items
  BY DEF PoolInv, SplitInv
<1>4. Items \in Nat
  BY ChunkFacts DEF PoolInv
<1>5. tasks[w].at \in Nat /\ tasks[w].end \in Nat
  BY <1>2 DEF TaskOf
<1>. QED BY <1>1, <1>2, <1>3, <1>4, <1>5

(* The list that is written waits no longer, and shows this cycle's matrix. *)
LEMMA RankListKeepsBuffers ==
  ASSUME PoolInv, HeapTypeOK, BufferInv, NEW w \in DOMAIN tasks, RankList(w)
  PROVE  HeapTypeOK' /\ BufferInv'
<1> DEFINE c == Advanced(tasks[w])
           last == Len(heap)
<1>1. /\ stage = "phase2" /\ tasks[w].at # tasks[w].end
      /\ heap' = Ranked(tasks[w])
      /\ tasks' = [tasks EXCEPT ![w] = c]
      /\ UNCHANGED <<impl, numWorkers, numPairs, stage, stale, version, matrix, ptr, rd>>
  BY DEF RankList, Ended, config
<1>2. PICK B : tasks \in Seq(TaskOf(B)) /\ tasks[w] \in TaskOf(B)
  BY <1>1, RankingTask
<1>3. /\ DOMAIN tasks = 1 .. Len(tasks) /\ Len(tasks) \in Nat
      /\ tasks[w].at \in Nat /\ tasks[w].end \in Nat
      /\ tasks[w].at < tasks[w].end /\ tasks[w].end <= numPairs /\ numPairs \in Nat
  BY <1>1, RankingTask DEF Items
<1>4. /\ ptr \in 1 .. last /\ ptr < last /\ last \in Nat
      /\ DOMAIN heap[last] = 1 .. numPairs
      /\ \A v \in DOMAIN tasks : tasks[v].buf = last /\ tasks[v].table \in 1 .. Tables
  BY <1>1 DEF BufferInv, OwnersInv, HeapTypeOK
<1>5. /\ c \in TaskOf(B) /\ c.end = tasks[w].end /\ c.buf = last
      /\ c.table \in 1 .. Tables /\ c.at <= tasks[w].end /\ c.at \in Nat
      /\ \/ c.at = tasks[w].at /\ c.table = tasks[w].table + 1
         \/ c.at = tasks[w].at + 1 /\ c.table = 1 /\ tasks[w].table = Tables
  <2>1. tasks[w].table \in 1 .. Tables /\ tasks[w].buf = last
    BY <1>4
  <2> HIDE DEF last
  <2>2. /\ c \in TaskOf(B) /\ c.end = tasks[w].end /\ c.buf = last
        /\ c.table \in 1 .. Tables
        /\ \/ c.at = tasks[w].at /\ c.table = tasks[w].table + 1
           \/ c.at = tasks[w].at + 1 /\ c.table = 1 /\ tasks[w].table = Tables
    BY <1>2, <1>3, <2>1, AdvancedFacts
  <2> HIDE DEF c
  <2>3. c.at \in Nat
    BY <2>2 DEF TaskOf
  <2>. QED BY <1>3, <2>2, <2>3
<1> HIDE DEF c
<1>6. /\ DOMAIN tasks' = DOMAIN tasks /\ Len(tasks') = Len(tasks)
      /\ \A v \in DOMAIN tasks : tasks'[v] = IF v = w THEN c ELSE tasks[v]
  BY <1>1, <1>2, <1>3, <1>5
<1>7. matrix[tasks[w].at % NumPPS] = version /\ matrix \in [0 .. NumPPS - 1 -> Nat]
  <2>1. tasks[w].at % NumPPS \in 0 .. NumPPS - 1
    BY <1>3, PoolAssumption
  <2>. QED BY <1>1, <2>1 DEF PoolInv, PoolTypeOK, UpdateInv, MatrixUpdated
<1>8. /\ heap' \in Seq(AnyBuffer) /\ Len(heap') = last
      /\ \A b \in 1 .. last : DOMAIN heap'[b] = DOMAIN heap[b]
      /\ \A b \in 1 .. last : b # last => heap'[b] = heap[b]
      /\ \A i \in DOMAIN heap[last] : \A t \in 1 .. Tables :
           heap'[last][i][t] = IF i = tasks[w].at + 1 /\ t = tasks[w].table THEN version
                               ELSE heap[last][i][t]
  <2>1. tasks[w].table \in 1 .. Tables /\ tasks[w].buf = last /\ tasks[w].buf \in 1 .. Len(heap)
    BY <1>4
  <2>2. tasks[w].at \in Nat /\ heap' = Ranked(tasks[w])
    BY <1>1, <1>3
  <2>3. /\ heap' \in Seq(AnyBuffer) /\ Len(heap') = Len(heap)
        /\ \A b \in 1 .. Len(heap) : DOMAIN heap'[b] = DOMAIN heap[b]
        /\ \A b \in 1 .. Len(heap) : b # tasks[w].buf => heap'[b] = heap[b]
        /\ \A i \in DOMAIN heap[tasks[w].buf] : \A t \in 1 .. Tables :
             heap'[tasks[w].buf][i][t] = IF i = tasks[w].at + 1 /\ t = tasks[w].table THEN matrix[tasks[w].at % NumPPS]
                                ELSE heap[tasks[w].buf][i][t]
    BY <1>7, <2>1, <2>2, WriteFacts
  <2>. QED BY <1>7, <2>1, <2>3
<1>9. HeapTypeOK'
  BY <1>1, <1>8 DEF HeapTypeOK
<1>10. OwnersInv'
  <2>1. DOMAIN heap'[last] = 1 .. numPairs
    BY <1>4, <1>8
  <2>2. \A v \in DOMAIN tasks' : tasks'[v].buf = last /\ tasks'[v].table \in 1 .. Tables
    BY <1>4, <1>5, <1>6
  <2>. QED BY <1>1, <1>8, <2>1, <2>2 DEF BufferInv, OwnersInv
<1>11. WrittenInv'
  <2> SUFFICES ASSUME NEW i \in 0 .. numPairs - 1, NEW t \in 1 .. Tables, ~ListWaits(i, t)'
               PROVE  heap'[last][i + 1][t] = version
    BY <1>1, <1>8 DEF WrittenInv
  <2>1. i \in Nat /\ t \in Nat /\ i + 1 \in DOMAIN heap[last]
    BY <1>3, <1>4, PoolAssumption
  <2>2. CASE i = tasks[w].at /\ t = tasks[w].table
    BY <1>8, <2>1, <2>2
  <2>3. CASE ~(i = tasks[w].at /\ t = tasks[w].table)
    <3>1. Taken' = Taken
      BY <1>1, <1>6 DEF Taken, Chunk, NumW, Items
    <3>2. ASSUME ListWaits(i, t) PROVE FALSE
      <4>1. ~(i >= Taken)
        BY <3>1 DEF ListWaits
      <4>2. PICK v \in DOMAIN tasks : /\ tasks[v].at <= i /\ i < tasks[v].end
                                      /\ i = tasks[v].at => tasks[v].table <= t
        BY <3>2, <4>1 DEF ListWaits
      <4>3. v = w
        BY <1>6, <4>2 DEF ListWaits
      <4>4. tasks[w].table \in 1 .. Tables
        BY <1>4
      <4>5. /\ c.at <= i /\ i < c.end
            /\ i = c.at => c.table <= t
        <5> HIDE DEF last
        <5>1. tasks[w].table \in Nat /\ tasks[w].table <= Tables /\ t <= Tables /\ Tables \in Nat
          BY <4>4, PoolAssumption
        <5>2. tasks[w].at <= i /\ i < tasks[w].end
              /\ (i = tasks[w].at => tasks[w].table <= t /\ tasks[w].table # t)
          BY <2>3, <4>2, <4>3
        <5>3. CASE c.at = tasks[w].at /\ c.table = tasks[w].table + 1
          BY <1>3, <1>5, <2>1, <5>1, <5>2, <5>3
        <5>4. CASE c.at = tasks[w].at + 1 /\ c.table = 1 /\ tasks[w].table = Tables
          <6>1. i # tasks[w].at
            BY <2>1, <5>1, <5>2, <5>4
          <6>2. t >= 1
            OBVIOUS
          <6>. QED BY <1>3, <1>5, <2>1, <5>2, <5>4, <6>1, <6>2
        <5>. QED BY <1>5, <5>3, <5>4
      <4>6. w \in DOMAIN tasks' /\ tasks'[w] = c
        BY <1>6
      <4>7. /\ tasks'[w].at <= i /\ i < tasks'[w].end
            /\ i = tasks'[w].at => tasks'[w].table <= t
        BY <4>5, <4>6
      <4>. QED BY <4>6, <4>7 DEF ListWaits
    <3>3. heap[last][i + 1][t] = version
      BY <1>1, <3>2 DEF BufferInv, WrittenInv
    <3>4. ~(i + 1 = tasks[w].at + 1 /\ t = tasks[w].table)
      BY <1>3, <2>1, <2>3
    <3>. QED BY <1>8, <2>1, <3>3, <3>4
  <2>. QED BY <2>2, <2>3
<1>12. \A r \in Readers : rd[r] # Idle => rd[r].buf \in 1 .. last /\ rd[r].buf # last
  BY <1>4 DEF BufferInv, ReadersInv
<1>13. heap'[ptr] = heap[ptr] /\ \A r \in Readers : rd[r] # Idle => heap'[rd[r].buf] = heap[rd[r].buf]
  BY <1>4, <1>8, <1>12
<1>14. ReadersInv' /\ Uniform(ptr)' /\ PublishedComplete'
  <2> HIDE DEF last
  <2>. QED BY <1>1, <1>13, HeldStay DEF BufferInv
<1>. QED BY <1>9, <1>10, <1>11, <1>14 DEF BufferInv

(* A task that throws writes nothing, and what it had left still waits. *)
LEMMA ThrowKeepsBuffers ==
  ASSUME PoolInv, HeapTypeOK, BufferInv, NEW w \in DOMAIN tasks, Throw(w)
  PROVE  HeapTypeOK' /\ BufferInv'
<1>1. /\ stage = "phase2" /\ tasks[w].at # tasks[w].end
      /\ tasks' = [tasks EXCEPT ![w].threw = TRUE]
      /\ UNCHANGED <<impl, numWorkers, numPairs, stage, stale, version, matrix, heap, ptr, rd>>
  BY DEF Throw, Ended, config, buffers
<1>2. PICK B : tasks \in Seq(TaskOf(B))
  BY DEF PoolInv, PoolTypeOK
<1>3. /\ DOMAIN tasks = 1 .. Len(tasks) /\ Len(tasks) \in Nat
      /\ \A v \in DOMAIN tasks : tasks[v] \in TaskOf(B)
  BY <1>2
<1> DEFINE c == [tasks[w] EXCEPT !.threw = TRUE]
<1>4. c.at = tasks[w].at /\ c.table = tasks[w].table /\ c.end = tasks[w].end /\ c.buf = tasks[w].buf
  BY <1>3 DEF TaskOf
<1>5. /\ DOMAIN tasks' = DOMAIN tasks /\ Len(tasks') = Len(tasks)
      /\ \A v \in DOMAIN tasks : tasks'[v] = IF v = w THEN c ELSE tasks[v]
  BY <1>1, <1>2, <1>3
<1> HIDE DEF c
<1>6. \A v \in DOMAIN tasks : /\ tasks'[v].at = tasks[v].at /\ tasks'[v].table = tasks[v].table
                              /\ tasks'[v].end = tasks[v].end /\ tasks'[v].buf = tasks[v].buf
  BY <1>4, <1>5
<1>7. HeapTypeOK'
  BY <1>1 DEF HeapTypeOK
<1>8. OwnersInv'
  BY <1>1, <1>5, <1>6 DEF BufferInv, OwnersInv
<1>9. WrittenInv'
  <2>1. Taken' = Taken
    BY <1>1, <1>5 DEF Taken, Chunk, NumW, Items
  <2>2. \A i, t : ListWaits(i, t)' <=> ListWaits(i, t)
    BY <1>5, <1>6, <2>1 DEF ListWaits
  <2>. QED BY <1>1, <2>2 DEF BufferInv, WrittenInv
<1>10. ReadersInv' /\ Uniform(ptr)' /\ PublishedComplete'
  BY <1>1, HeldStay DEF BufferInv
<1>. QED BY <1>7, <1>8, <1>9, <1>10 DEF BufferInv

(* What a cycle that threw leaves running writes into its own buffer, which *)
(* is never shown.                                                          *)
LEMMA RethrowKeepsBuffers ==
  ASSUME PoolInv, HeapTypeOK, BufferInv, Rethrow
  PROVE  HeapTypeOK' /\ BufferInv'
<1>1. /\ stage = "phase2" /\ stage' = "failed" /\ tasks' = << >>
      /\ \A s \in stale' : s \in stale \/ \E v \in DOMAIN tasks : s = tasks[v]
      /\ UNCHANGED <<version, heap, ptr, rd>>
  <2>1. PICK w \in DOMAIN tasks :
          stale' = stale \cup {tasks[v] : v \in {x \in w + 1 .. Len(tasks) : ~Ended(tasks[x])}}
    BY DEF Rethrow
  <2>2. DOMAIN tasks = 1 .. Len(tasks) /\ Len(tasks) \in Nat
    BY DEF PoolInv, PoolTypeOK
  <2>. QED BY <2>1, <2>2 DEF Rethrow, buffers
<1>2. PICK B : tasks \in Seq(TaskOf(B))
  BY DEF PoolInv, PoolTypeOK
<1>3. /\ ptr \in 1 .. Len(heap) /\ ptr < Len(heap) /\ Len(heap) \in Nat
      /\ \A v \in DOMAIN tasks : /\ tasks[v] \in TaskOf(B) /\ tasks[v].buf = Len(heap)
                                 /\ tasks[v].table \in 1 .. Tables
  BY <1>1, <1>2 DEF BufferInv, OwnersInv, HeapTypeOK
<1>4. stale' \subseteq TaskOf(Nat)
  <2>1. \A v \in DOMAIN tasks : tasks[v] \in TaskOf(Nat)
    BY <1>3 DEF TaskOf
  <2>. QED BY <1>1, <2>1 DEF HeapTypeOK
<1>5. HeapTypeOK'
  BY <1>1, <1>4 DEF HeapTypeOK
<1>6. OwnersInv'
  BY <1>1, <1>3 DEF BufferInv, OwnersInv
<1>7. WrittenInv'
  BY <1>1 DEF WrittenInv
<1>8. ReadersInv' /\ Uniform(ptr)' /\ PublishedComplete'
  <2>1. \A s \in stale' : s.buf > ptr \/ \E t \in stale : s.buf = t.buf
    BY <1>1, <1>3
  <2>. QED BY <1>1, <2>1, HeldStay DEF BufferInv
<1>. QED BY <1>5, <1>6, <1>7, <1>8 DEF BufferInv

(* A task of a cycle that is over writes neither what is shown nor what is  *)
(* being filled.                                                            *)
LEMMA RankStaleKeepsBuffers ==
  ASSUME PoolInv, HeapTypeOK, BufferInv, NEW task \in stale, RankStale(task)
  PROVE  HeapTypeOK' /\ BufferInv'
<1>1. UNCHANGED <<impl, numWorkers, numPairs, stage, tasks, version, matrix, ptr, rd>>
  BY DEF RankStale, config
<1>2. /\ task \in TaskOf(Nat) /\ task.at \in Nat /\ task.end \in Nat
      /\ task.buf \in 1 .. Len(heap) /\ task.table \in 1 .. Tables
      /\ task.buf # ptr /\ (stage = "phase2" => task.buf < Len(heap))
      /\ ptr \in 1 .. Len(heap) /\ Len(heap) \in Nat
  <2>1. task \in TaskOf(Nat)
    BY DEF HeapTypeOK
  <2>2. task.at \in Nat /\ task.end \in Nat
    BY <2>1 DEF TaskOf
  <2>. QED BY <2>1, <2>2 DEF BufferInv, OwnersInv, HeapTypeOK
<1>3. /\ heap' \in Seq(AnyBuffer) /\ Len(heap') = Len(heap)
      /\ \A b \in 1 .. Len(heap) : DOMAIN heap'[b] = DOMAIN heap[b]
      /\ \A b \in 1 .. Len(heap) : b # task.buf => heap'[b] = heap[b]
  <2>1. CASE heap' = Ranked(task)
    <3>1. matrix \in [0 .. NumPPS - 1 -> Nat]
      BY DEF PoolInv, PoolTypeOK
    <3>. QED BY <1>2, <2>1, <3>1, WriteFacts
  <2>2. CASE UNCHANGED heap
    BY <2>2 DEF HeapTypeOK
  <2>. QED BY <2>1, <2>2 DEF RankStale
<1>4. \A s \in stale' : \/ s \in stale
                        \/ /\ s \in TaskOf(Nat) /\ s.buf = task.buf /\ s.table \in 1 .. Tables
  <2>1. CASE stale' = stale \ {task}
    BY <2>1
  <2>2. CASE stale' = (stale \ {task}) \cup {t \in {Advanced(task)} : ~Ended(t)}
    <3>1. Advanced(task) \in TaskOf(Nat) /\ Advanced(task).buf = task.buf /\ Advanced(task).table \in 1 .. Tables
      BY <1>2, AdvancedFacts
    <3>. QED BY <2>2, <3>1
  <2>. QED BY <2>1, <2>2 DEF RankStale
<1>5. HeapTypeOK'
  BY <1>1, <1>3, <1>4 DEF HeapTypeOK
<1>6. OwnersInv'
  <2>1. stage = "phase2" => heap'[Len(heap')] = heap[Len(heap)]
    BY <1>2, <1>3
  <2>2. \A s \in stale' : /\ s.buf \in 1 .. Len(heap) /\ s.table \in 1 .. Tables
                          /\ s.buf # ptr
                          /\ stage = "phase2" => s.buf < Len(heap)
    BY <1>2, <1>4 DEF BufferInv, OwnersInv
  <2>. QED BY <1>1, <1>3, <2>1, <2>2 DEF BufferInv, OwnersInv
<1>7. WrittenInv'
  <2>1. stage = "phase2" => heap'[Len(heap')] = heap[Len(heap)]
    BY <1>2, <1>3
  <2>2. \A i, t : ListWaits(i, t)' <=> ListWaits(i, t)
    BY <1>1 DEF ListWaits, Taken, Chunk, NumW, Items
  <2>. QED BY <1>1, <2>1, <2>2 DEF BufferInv, WrittenInv
<1>8. ReadersInv' /\ Uniform(ptr)' /\ PublishedComplete'
  <2>1. \A r \in Readers : rd[r] # Idle => rd[r].buf \in 1 .. Len(heap) /\ rd[r].buf # task.buf
    BY <1>2 DEF BufferInv, ReadersInv
  <2>2. heap'[ptr] = heap[ptr] /\ \A r \in Readers : rd[r] # Idle => heap'[rd[r].buf] = heap[rd[r].buf]
    BY <1>2, <1>3, <2>1
  <2>. QED BY <1>1, <1>4, <2>2, HeldStay DEF BufferInv
<1>. QED BY <1>5, <1>6, <1>7, <1>8 DEF BufferInv

(* The product of two numbers grows with the first. *)
LEMMA ProductGrows ==
  ASSUME NEW a \in Nat, NEW b \in Nat, NEW c \in Nat, a <= b
  PROVE  a * c <= b * c
<1>1. PICK d \in Nat : b = a + d
  <2>1. b - a \in Nat
    OBVIOUS
  <2>2. b = a + (b - a)
    OBVIOUS
  <2>. QED BY <2>1, <2>2
<1>2. (a + d) * c = a * c + d * c /\ d * c \in Nat /\ a * c \in Nat
  OBVIOUS
<1>. QED BY <1>1, <1>2

(* The shares of all workers make up the whole. *)
LEMMA SharesCover ==
  ASSUME NEW n \in Nat, NEW m \in Nat \ {0}
  PROVE  m * ((n + m - 1) \div m) >= n
<1>1. PICK a \in Nat : a = n + m - 1
  OBVIOUS
<1>2. a \div m \in Nat /\ a = m * (a \div m) + (a % m) /\ a % m < m /\ a % m \in Nat
  OBVIOUS
<1>3. PICK q \in Nat, r \in Nat : q = m * (a \div m) /\ r = a % m
  <2>1. m * (a \div m) \in Nat
    BY <1>2
  <2>. QED BY <1>2, <2>1
<1>4. q > a - m
  BY <1>2, <1>3
<1>. QED BY <1>1, <1>3, <1>4

(* When no task is left to start the tasks have taken every item, also where *)
(* the loop of Go ends with the number of its workers.                       *)
LEMMA AllTaken ==
  ASSUME PoolInv, ~MoreTasks, Items > 0
  PROVE  Taken >= Items /\ Taken \in Nat
<1>1. PoolTypeOK /\ Items \in Nat /\ Len(tasks) \in Nat /\ Chunk \in Nat /\ Taken \in Nat
  BY ChunkFacts DEF PoolInv
<1>2. CASE ~(Len(tasks) * Chunk < Items)
  BY <1>1, <1>2 DEF Taken
<1>3. CASE ~(Len(tasks) < NumW)
  <2>1. NumW \in Nat \ {0}
    BY <1>1, PoolAssumption DEF PoolTypeOK, NumW
  <2>2. NumW * Chunk >= Items
    BY <1>1, <2>1, SharesCover DEF Chunk
  <2>3. NumW * Chunk <= Len(tasks) * Chunk
    BY <1>1, <1>3, <2>1, ProductGrows
  <2>4. PICK n \in Nat : n = NumW * Chunk
    BY <1>1, <2>1
  <2>. QED BY <1>1, <2>2, <2>3, <2>4 DEF Taken
<1>. QED BY <1>2, <1>3 DEF MoreTasks

(* What is published has every list of every pair. *)
LEMMA PublishKeepsBuffers ==
  ASSUME PoolInv, HeapTypeOK, BufferInv, Publish
  PROVE  HeapTypeOK' /\ BufferInv'
<1> DEFINE last == Len(heap)
<1>1. /\ stage = "phase2" /\ PhaseEnded /\ ptr' = last /\ stage' = "idle" /\ tasks' = << >>
      /\ UNCHANGED <<impl, numWorkers, numPairs, stale, version, matrix, heap, rd>>
  BY DEF Publish, config
<1>2. /\ heap \in Seq(AnyBuffer) /\ last \in Nat /\ numPairs \in Nat
      /\ ptr \in 1 .. last /\ ptr < last /\ version > 0
      /\ DOMAIN heap[last] = 1 .. numPairs
      /\ \A s \in stale : /\ s.buf \in 1 .. last /\ s.table \in 1 .. Tables /\ s.buf < last
  BY <1>1 DEF BufferInv, OwnersInv, HeapTypeOK, PoolInv, PoolTypeOK
<1>3. ASSUME NEW i \in 1 .. numPairs, NEW t \in 1 .. Tables PROVE heap[last][i][t] = version
  <2>1. i - 1 \in 0 .. numPairs - 1 /\ i - 1 \in Nat /\ (i - 1) + 1 = i
    BY <1>2
  <2>2. Items = numPairs /\ Items > 0
    BY <1>1, <1>2 DEF Items
  <2>3. Taken >= Items /\ Taken \in Nat
    BY <1>1, <2>2, AllTaken DEF PhaseEnded
  <2>4. \A w \in DOMAIN tasks : tasks[w].at = tasks[w].end /\ tasks[w].at \in Nat
    <3>1. PICK B : tasks \in Seq(TaskOf(B))
      BY DEF PoolInv, PoolTypeOK
    <3>2. \A w \in DOMAIN tasks : tasks[w] \in TaskOf(B)
      BY <3>1
    <3>. QED BY <1>1, <3>2 DEF PhaseEnded, TaskOf
  <2>5. PICK p \in 0 .. numPairs - 1 : p = i - 1
    BY <2>1
  <2>6. ~ListWaits(p, t)
    <3>1. p \in Nat /\ p < numPairs
      BY <1>2
    <3>. QED BY <1>2, <2>2, <2>3, <2>4, <3>1 DEF ListWaits
  <2>7. heap[last][p + 1][t] = version
    BY <1>1, <2>6 DEF BufferInv, WrittenInv
  <2>. QED BY <2>1, <2>5, <2>7
<1>4. Uniform(ptr)'
  <2>1. \A i \in 1 .. numPairs : 1 \in 1 .. numPairs /\ 1 \in 1 .. Tables
    BY <1>2, PoolAssumption
  <2>2. \A i \in 1 .. numPairs : heap[last][1][1] = version
    BY <1>3, <2>1
  <2>. QED BY <1>1, <1>2, <1>3, <2>2 DEF Uniform
<1>5. PublishedComplete'
  <2>1. heap' = heap /\ version' = version /\ numPairs' = numPairs /\ ptr' = last
    BY <1>1
  <2>2. Len(heap[last]) = numPairs
    <3>1. heap[last] \in AnyBuffer
      BY <1>2
    <3>2. PICK m \in Nat : heap[last] \in [1 .. m -> [1 .. Tables -> Nat]]
      BY <3>1 DEF AnyBuffer
    <3>3. heap[last] \in Seq([1 .. Tables -> Nat])
      BY <3>2
    <3>. QED BY <1>2, <3>3
  <2>3. 1 \in 1 .. Tables
    BY PoolAssumption
  <2>4. \A i \in DOMAIN heap[last] : \A t \in 1 .. Tables :
          heap[last][i][t] = heap[last][1][1] /\ heap[last][i][t] > 0
    BY <1>1, <1>2, <1>3, <1>4 DEF Uniform
  <2>. QED BY <1>2, <1>3, <2>1, <2>2, <2>3, <2>4 DEF PublishedComplete
<1>6. HeapTypeOK'
  BY <1>1 DEF HeapTypeOK
<1>7. OwnersInv'
  BY <1>1, <1>2 DEF OwnersInv
<1>8. WrittenInv'
  BY <1>1 DEF WrittenInv
<1>9. ReadersInv'
  <2> SUFFICES ASSUME NEW r \in Readers, rd[r] # Idle
               PROVE  LET b == rd[r].buf
                      IN  /\ b \in 1 .. last
                          /\ rd[r].row \in DOMAIN heap[b]
                          /\ Uniform(b)
                          /\ \A x \in DOMAIN rd[r].got : rd[r].got[x] = heap[b][1][1]
                          /\ \A s \in stale : s.buf # b
    <3>1. \A b : Uniform(b)' <=> Uniform(b)
      BY <1>1 DEF Uniform
    <3>. QED BY <1>1, <3>1 DEF ReadersInv, Idle
  <2>. QED BY <1>2 DEF BufferInv, ReadersInv
<1>. QED BY <1>4, <1>5, <1>6, <1>7, <1>8, <1>9 DEF BufferInv

(* A reader takes the buffer that is published, and collects from it.       *)
LEMMA ReadersKeepBuffers ==
  ASSUME PoolInv, HeapTypeOK, BufferInv, NEW r \in Readers, Load(r) \/ GetList(r) \/ Return(r)
  PROVE  HeapTypeOK' /\ BufferInv'
<1>1. UNCHANGED <<impl, numWorkers, numPairs, stage, tasks, stale, version, matrix, heap, ptr>>
  BY DEF Load, GetList, Return, engine, config, buffers
<1>2. /\ heap \in Seq(AnyBuffer) /\ rd \in [Readers -> [buf : Nat, row : Nat, got : Seq(Nat)]]
      /\ ptr \in 1 .. Len(heap) /\ Len(heap) \in Nat /\ Uniform(ptr)
      /\ \A s \in stale : s.buf # ptr
  BY DEF BufferInv, OwnersInv, HeapTypeOK
<1> DEFINE Fine(c) == /\ c.buf \in 1 .. ptr
                      /\ c.row \in DOMAIN heap[c.buf]
                      /\ Uniform(c.buf)
                      /\ \A x \in DOMAIN c.got : c.got[x] = heap[c.buf][1][1]
                      /\ \A s \in stale : s.buf # c.buf
<1>3. PICK c : /\ rd' = [rd EXCEPT ![r] = c] /\ c \in [buf : Nat, row : Nat, got : Seq(Nat)]
               /\ c # Idle => Fine(c)
  <2>1. CASE Load(r)
    <3>1. PICK i \in DOMAIN heap[ptr] : rd' = [rd EXCEPT ![r] = [buf |-> ptr, row |-> i, got |-> << >>]]
      BY <2>1 DEF Load
    <3>2. i \in Nat
      <4>1. heap[ptr] \in AnyBuffer
        BY <1>2
      <4>. QED BY <4>1 DEF AnyBuffer
    <3> DEFINE c == [buf |-> ptr, row |-> i, got |-> << >>]
    <3>3. c \in [buf : Nat, row : Nat, got : Seq(Nat)] /\ c.buf = ptr /\ c.row = i /\ DOMAIN c.got = {}
      BY <1>2, <3>2
    <3>4. rd' = [rd EXCEPT ![r] = c]
      BY <3>1
    <3> HIDE DEF c
    <3>5. Fine(c)
      BY <1>2, <3>3
    <3>. QED BY <3>3, <3>4, <3>5
  <2>2. CASE GetList(r)
    <3> DEFINE old == rd[r]
               v == heap[old.buf][old.row][Len(old.got) + 1]
               c == [old EXCEPT !.got = Append(@, v)]
    <3>1. old # Idle /\ Len(old.got) < Tables /\ rd' = [rd EXCEPT ![r] = c]
      BY <1>2, <2>2 DEF GetList
    <3>2. old \in [buf : Nat, row : Nat, got : Seq(Nat)] /\ Fine(old)
      BY <1>2, <3>1 DEF BufferInv, ReadersInv
    <3> HIDE DEF old
    <3>3. v \in Nat /\ v = heap[old.buf][1][1]
      <4>1. heap[old.buf] \in AnyBuffer /\ Len(old.got) + 1 \in 1 .. Tables
        <5>1. old.buf \in DOMAIN heap
          BY <1>2, <3>1, <3>2
        <5>2. heap[old.buf] \in AnyBuffer
          BY <1>2, <5>1
        <5>3. Len(old.got) \in Nat /\ Tables \in Nat
          BY <3>2, PoolAssumption
        <5>. QED BY <3>1, <5>2, <5>3
      <4>2. PICK m \in Nat : heap[old.buf] \in [1 .. m -> [1 .. Tables -> Nat]]
        BY <4>1 DEF AnyBuffer
      <4>3. v = heap[old.buf][1][1]
        BY <3>2, <4>1 DEF Uniform
      <4>4. v \in Nat
        BY <3>2, <4>1, <4>2
      <4>. QED BY <4>3, <4>4
    <3> HIDE DEF v
    <3>4. /\ c \in [buf : Nat, row : Nat, got : Seq(Nat)] /\ c.buf = old.buf /\ c.row = old.row
          /\ c.got = Append(old.got, v)
      <4>1. old.got \in Seq(Nat) /\ old \in [buf : Nat, row : Nat, got : Seq(Nat)]
        BY <3>2
      <4>a. v \in Nat
        BY <3>3
      <4>b. PICK have \in Seq(Nat) : have = old.got
        BY <4>1
      <4>2. PICK g \in Seq(Nat) : g = Append(old.got, v)
        <5>1. Append(have, v) \in Seq(Nat)
          BY <4>a
        <5>. QED BY <4>b, <5>1
      <4>3. c = [old EXCEPT !.got = g]
        BY <4>2
      <4> HIDE DEF c
      <4>4. c \in [buf : Nat, row : Nat, got : Seq(Nat)] /\ c.buf = old.buf /\ c.row = old.row /\ c.got = g
        BY <4>1, <4>3
      <4>. QED BY <4>2, <4>4
    <3> HIDE DEF c
    <3>5. \A x \in DOMAIN c.got : c.got[x] = heap[old.buf][1][1]
      BY <3>2, <3>3, <3>4
    <3>6. Fine(c)
      BY <3>2, <3>4, <3>5
    <3>. QED BY <3>1, <3>4, <3>6
  <2>3. CASE Return(r)
    <3>1. rd' = [rd EXCEPT ![r] = Idle] /\ Idle \in [buf : Nat, row : Nat, got : Seq(Nat)]
      BY <2>3 DEF Return, Idle
    <3>. QED BY <3>1
  <2>. QED BY <2>1, <2>2, <2>3
<1>4. HeapTypeOK'
  BY <1>1, <1>2, <1>3 DEF HeapTypeOK
<1>5. OwnersInv' /\ WrittenInv' /\ Uniform(ptr)' /\ PublishedComplete'
  BY <1>1 DEF BufferInv, OwnersInv, WrittenInv, Uniform, PublishedComplete, ListWaits, Taken, Chunk,
              NumW, Items
<1>6. ReadersInv'
  <2>1. \A q \in Readers : rd[q] # Idle => Fine(rd[q])
    BY DEF BufferInv, ReadersInv
  <2>2. \A q \in Readers : rd'[q] # Idle => Fine(rd'[q])
    BY <1>2, <1>3, <2>1
  <2>3. \A b : Uniform(b)' <=> Uniform(b)
    BY <1>1 DEF Uniform
  <2>. QED BY <1>1, <2>2, <2>3 DEF ReadersInv, Idle
<1>. QED BY <1>4, <1>5, <1>6 DEF BufferInv

(* At the start the one buffer is published, and empty. *)
LEMMA InitBuffers == Init => HeapTypeOK /\ BufferInv
<1> SUFFICES ASSUME Init PROVE HeapTypeOK /\ BufferInv
  OBVIOUS
<1>1. /\ stage = "idle" /\ stale = {} /\ version = 1 /\ ptr = 1 /\ numPairs \in Nat
      /\ heap = <<EmptyBuffer(numPairs)>> /\ rd = [r \in Readers |-> Idle]
  BY PoolAssumption DEF Init
<1>2. EmptyBuffer(numPairs) \in AnyBuffer
  <2>1. EmptyBuffer(numPairs) \in [1 .. numPairs -> [1 .. Tables -> Nat]]
    BY DEF EmptyBuffer
  <2>. QED BY <1>1, <2>1 DEF AnyBuffer
<1>3. Uniform(ptr)
  <2>1. \A i \in 1 .. numPairs : 1 \in 1 .. numPairs /\ 1 \in 1 .. Tables
    BY <1>1, PoolAssumption
  <2>. QED BY <1>1, <2>1 DEF Uniform, EmptyBuffer
<1> HIDE DEF EmptyBuffer
<1>4. Len(heap) = 1 /\ heap \in Seq(AnyBuffer)
  BY <1>1, <1>2
<1>5. HeapTypeOK
  BY <1>1, <1>4 DEF HeapTypeOK, Idle
<1>. QED BY <1>1, <1>3, <1>4, <1>5 DEF BufferInv, OwnersInv, WrittenInv, ReadersInv, PublishedComplete

(* Every step keeps what is known of the buffers. *)
LEMMA StepBuffers == PoolInv /\ PoolInv' /\ HeapTypeOK /\ BufferInv /\ [Next]_vars => HeapTypeOK' /\ BufferInv'
<1> SUFFICES ASSUME PoolInv, PoolInv', HeapTypeOK, BufferInv, [Next]_vars
             PROVE  HeapTypeOK' /\ BufferInv'
  OBVIOUS
<1>1. version \in Nat /\ version > 0 /\ version + 1 \in Nat
  BY DEF PoolInv, PoolTypeOK, BufferInv, OwnersInv
<1>2. ASSUME NEW n \in PairCounts, BeginUpdate(n) PROVE HeapTypeOK' /\ BufferInv'
  BY <1>1, <1>2, EngineGoesOn DEF BeginUpdate, buffers
<1>3. ASSUME NEW n \in PairCounts, BeginWithoutUpdate(n) PROVE HeapTypeOK' /\ BufferInv'
  BY <1>3, RankBegins, PoolAssumption DEF BeginWithoutUpdate
<1>4. ASSUME BeginRank PROVE HeapTypeOK' /\ BufferInv'
  <2>1. numPairs \in Nat
    BY DEF PoolInv, PoolTypeOK
  <2>. QED BY <1>4, <2>1, RankBegins DEF BeginRank
<1>5. ASSUME NEW w \in DOMAIN tasks, UpdateRow(w) PROVE HeapTypeOK' /\ BufferInv'
  BY <1>1, <1>5, EngineGoesOn DEF UpdateRow, buffers
<1>6. ASSUME UNCHANGED vars PROVE HeapTypeOK' /\ BufferInv'
  BY <1>6 DEF vars, HeapTypeOK, BufferInv, OwnersInv, WrittenInv, ReadersInv, Uniform,
              PublishedComplete, ListWaits, Taken, Chunk, NumW, Items
<1>. QED BY <1>2, <1>3, <1>4, <1>5, <1>6, SpawnKeepsBuffers, RankListKeepsBuffers, ThrowKeepsBuffers,
            RethrowKeepsBuffers, RankStaleKeepsBuffers, PublishKeepsBuffers, ReadersKeepBuffers DEF Next

(* The buffers are what readers and tasks take them for, in every reachable *)
(* state.                                                                   *)
THEOREM BufferInvariant == Spec => [](HeapTypeOK /\ BufferInv)
<1>1. Init => PoolInv /\ HeapTypeOK /\ BufferInv
  BY InitPool, InitBuffers
<1>2. PoolInv /\ HeapTypeOK /\ BufferInv /\ [Next]_vars => (PoolInv /\ HeapTypeOK /\ BufferInv)'
  BY StepPool, StepBuffers
<1>. QED BY <1>1, <1>2, PTL DEF Spec

(* Whatever is published is complete and from one version of the matrix,    *)
(* with any number of workers and with tasks of failed cycles still running. *)
THEOREM PublishesComplete == Spec => []PublishedComplete
<1>1. BufferInv => PublishedComplete
  BY DEF BufferInv
<1>. QED BY <1>1, BufferInvariant, PTL

(* The lists that any number of concurrent readers collect are of one       *)
(* version each, however many cycles publish between their reads.           *)
THEOREM ReadsUntorn == Spec => []SnapshotUntorn
<1>1. HeapTypeOK /\ BufferInv => SnapshotUntorn
  <2> SUFFICES ASSUME HeapTypeOK, BufferInv, NEW r \in Readers, NEW x \in DOMAIN rd[r].got,
                      NEW y \in DOMAIN rd[r].got
               PROVE  rd[r].got[x] = rd[r].got[y]
    BY DEF SnapshotUntorn
  <2>1. rd[r] # Idle
    BY DEF Idle
  <2>. QED BY <2>1 DEF BufferInv, ReadersInv
<1>. QED BY <1>1, BufferInvariant, PTL

-----------------------------------------------------------------------------
(* The board *)

(* What a call of GetTopK is on the board. *)
CallOf(r) ==
  IF rd[r] = Idle THEN Board!None ELSE Board!Taken(heap[rd[r].buf][rd[r].row], rd[r].got)

BoardCalls == [r \in Readers |-> CallOf(r)]

(* The board of the first buffer, and no calls.                             *)
LEMMA BoardStarts == Init => Board!Init
<1> SUFFICES ASSUME Init PROVE Board!Init
  OBVIOUS
<1>1. heap[ptr] = Board!Filled(numPairs, 0) /\ numPairs \in PairCounts
  BY DEF Init, EmptyBuffer, Board!Filled
<1>2. \A r \in Readers : rd[r] = Idle
  BY DEF Init
<1>. QED BY <1>1, <1>2 DEF Init, Board!Init, Board!None

(* What writes to buffers that are neither published nor held changes       *)
(* nothing on the board.                                                    *)
LEMMA BoardStays ==
  ASSUME UNCHANGED <<rd, ptr>>, heap'[ptr] = heap[ptr],
         \A r \in Readers : rd[r] # Idle => heap'[rd[r].buf] = heap[rd[r].buf]
  PROVE  heap'[ptr'] = heap[ptr] /\ BoardCalls' = BoardCalls
<1>1. \A r \in Readers : CallOf(r)' = CallOf(r)
  BY DEF CallOf, Idle, Board!None, Board!Taken
<1>. QED BY <1>1 DEF BoardCalls

(* The buffers that are published or held exist already.                    *)
LEMMA SeenBuffers ==
  ASSUME HeapTypeOK, BufferInv
  PROVE  /\ Len(heap) \in Nat /\ DOMAIN heap = 1 .. Len(heap)
         /\ ptr \in 1 .. Len(heap)
         /\ \A r \in Readers : rd[r] # Idle => rd[r].buf \in 1 .. Len(heap) /\ rd[r].buf <= ptr
<1>1. /\ Len(heap) \in Nat /\ DOMAIN heap = 1 .. Len(heap) /\ ptr \in 1 .. Len(heap)
  BY DEF HeapTypeOK, BufferInv, OwnersInv
<1>2. ASSUME NEW r \in Readers, rd[r] # Idle PROVE rd[r].buf \in 1 .. Len(heap) /\ rd[r].buf <= ptr
  <2>1. rd[r].buf \in 1 .. ptr
    BY <1>2 DEF BufferInv, ReadersInv
  <2>. QED BY <1>1, <2>1
<1>. QED BY <1>1, <1>2

(* A task writes into its own buffer only.                                  *)
LEMMA OthersUnwritten ==
  ASSUME NEW task, NEW b \in DOMAIN heap, b # task.buf
  PROVE  Ranked(task)[b] = heap[b]
BY DEF Ranked

(* Starting a phase or a cycle, and putting a new buffer behind the others. *)
LEMMA NewBufferUnseen ==
  ASSUME HeapTypeOK, BufferInv, NEW m \in Nat, heap' = Append(heap, EmptyBuffer(m)),
         UNCHANGED <<rd, ptr>>
  PROVE  heap'[ptr'] = heap[ptr] /\ BoardCalls' = BoardCalls
<1>1. \A b \in 1 .. Len(heap) : heap'[b] = heap[b]
  BY NewBufferFacts
<1>. QED BY <1>1, SeenBuffers, BoardStays

(* What is published is filled from the version of this cycle.              *)
LEMMA PublishReplaces ==
  ASSUME HeapTypeOK, BufferInv, HeapTypeOK', BufferInv', PoolInv, Publish
  PROVE  heap'[ptr'] = Board!Filled(numPairs, version)
<1>1. /\ heap' = heap /\ ptr' = Len(heap) /\ stage' = "idle" /\ stage = "phase2"
      /\ version' = version /\ numPairs' = numPairs
  BY DEF Publish
<1>2. ptr' > 1
  BY <1>1 DEF HeapTypeOK, BufferInv, OwnersInv
<1> DEFINE h == heap'[ptr']
<1>3. /\ \A i \in DOMAIN h : \A t \in 1 .. Tables : h[i][t] = h[1][1]
      /\ Len(h) = numPairs
      /\ \A i \in DOMAIN h : h[i][1] = version
  BY <1>1, <1>2 DEF BufferInv, PublishedComplete
<1>4. PICK m \in Nat : h \in [1 .. m -> [1 .. Tables -> Nat]]
  <2>1. h \in AnyBuffer
    BY <1>1 DEF HeapTypeOK, BufferInv, OwnersInv
  <2>. QED BY <2>1 DEF AnyBuffer
<1> HIDE DEF h
<1>5. DOMAIN h = 1 .. numPairs
  <2>1. h \in Seq([1 .. Tables -> Nat]) /\ Len(h) = m
    BY <1>4
  <2>. QED BY <1>3, <2>1
<1>6. \A i \in 1 .. numPairs : h[i] = [t \in 1 .. Tables |-> version]
  <2> SUFFICES ASSUME NEW i \in 1 .. numPairs PROVE h[i] = [t \in 1 .. Tables |-> version]
    OBVIOUS
  <2>1. h[i] \in [1 .. Tables -> Nat]
    BY <1>4, <1>5
  <2>2. 1 \in 1 .. Tables
    BY PoolAssumption
  <2>3. \A t \in 1 .. Tables : h[i][t] = version
    BY <1>3, <1>5, <2>2
  <2>. QED BY <2>1, <2>3
<1>7. h = [i \in 1 .. numPairs |-> [t \in 1 .. Tables |-> version]]
  BY <1>4, <1>5, <1>6
<1>. QED BY <1>7 DEF h, Board!Filled

LEMMA AppendNotEmpty ==
  ASSUME NEW s \in Seq(Nat), NEW x
  PROVE  Append(s, x) # << >>
<1>1. Len(Append(s, x)) = Len(s) + 1 /\ Len(s) \in Nat
  OBVIOUS
<1>2. Len(Append(s, x)) # 0
  BY <1>1
<1>. QED BY <1>2

(* The steps of a reader are those of a call that has its own copy.         *)
LEMMA ReaderOnBoard ==
  ASSUME HeapTypeOK, BufferInv, NEW r \in Readers, Load(r) \/ GetList(r) \/ Return(r)
  PROVE  Board!Next
<1>1. /\ heap' = heap /\ ptr' = ptr /\ version' = version
      /\ rd \in [Readers -> [buf : Nat, row : Nat, got : Seq(Nat)]]
  BY DEF Load, GetList, Return, buffers, engine, HeapTypeOK
<1>2. ASSUME NEW c, rd' = [rd EXCEPT ![r] = c]
      PROVE  BoardCalls' = [BoardCalls EXCEPT ![r] = IF c = Idle THEN Board!None
                                             ELSE Board!Taken(heap[c.buf][c.row], c.got)]
  <2>1. \A q \in Readers : rd'[q] = IF q = r THEN c ELSE rd[q]
    BY <1>1, <1>2
  <2>2. \A q \in Readers :
          CallOf(q)' = IF q = r THEN IF c = Idle THEN Board!None ELSE Board!Taken(heap[c.buf][c.row], c.got)
                       ELSE CallOf(q)
    BY <1>1, <2>1 DEF CallOf, Idle, Board!None, Board!Taken
  <2>. QED BY <2>2 DEF BoardCalls
<1>3. BoardCalls[r] = CallOf(r)
  BY DEF BoardCalls
<1>4. CASE Load(r)
  <2>1. PICK i \in DOMAIN heap[ptr] : rd' = [rd EXCEPT ![r] = [buf |-> ptr, row |-> i, got |-> << >>]]
    BY <1>4 DEF Load
  <2> DEFINE c == [buf |-> ptr, row |-> i, got |-> << >>]
  <2>2. /\ rd' = [rd EXCEPT ![r] = c]
        /\ c.buf = ptr /\ c.row = i /\ c.got = << >>
        /\ c # Idle
    BY <2>1 DEF Idle, HeapTypeOK, BufferInv, OwnersInv
  <2> HIDE DEF c
  <2>3. BoardCalls' = [BoardCalls EXCEPT ![r] = Board!Taken(heap[ptr][i], << >>)]
    BY <1>2, <2>2
  <2>4. BoardCalls[r] = Board!None
    BY <1>3, <1>4 DEF Load, CallOf
  <2>5. Board!Take(r)
    BY <1>1, <2>3, <2>4 DEF Board!Take, BoardCalls, CallOf, Board!None, Board!Taken
  <2>. QED BY <2>5 DEF Board!Next
<1>5. CASE GetList(r)
  <2> DEFINE old == rd[r]
             list == heap[old.buf][old.row]
             c == [old EXCEPT !.got = Append(@, list[Len(@) + 1])]
  <2>1. old # Idle /\ Len(old.got) < Tables /\ rd' = [rd EXCEPT ![r] = c]
    BY <1>1, <1>5 DEF GetList
  <2>2. old \in [buf : Nat, row : Nat, got : Seq(Nat)]
    BY <1>1
  <2>3. c.buf = old.buf /\ c.row = old.row /\ c.got = Append(old.got, list[Len(old.got) + 1])
    BY <2>2
  <2>4. c # Idle
    <3> HIDE DEF c, list, old
    <3>1. PICK got \in Seq(Nat) : got = old.got
      BY <2>2
    <3>2. Append(got, list[Len(got) + 1]) # << >>
      BY AppendNotEmpty
    <3>. QED BY <2>3, <3>1, <3>2 DEF Idle
  <2>5. CallOf(r) = Board!Taken(list, old.got)
    BY <2>1 DEF CallOf
  <2> HIDE DEF old, c
  <2>6. BoardCalls' = [BoardCalls EXCEPT ![r] = Board!Taken(heap[c.buf][c.row], c.got)]
    BY <1>2, <2>1, <2>4
  <2>7. BoardCalls' = [BoardCalls EXCEPT ![r] = Board!Taken(list, Append(old.got, list[Len(old.got) + 1]))]
    BY <2>3, <2>6
  <2>8. BoardCalls[r] = Board!Taken(list, old.got)
    BY <1>3, <2>5
  <2> HIDE DEF list
  <2>9. Board!Read(r)
    BY <1>1, <2>1, <2>7, <2>8 DEF Board!Read, BoardCalls, CallOf, Board!None, Board!Taken
  <2>. QED BY <2>9 DEF Board!Next
<1>6. CASE Return(r)
  <2>1. rd' = [rd EXCEPT ![r] = Idle] /\ Len(rd[r].got) = Tables
    BY <1>6 DEF Return
  <2>2. rd[r] # Idle
    BY <2>1, PoolAssumption DEF Idle
  <2>3. BoardCalls' = [BoardCalls EXCEPT ![r] = Board!None]
    BY <1>2, <2>1
  <2>4. BoardCalls[r] = Board!Taken(heap[rd[r].buf][rd[r].row], rd[r].got)
    BY <1>3, <2>2 DEF CallOf
  <2>5. Board!Return(r)
    BY <1>1, <2>1, <2>3, <2>4 DEF Board!Return, BoardCalls, CallOf, Board!None, Board!Taken
  <2>. QED BY <2>5 DEF Board!Next
<1>. QED BY <1>4, <1>5, <1>6

(* Every step of the engine, of its tasks and of the readers is one of the   *)
(* board or is not seen on it.                                              *)
LEMMA BoardSteps ==
  ASSUME PoolInv, HeapTypeOK, BufferInv, HeapTypeOK', BufferInv', numPairs \in PairCounts, [Next]_vars
  PROVE  [Board!Next]_(Board!vars)
<1> DEFINE Stutters == version' = version /\ heap'[ptr'] = heap[ptr] /\ BoardCalls' = BoardCalls
<1>1. Stutters => UNCHANGED Board!vars
  BY DEF Board!vars, BoardCalls, CallOf, Board!None, Board!Taken
<1>2. ASSUME UNCHANGED <<heap, ptr, rd>>
      PROVE  heap'[ptr'] = heap[ptr] /\ BoardCalls' = BoardCalls
  BY <1>2, BoardStays
<1>3. ASSUME NEW m \in PairCounts, BeginUpdate(m) PROVE Board!Update
  <2>1. version' = version + 1 /\ heap'[ptr'] = heap[ptr] /\ BoardCalls' = BoardCalls
    BY <1>2, <1>3 DEF BeginUpdate, buffers
  <2>. QED BY <2>1 DEF Board!Update, BoardCalls, CallOf, Board!None, Board!Taken
<1>4. ASSUME NEW m \in PairCounts, BeginWithoutUpdate(m) PROVE Stutters
  BY <1>4, NewBufferUnseen, PoolAssumption DEF BeginWithoutUpdate
<1>5. BeginRank => Stutters
  BY NewBufferUnseen DEF BeginRank, PoolInv, PoolTypeOK
<1>6. Spawn \/ Rethrow => Stutters
  BY <1>2 DEF Spawn, Rethrow, buffers
<1>7. ASSUME NEW w \in DOMAIN tasks, UpdateRow(w) \/ Throw(w) PROVE Stutters
  BY <1>2, <1>7 DEF UpdateRow, Throw, buffers
<1>8. ASSUME NEW task, task.buf # ptr, heap' = Ranked(task), UNCHANGED <<version, ptr, rd>>,
             \A r \in Readers : rd[r] # Idle => task.buf # rd[r].buf
      PROVE  Stutters
  <2>1. heap'[ptr] = heap[ptr]
    BY <1>8, SeenBuffers, OthersUnwritten
  <2>2. \A r \in Readers : rd[r] # Idle => heap'[rd[r].buf] = heap[rd[r].buf]
    BY <1>8, SeenBuffers, OthersUnwritten
  <2>. QED BY <1>8, <2>1, <2>2, BoardStays
<1>9. ASSUME NEW w \in DOMAIN tasks, RankList(w) PROVE Stutters
  <2>1. ptr < Len(heap) /\ tasks[w].buf = Len(heap)
    BY <1>9 DEF RankList, BufferInv, OwnersInv
  <2>2. tasks[w].buf # ptr /\ \A r \in Readers : rd[r] # Idle => tasks[w].buf # rd[r].buf
    BY <2>1, SeenBuffers
  <2>. QED BY <1>8, <1>9, <2>2 DEF RankList
<1>10. ASSUME NEW s \in stale, RankStale(s) PROVE Stutters
  <2>1. s.buf # ptr /\ \A r \in Readers : rd[r] # Idle => s.buf # rd[r].buf
    BY DEF BufferInv, OwnersInv, ReadersInv
  <2>2. CASE heap' = Ranked(s)
    BY <1>8, <1>10, <2>1, <2>2 DEF RankStale
  <2>3. CASE heap' = heap
    BY <1>2, <1>10, <2>3 DEF RankStale
  <2>. QED BY <1>10, <2>2, <2>3 DEF RankStale
<1>11. ASSUME Publish PROVE Board!Replace(numPairs)
  <2>1. heap'[ptr'] = Board!Filled(numPairs, version)
    BY <1>11, PublishReplaces
  <2>2. heap' = heap /\ rd' = rd /\ version' = version
    BY <1>11 DEF Publish
  <2>3. BoardCalls' = BoardCalls
    BY <2>2 DEF BoardCalls, CallOf, Idle, Board!None, Board!Taken
  <2>. QED BY <2>1, <2>2, <2>3 DEF Board!Replace, BoardCalls, CallOf, Board!None, Board!Taken
<1>12. UNCHANGED vars => Stutters
  BY <1>2 DEF vars
<1> HIDE DEF Stutters
<1>. QED BY <1>1, <1>3, <1>4, <1>5, <1>6, <1>7, <1>9, <1>10, <1>11, <1>12, ReaderOnBoard
         DEF Next, Board!Next

(* The number of pairs is always one that a cycle may find.                 *)
LEMMA CountsKept ==
  /\ Init => numPairs \in PairCounts
  /\ numPairs \in PairCounts /\ [Next]_vars => numPairs' \in PairCounts
BY DEF Init, Next, vars, BeginUpdate, BeginWithoutUpdate, Spawn, UpdateRow, RankList, Throw, Rethrow,
       RankStale, BeginRank, Publish, Load, GetList, Return, engine

(* To its readers a cycle is atomic, in Go, Kotlin and rust-impl, with any   *)
(* workers and readers: what they see is a board that is replaced as a      *)
(* whole, never by an older one, and each call reads its own copy of it,     *)
(* although there are no copies and tasks of failed cycles still write.      *)
THEOREM CyclesAreAtomic == Spec => BoardImplemented
<1>1. Init => PoolInv /\ HeapTypeOK /\ BufferInv /\ numPairs \in PairCounts
  BY InitPool, InitBuffers, CountsKept
<1>2. PoolInv /\ HeapTypeOK /\ BufferInv /\ numPairs \in PairCounts /\ [Next]_vars
        => (PoolInv /\ HeapTypeOK /\ BufferInv /\ numPairs \in PairCounts)' /\ [Board!Next]_(Board!vars)
  BY StepPool, StepBuffers, CountsKept, BoardSteps
<1>. QED BY <1>1, <1>2, BoardStarts, PTL DEF Spec, BoardImplemented, Board!Spec

-----------------------------------------------------------------------------
(* The copy-on-write map *)

(* A writer past Enter and not yet back is alone there: with the lock it    *)
(* owns it.                                                                 *)
Inside == {"locked", "copied", "stored"}

OwnersInside == \A w \in Writers : Locked /\ wr[w].at \in Inside => mu = w

(* What Activate of go-pure-impl has seen is still so when it stores.       *)
StillWarming ==
  \A w \in Writers :
    Guarded /\ wr[w].at = "copied" /\ wr[w].status = "Active" => map[wr[w].key] = "WarmingUp"

CowInv == TypeOK /\ OwnersInside /\ CopyIsFresh /\ StillWarming

(* The map starts in the invariant.                                         *)
LEMMA InitCow == CowInit => CowInv
  BY CowAssumption
  DEF CowInit, CowInv, TypeOK, Maps, Statuses, Calls, OwnersInside, Inside, CopyIsFresh, StillWarming

(* No two writers are inside at once. *)
LEMMA Alone ==
  ASSUME OwnersInside, NEW v \in Writers, NEW w \in Writers, wr[v].at \in Inside, wr[w].at \in Inside
  PROVE  v = w
  BY CowAssumption DEF OwnersInside

(* Every step keeps the invariant: no copy is stored while another writer   *)
(* has one in hand.                                                         *)
LEMMA StepCow == CowInv /\ [CowNext]_cowVars => CowInv'
<1> SUFFICES ASSUME CowInv, [CowNext]_cowVars PROVE CowInv'
  OBVIOUS
<1> USE DEF CowInv
<1>1. CASE UNCHANGED cowVars
  BY <1>1 DEF cowVars, TypeOK, OwnersInside, CopyIsFresh, StillWarming
<1>2. ASSUME NEW w \in Writers, NEW k \in Keys, NEW s \in Statuses \ {"None"}, Call(w, k, s)
      PROVE  CowInv'
  <2> DEFINE c == [at |-> "waiting", key |-> k, status |-> s]
  <2>1. c \in Calls
    BY <1>2 DEF Calls
  <2>2. wr' = [wr EXCEPT ![w] = c] /\ UNCHANGED <<map, mu>>
    BY <1>2 DEF Call
  <2> HIDE DEF c
  <2>3. TypeOK'
    BY <2>1, <2>2 DEF TypeOK
  <2>4. c.at = "waiting"
    BY DEF c
  <2>5. QED
    BY <2>2, <2>3, <2>4 DEF TypeOK, OwnersInside, Inside, CopyIsFresh, StillWarming
<1>3. ASSUME NEW w \in Writers, Enter(w) PROVE CowInv'
  <2>1. PICK k \in Keys, s \in Statuses \ {"None"} : wr[w] = [at |-> "waiting", key |-> k, status |-> s]
    BY <1>3 DEF Enter, TypeOK, Calls
  <2>a. [wr[w] EXCEPT !.at = "locked"] = [at |-> "locked", key |-> k, status |-> s]
    BY <2>1
  <2>b. wr' = [wr EXCEPT ![w] = [wr[w] EXCEPT !.at = "locked"]] /\ UNCHANGED map
    BY <1>3 DEF Enter
  <2>2. wr' = [wr EXCEPT ![w] = [at |-> "locked", key |-> k, status |-> s]] /\ UNCHANGED map
    BY <2>a, <2>b
  <2>3. [at |-> "locked", key |-> k, status |-> s] \in Calls
    BY DEF Calls
  <2>4. TypeOK'
    BY <1>3, <2>2, <2>3 DEF Enter, TypeOK
  <2>5. OwnersInside'
    BY <1>3, <2>2, CowAssumption DEF Enter, TypeOK, OwnersInside, Inside
  <2>6. QED
    BY <2>2, <2>4, <2>5 DEF TypeOK, CopyIsFresh, StillWarming
<1>4. ASSUME NEW w \in Writers, ReturnEarly(w) PROVE CowInv'
  <2>1. [at |-> "idle"] \in Calls
    BY DEF Calls
  <2>2. wr' = [wr EXCEPT ![w] = [at |-> "idle"]] /\ wr[w].at = "locked" /\ UNCHANGED map
    BY <1>4 DEF ReturnEarly
  <2>3. TypeOK'
    BY <1>4, <2>1, <2>2 DEF ReturnEarly, TypeOK
  <2>4. OwnersInside'
    BY <1>4, <2>2, Alone DEF ReturnEarly, TypeOK, OwnersInside, Inside
  <2>5. QED
    BY <2>2, <2>3, <2>4 DEF TypeOK, CopyIsFresh, StillWarming
<1>5. ASSUME NEW w \in Writers, Copy(w) PROVE CowInv'
  <2>1. PICK k \in Keys, s \in Statuses \ {"None"} : wr[w] = [at |-> "locked", key |-> k, status |-> s]
    BY <1>5 DEF Copy, TypeOK, Calls
  <2> DEFINE c == [at |-> "copied", key |-> k, status |-> s, copy |-> [map EXCEPT ![k] = s]]
  <2>2. c \in Calls
    BY DEF Calls, TypeOK, Maps
  <2>3. wr' = [wr EXCEPT ![w] = c] /\ UNCHANGED <<map, mu>>
    BY <1>5, <2>1 DEF Copy
  <2>4. c.at = "copied" /\ c.key = k /\ c.status = s /\ c.copy = [map EXCEPT ![k] = s]
    OBVIOUS
  <2>5. Guarded /\ s = "Active" => map[k] = "WarmingUp"
    BY <1>5, <2>1 DEF Copy
  <2> HIDE DEF c
  <2>6. TypeOK'
    BY <2>2, <2>3 DEF TypeOK
  <2>7. OwnersInside'
    BY <2>1, <2>3 DEF TypeOK, OwnersInside, Inside
  <2>8. CopyIsFresh' /\ StillWarming'
    BY <2>3, <2>4, <2>5 DEF TypeOK, CopyIsFresh, StillWarming
  <2>9. QED
    BY <2>6, <2>7, <2>8
<1>6. ASSUME NEW w \in Writers, Store(w) PROVE CowInv'
  <2>1. [at |-> "stored"] \in Calls /\ wr[w].copy \in Maps
    BY <1>6 DEF Store, TypeOK, Calls
  <2>2. wr' = [wr EXCEPT ![w] = [at |-> "stored"]] /\ wr[w].at = "copied" /\ UNCHANGED mu
    BY <1>6 DEF Store
  <2>3. TypeOK'
    BY <1>6, <2>1, <2>2 DEF Store, TypeOK
  <2>4. OwnersInside'
    BY <2>2 DEF TypeOK, OwnersInside, Inside
  <2>5. \A v \in Writers : wr'[v].at # "copied"
    BY <2>2, Alone DEF TypeOK, Inside
  <2>6. QED
    BY <2>3, <2>4, <2>5 DEF CopyIsFresh, StillWarming
<1>7. ASSUME NEW w \in Writers, Unlock(w) PROVE CowInv'
  <2>1. [at |-> "idle"] \in Calls
    BY DEF Calls
  <2>2. wr' = [wr EXCEPT ![w] = [at |-> "idle"]] /\ wr[w].at = "stored" /\ UNCHANGED map
    BY <1>7 DEF Unlock
  <2>3. TypeOK'
    BY <1>7, <2>1, <2>2 DEF Unlock, TypeOK
  <2>4. OwnersInside'
    BY <1>7, <2>2, Alone DEF Unlock, TypeOK, OwnersInside, Inside
  <2>5. QED
    BY <2>2, <2>3, <2>4 DEF TypeOK, CopyIsFresh, StillWarming
<1>8. ASSUME NEW w \in Writers, NEW k \in Keys, AddWarmingUp(w, k) \/ Activate(w, k) \/ Remove(w, k)
      PROVE  CowInv'
  BY <1>8, <1>2 DEF AddWarmingUp, Activate, Remove, Statuses
<1>9. QED
  BY <1>1, <1>3, <1>4, <1>5, <1>6, <1>7, <1>8 DEF CowNext, Write

(* The invariant of the copy-on-write map.                                  *)
THEOREM CowInvariant == CowSpec => []CowInv
  BY InitCow, StepCow, PTL DEF CowSpec

(* A copy that is about to be stored misses no write that was stored since  *)
(* it was taken.                                                            *)
THEOREM FreshCopies == CowSpec => []CopyIsFresh
<1>1. CowInv => CopyIsFresh
  BY DEF CowInv
<1>2. QED
  BY <1>1, CowInvariant, PTL

(* The map starts as the atomic map does.                                   *)
LEMMA RefineInit == CowInit => Atomic!Init
  BY DEF CowInit, Atomic!Init

(* Storing a copy is a step of the atomic map, everything else changes      *)
(* nothing it shows.                                                        *)
LEMMA RefineStep == CowInv /\ [CowNext]_cowVars => [Atomic!Next]_map
<1> SUFFICES ASSUME CowInv, CowNext, map' # map PROVE Atomic!Next
  BY DEF cowVars
<1>1. PICK w \in Writers : Store(w)
  BY DEF CowNext, AddWarmingUp, Activate, Remove, Call, Enter, Write, ReturnEarly, Copy, Unlock
<1>2. PICK k \in Keys, s \in Statuses \ {"None"} : wr[w].key = k /\ wr[w].status = s
  BY <1>1 DEF Store, CowInv, TypeOK, Calls
<1>3. map' = [map EXCEPT ![k] = s]
  BY <1>1, <1>2 DEF Store, CowInv, CopyIsFresh
<1>4. Guarded /\ s = "Active" => map[k] = "WarmingUp"
  BY <1>1, <1>2 DEF Store, CowInv, StillWarming
<1>5. Atomic!Set(k, s)
  BY <1>3, <1>4 DEF Atomic!Set
<1>6. QED
  BY <1>5 DEF Atomic!Next, Atomic!Statuses, Statuses

(* The copy-on-write map of all four implementations is an atomic map: no   *)
(* update is lost, and go-pure-impl's Activate decides by the status it     *)
(* replaces.  For rust-impl this rests on the engine being the only writer. *)
THEOREM MapIsAtomic == CowSpec => AtomicMap
<1>1. CowInv /\ [CowNext]_cowVars => [Atomic!Next]_map
  BY RefineStep
<1>2. QED
  BY <1>1, RefineInit, CowInvariant, PTL DEF CowSpec, AtomicMap, Atomic!Spec

=============================================================================
