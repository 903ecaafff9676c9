------------------------ MODULE KMeansParallel_proofs ------------------------
(***************************************************************************)
(* The parallel fit.  The blocks WorkerThreadChunkParams::compute hands    *)
(* out never overlap, and cover every row when there are at most           *)
(* min_chunk_size + 2 threads.  The spin barrier is correct for every data *)
(* set, every number of rounds and clusters, and every number of threads   *)
(* from 2 to min_chunk_size + 2: the caller is alone when it resets,       *)
(* accumulates and divides, no bump of the counter is lost, no label is    *)
(* raced for, and every label the means are computed from belongs to the   *)
(* current round.  And there is no data race on its labels and centroids:  *)
(* the release and acquire operations of the barrier order all plain       *)
(* accesses that conflict.                                                 *)
(***************************************************************************)
EXTENDS KMeansParallelHB, Lloyd_proofs

(* The blocks. *)

LEMMA DivModFacts ==
    ASSUME NEW n \in Nat, NEW m \in Nat \ {0}
    PROVE  /\ n \div m \in Nat
           /\ (n \div m) * m <= n
           /\ n < (n \div m) * m + m
  OBVIOUS

LEMMA ChunkSizeType ==
    ASSUME NEW n \in Nat, NEW threads \in Nat \ {1}, NEW min \in Nat
    PROVE  ChunkSize(n, threads, min) \in Nat /\ min <= ChunkSize(n, threads, min)
  <1>1. CASE threads = 0
    BY <1>1 DEF ChunkSize, Larger
  <1>2. CASE threads # 0
    <2>1. n \div (threads - 1) \in Nat
      BY <1>2, DivModFacts
    <2> QED BY <1>2, <2>1 DEF ChunkSize, Larger
  <1> QED BY <1>1, <1>2

LEMMA ChunkBounds ==
    ASSUME NEW n \in Nat, NEW threads \in Nat \ {1}, NEW min \in Nat, NEW t \in Nat
    PROVE  /\ ChunkStart(t, n, threads, min) \in 0 .. n
           /\ ChunkEnd(t, n, threads, min) \in ChunkStart(t, n, threads, min) .. n
  <1> DEFINE c == ChunkSize(n, threads, min)
  <1>1. c \in Nat
    BY ChunkSizeType
  <1>2. t * c \in Nat
    BY <1>1
  <1>3. ChunkStart(t, n, threads, min) \in 0 .. n
    BY <1>2 DEF ChunkStart, Smaller
  <1> QED BY <1>1, <1>3 DEF ChunkEnd, Smaller

(* A row below the end of the blocks of threads 0 .. threads - 1 is in the  *)
(* block numbered by the quotient of the row and the chunk size.            *)
LEMMA RowInChunk ==
    ASSUME NEW n \in Nat, NEW threads \in Nat \ {1}, NEW min \in Nat \ {0},
           NEW i \in 0 .. n - 1
    PROVE  /\ i \div ChunkSize(n, threads, min) \in Nat
           /\ i \in Chunk(i \div ChunkSize(n, threads, min), n, threads, min)
  <1> DEFINE c == ChunkSize(n, threads, min)
             t == i \div c
  <1>1. c \in Nat \ {0}
    BY ChunkSizeType
  <1> HIDE DEF c
  <1>2. t \in Nat /\ t * c <= i /\ i < t * c + c
    BY <1>1, DivModFacts
  <1>3. t * c \in Nat
    BY <1>1, <1>2
  <1> HIDE DEF t
  <1>4. ChunkStart(t, n, threads, min) = t * c
    BY <1>2, <1>3 DEF ChunkStart, Smaller, c
  <1>5. i < ChunkEnd(t, n, threads, min)
    BY <1>1, <1>2, <1>3, <1>4 DEF ChunkEnd, Smaller, c
  <1>6. ChunkEnd(t, n, threads, min) \in Int
    BY <1>2, ChunkBounds
  <1> QED BY <1>2, <1>4, <1>5, <1>6 DEF Chunk, t, c

(* What the threads label is all rows but a tail, which is shorter than    *)
(* the number of threads less two and less a chunk: chunks are the rows    *)
(* divided by the number of workers, rounded down, and the one block more  *)
(* makes up for a rounding loss of one chunk at most.                      *)
THEOREM ChunksCoverButTail ==
    ASSUME NEW n \in Nat, NEW min \in Nat \ {0}, NEW threads \in Nat \ {0, 1}
    PROVE  \E lost \in 0 .. Larger(0, threads - 2 - ChunkSize(n, threads, min)) :
              UNION {Chunk(t, n, threads, min) : t \in 0 .. threads - 1} = 0 .. n - lost - 1
  <1> DEFINE c == ChunkSize(n, threads, min)
             m == threads - 1
             q == n \div m
             lost == Larger(0, n - threads * c)
  <1>1. m \in Nat \ {0} /\ threads \in Nat \ {1}
    OBVIOUS
  <1>2. c \in Nat \ {0}
    BY <1>1, ChunkSizeType
  <1>3. q \in Nat /\ n < q * m + m
    BY <1>1, DivModFacts
  <1>4. q <= c
    BY <1>1, <1>3 DEF ChunkSize, Larger
  <1> HIDE DEF c, q
  <1>5. n - threads * c <= threads - 2 - c
    <2>1. q * m <= c * m
      BY <1>1, <1>2, <1>3, <1>4
    <2>2. q * m \in Nat /\ c * m \in Nat
      BY <1>1, <1>2, <1>3
    <2>3. threads * c = c * m + c
      BY <1>1, <1>2
    <2> QED BY <1>1, <1>2, <1>3, <2>1, <2>2, <2>3
  <1>6. threads * c \in Nat
    BY <1>2
  <1>7. lost \in 0 .. Larger(0, threads - 2 - c)
    BY <1>2, <1>5, <1>6 DEF Larger
  <1>8. ASSUME NEW i \in 0 .. n - lost - 1
        PROVE  \E t \in 0 .. threads - 1 : i \in Chunk(t, n, threads, min)
    <2> DEFINE t == i \div c
    <2>1. i \in 0 .. n - 1 /\ i < threads * c
      BY <1>6 DEF Larger
    <2>2. t \in Nat /\ t * c <= i
      BY <1>2, <2>1, DivModFacts
    <2>3. i \in Chunk(t, n, threads, min)
      BY <1>1, <2>1, RowInChunk DEF c
    <2> HIDE DEF t
    <2>4. t < threads
      <3>1. SUFFICES ASSUME t >= threads PROVE FALSE
        BY <2>2
      <3>2. t * c >= threads * c
        BY <1>2, <2>2, <3>1
      <3>3. t * c \in Nat
        BY <1>2, <2>2
      <3> QED BY <1>6, <2>1, <2>2, <3>2, <3>3
    <2> QED BY <2>2, <2>3, <2>4
  <1>9. ASSUME NEW t \in 0 .. threads - 1, NEW i \in Chunk(t, n, threads, min)
        PROVE  i \in 0 .. n - lost - 1
    <2>1. /\ ChunkStart(t, n, threads, min) \in 0 .. n
          /\ ChunkEnd(t, n, threads, min) \in ChunkStart(t, n, threads, min) .. n
      BY <1>1, ChunkBounds
    <2>2. i \in Int /\ 0 <= i /\ i < ChunkEnd(t, n, threads, min) /\ i < n
      BY <2>1 DEF Chunk
    <2>3. t * c + c <= threads * c /\ t * c \in Nat
      <3>1. (t + 1) * c <= threads * c
        BY <1>2
      <3>2. (t + 1) * c = t * c + c /\ t * c \in Nat
        BY <1>2
      <3> QED BY <3>1, <3>2
    <2>4. i < threads * c
      BY <1>2, <1>6, <2>2, <2>3 DEF ChunkEnd, ChunkStart, Smaller, c
    <2> QED BY <1>6, <2>2, <2>4 DEF Larger
  <1>10. UNION {Chunk(t, n, threads, min) : t \in 0 .. threads - 1} = 0 .. n - lost - 1
    <2> HIDE DEF lost
    <2> QED BY <1>8, <1>9
  <1> QED BY <1>7, <1>10 DEF c

(* Every row has a thread that labels it, for every data set, as long as    *)
(* at least two and at most min_chunk_size + 2 threads run.                 *)
THEOREM ChunksCover ==
    ASSUME NEW n \in Nat, NEW min \in Nat \ {0}, NEW threads \in 2 .. min + 2,
           NEW i \in 0 .. n - 1
    PROVE  \E t \in 0 .. threads - 1 : i \in Chunk(t, n, threads, min)
  <1>1. threads \in Nat \ {0, 1}
    OBVIOUS
  <1>2. ChunkSize(n, threads, min) \in Nat /\ min <= ChunkSize(n, threads, min)
    BY <1>1, ChunkSizeType
  <1>3. Larger(0, threads - 2 - ChunkSize(n, threads, min)) = 0
    BY <1>2 DEF Larger
  <1>4. PICK lost \in 0 .. Larger(0, threads - 2 - ChunkSize(n, threads, min)) :
           UNION {Chunk(t, n, threads, min) : t \in 0 .. threads - 1} = 0 .. n - lost - 1
    BY <1>1, ChunksCoverButTail
  <1>5. i \in 0 .. n - lost - 1
    BY <1>3
  <1> QED BY <1>4, <1>5

(* Two threads never have a row in common. *)
THEOREM ChunksDisjoint ==
    ASSUME NEW n \in Nat, NEW min \in Nat, NEW threads \in Nat \ {1},
           NEW t \in Nat, NEW u \in Nat, t # u
    PROVE  Chunk(t, n, threads, min) \cap Chunk(u, n, threads, min) = {}
  <1> DEFINE c == ChunkSize(n, threads, min)
  <1>1. c \in Nat
    BY ChunkSizeType
  <1> HIDE DEF c
  <1>2. ASSUME NEW a \in Nat, NEW b \in Nat, a < b
        PROVE  ChunkEnd(a, n, threads, min) <= ChunkStart(b, n, threads, min)
    <2>1. a * c + c <= b * c
      <3>1. (a + 1) * c <= b * c
        BY <1>1, <1>2
      <3>2. (a + 1) * c = a * c + c
        BY <1>1
      <3> QED BY <3>1, <3>2
    <2>2. a * c \in Nat /\ b * c \in Nat
      BY <1>1
    <2> QED BY <1>1, <2>1, <2>2 DEF ChunkStart, ChunkEnd, Smaller, c
  <1>3. \A a \in Nat : /\ ChunkStart(a, n, threads, min) \in Int
                       /\ ChunkEnd(a, n, threads, min) \in Int
    BY ChunkBounds
  <1>4. CASE t < u
    BY <1>2, <1>3, <1>4 DEF Chunk
  <1>5. CASE u < t
    BY <1>2, <1>3, <1>5 DEF Chunk
  <1> QED BY <1>4, <1>5

(* No row is in two blocks and only a bounded tail is in none, for all     *)
(* arguments the blocks are compared for, whatever these are.              *)
LEMMA BlocksCompared == BlocksDisjoint /\ UncoveredTail
  <1>1. BlocksDisjoint
    <2> SUFFICES ASSUME NEW n \in 0 .. MaxPoints, NEW threads \in ThreadCounts,
                        NEW min \in MinChunks,
                        NEW t \in ThreadIds(threads), NEW u \in ThreadIds(threads), t < u
                 PROVE  Chunk(t, n, threads, min) \cap Chunk(u, n, threads, min) = {}
      BY DEF BlocksDisjoint
    <2>1. n \in Nat /\ threads \in Nat \ {1} /\ min \in Nat
      BY ChunkAssumption
    <2>2. t \in Nat /\ u \in Nat /\ t # u
      BY <2>1 DEF ThreadIds
    <2> QED BY <2>1, <2>2, ChunksDisjoint
  <1>2. UncoveredTail
    <2> SUFFICES ASSUME NEW n \in 0 .. MaxPoints, NEW min \in MinChunks,
                        NEW threads \in ThreadCounts \ {0}
                 PROVE  \E lost \in 0 .. Larger(0, threads - 2 - ChunkSize(n, threads, min)) :
                            Labelled(n, threads, min) = 0 .. n - lost - 1
      BY DEF UncoveredTail
    <2>1. n \in Nat /\ threads \in Nat \ {0, 1} /\ min \in Nat \ {0}
      BY ChunkAssumption
    <2> QED BY <2>1, ChunksCoverButTail DEF Labelled, ThreadIds
  <1> QED BY <1>1, <1>2

(* The blocks that are computed when fit has spawned its workers are a     *)
(* partition of all rows but a bounded tail, for any number of rows,       *)
(* threads and any minimum, not only the bounded ones TLC compares.        *)
THEOREM BlocksArePartition == Spec => []BlocksPartition
  <1>1. BlocksPartition
    BY BlocksCompared DEF BlocksPartition
  <1> QED BY <1>1, PTL

-----------------------------------------------------------------------------
(* The spin barrier. *)

(* What a worker that has been through n rounds does next. *)
After(n) == IF n < M THEN "spin" ELSE "exited"

(* Where the workers are, for each place the caller is at. *)
BarrierInv ==
    /\ pc \in {"sample", "returned"} => \A t \in Workers : worker[t] = "none"
    /\ pc = "spawn" =>
         /\ loop >= 1 /\ current_iteration = M + 1
         /\ \A t \in Workers :
               IF t < loop THEN worker[t] = After(0) /\ at[t] = 0
               ELSE worker[t] = "none"
    /\ pc = "chunk" =>
         /\ current_iteration = M + 1
         /\ \A t \in Workers : worker[t] = After(0) /\ at[t] = 0
    /\ pc \in {"reset", "publish"} =>
         /\ iteration < M /\ current_iteration # iteration
         /\ \A t \in Workers : worker[t] = "spin" /\ at[t] = iteration
    /\ pc = "publish" => finished = 0
    /\ pc \in {"rows", "wait"} =>
         /\ iteration < M /\ current_iteration = iteration
         /\ finished = Cardinality(FinishedWorkers)
         /\ \A t \in Workers :
               \/ at[t] = iteration /\ worker[t] \in {"spin", "rows"}
               \/ at[t] = iteration + 1 /\ worker[t] = After(iteration + 1)
    /\ pc \in {"accumulate", "divide"} =>
         /\ iteration < M /\ current_iteration = iteration
         /\ \A t \in Workers :
               at[t] = iteration + 1 /\ worker[t] = After(iteration + 1)
    /\ pc = "fitted" => \A t \in Workers : worker[t] = "exited"
    /\ pc = "join" =>
         /\ loop >= 1
         /\ \A t \in Workers : worker[t] = IF t < loop THEN "none" ELSE "exited"
    /\ pc # "trap"

(* Which rows hold labels of this round, and where the threads stand. *)
LabelInv ==
    /\ pc = "rows" => row[0] >= Start(0)
    /\ \A t \in Workers : worker[t] = "rows" => row[t] >= Start(t)
    /\ pc \in {"rows", "wait"} =>
         \A t \in Threads : \A i \in Chunk(t, N, T, MinChunk) :
            Passed(t, i) => LabelCurrent(i)

IInv == TypeOK /\ BarrierInv /\ LabelInv /\ LabelsCurrent

-----------------------------------------------------------------------------
(* Facts about the constants. *)

LEMMA Parameters ==
    ASSUME SafeParameters
    PROVE  /\ N \in Nat \ {0} /\ K \in Nat \ {0} /\ K <= N
           /\ M \in Nat /\ T \in Nat \ {0, 1} /\ U32 \in Nat /\ MinChunk \in Nat \ {0}
           /\ M + 1 < U32 /\ T < U32
           /\ Threads = 0 .. T - 1 /\ Threads \subseteq Nat
           /\ Workers \subseteq Threads /\ 0 \in Threads
           /\ input_points \in [Rows -> Vector]
  BY LloydAssumption, ParallelAssumption DEF SafeParameters, Threads, Workers

LEMMA Blocks ==
    ASSUME SafeParameters, NEW t \in Threads
    PROVE  Start(t) \in 0 .. N /\ End(t) \in Start(t) .. N
  BY Parameters, ChunkBounds DEF Start, End

LEMMA BlocksCoverRows ==
    ASSUME SafeParameters, NEW i \in Rows
    PROVE  \E t \in Threads : i \in Chunk(t, N, T, MinChunk)
  BY Parameters, ChunksCover DEF Rows, SafeParameters

LEMMA BlocksAreRows ==
    ASSUME SafeParameters, NEW t \in Threads
    PROVE  Chunk(t, N, T, MinChunk) \subseteq Rows
  <1>1. /\ Start(t) \in Nat /\ End(t) \in Int /\ End(t) <= N /\ N \in Int
    BY Blocks, Parameters
  <1> QED BY <1>1 DEF Chunk, Start, End, Rows

LEMMA WorkerCount ==
    ASSUME SafeParameters
    PROVE  IsFiniteSet(Workers) /\ Cardinality(Workers) = T - 1
  <1>1. T - 1 \in Int /\ ~ (1 > T - 1)
    BY Parameters
  <1>2. IsFiniteSet(1 .. T - 1) /\ Cardinality(1 .. T - 1) = T - 1 - 1 + 1
    BY <1>1, FS_Interval
  <1> QED BY <1>1, <1>2 DEF Workers

-----------------------------------------------------------------------------
(* Types of the arithmetic. *)

LEMMA ZeroTypes ==
    /\ ZeroVector \in Vector
    /\ ZeroSums \in [Clusters -> Vector]
    /\ ZeroCounts \in [Clusters -> Nat]
    /\ ZeroCentroids \in [Clusters -> Centroid]
  BY DEF ZeroVector, ZeroSums, ZeroCounts, ZeroCentroids, Vector, Centroid,
     PointAsCentroid

LEMMA SampleType ==
    ASSUME SafeParameters, NEW s \in Seq(Rows), Len(s) = K
    PROVE  SampledCentroids([k \in Clusters |-> s[k + 1]]) \in [Clusters -> Centroid]
  <1>1. ASSUME NEW k \in Clusters PROVE s[k + 1] \in Rows
    BY Parameters DEF Clusters
  <1> QED BY <1>1, SampledType

-----------------------------------------------------------------------------
(* The type invariant. *)

LEMMA InitType == SafeParameters /\ Init => TypeOK
  <1> SUFFICES ASSUME SafeParameters, Init PROVE TypeOK
    OBVIOUS
  <1>1. 0 \in Clusters /\ 0 \in 0 .. U32 - 1 /\ 0 \in 0 .. M /\ 0 \in 0 .. N
    BY Parameters DEF Clusters
  <1>2. indices \in Seq(Rows)
    BY DEF Init
  <1>3. labels \in [Rows -> Clusters] /\ row \in [Threads -> 0 .. N]
    BY <1>1 DEF Init
  <1>4. worker \in [Workers -> {"none", "spin", "rows", "exited"}]
        /\ at \in [Workers -> 0 .. M]
    BY <1>1 DEF Init
  <1> QED BY <1>1, <1>2, <1>3, <1>4, ZeroTypes DEF Init, TypeOK

LEMMA LabelNextRowType ==
    ASSUME SafeParameters, TypeOK, NEW t \in Threads, LabelNextRow(t)
    PROVE  TypeOK'
  <1>1. row[t] \in Rows /\ row[t] + 1 \in 0 .. N
    <2>1. row[t] < End(t)
      BY DEF LabelNextRow
    <2>2. row[t] \in 0 .. N /\ End(t) \in Int /\ End(t) <= N
      BY Blocks, Parameters DEF TypeOK
    <2> QED BY <2>1, <2>2, Parameters DEF Rows
  <1>2. labels' \in [Rows -> Clusters] /\ row' \in [Threads -> 0 .. N]
    BY <1>1 DEF TypeOK, LabelNextRow
  <1> QED BY <1>2 DEF TypeOK, LabelNextRow, helpers, atomics, pool

LEMMA StepType == SafeParameters /\ TypeOK /\ BarrierInv /\ [Next]_vars => TypeOK'
  <1> SUFFICES ASSUME SafeParameters, TypeOK, BarrierInv, [Next]_vars
               PROVE  TypeOK'
    OBVIOUS
  <1> USE Parameters DEF TypeOK
  <1>1. CASE SampleRow
    <2>1. indices' \in Seq(Rows)
      BY <1>1 DEF SampleRow
    <2> QED BY <1>1, <2>1 DEF SampleRow, output, helpers, atomics, pool
  <1>2. CASE CopySampled
    <2>1. (M + 1) % U32 \in 0 .. U32 - 1
      OBVIOUS
    <2> QED BY <1>2, <2>1, ZeroTypes, SampleType DEF CopySampled, pool
  <1>3. CASE Spawn
    <2>1. loop \in Workers
      BY <1>3 DEF Spawn, BarrierInv, Workers
    <2>2. worker' \in [Workers -> {"none", "spin", "rows", "exited"}]
      BY <1>3, <2>1 DEF Spawn
    <2>3. at' \in [Workers -> 0 .. M]
      BY <1>3, <2>1 DEF Spawn
    <2> QED BY <1>3, <2>2, <2>3, SMTT(20) DEF Spawn, output, helpers, atomics
  <1>4. CASE AllSpawned
    BY <1>4 DEF AllSpawned, output, helpers, atomics, pool
  <1>5. CASE ComputeChunk
    BY <1>5 DEF ComputeChunk, LoopHead, output, helpers, atomics, pool
  <1>6. CASE ResetRound
    BY <1>6, ZeroTypes DEF ResetRound, output, pool
  <1>7. CASE Publish
    <2>1. row' \in [Threads -> 0 .. N]
      BY <1>7, Blocks DEF Publish
    <2>2. current_iteration' \in 0 .. U32 - 1
      BY <1>7 DEF Publish
    <2> QED BY <1>7, <2>1, <2>2 DEF Publish, output, helpers, pool
  <1>8. CASE CallerRow
    BY <1>8, LabelNextRowType DEF CallerRow
  <1>9. CASE CallerRowsDone
    BY <1>9 DEF CallerRowsDone, output, helpers, atomics, pool
  <1>10. CASE AllFinished
    BY <1>10 DEF AllFinished, output, helpers, atomics, pool
  <1>11. CASE Accumulate
    <2>1. loop \in Rows /\ labels[loop] \in Clusters
      <3>1. loop \in Rows
        BY <1>11 DEF Accumulate, Rows
      <3> QED BY <3>1
    <2>2. VectorSum(sums[labels[loop]], input_points[loop]) \in Vector
      BY <2>1, VectorSumType
    <2>3. sums' \in [Clusters -> Vector]
      BY <1>11, <2>1, <2>2 DEF Accumulate
    <2>4. counts' \in [Clusters -> Nat]
      BY <1>11, <2>1 DEF Accumulate
    <2>5. loop' \in Nat
      BY <1>11 DEF Accumulate
    <2> QED BY <1>11, <2>3, <2>4, <2>5 DEF Accumulate, output, atomics, pool
  <1>12. CASE Accumulated
    BY <1>12 DEF Accumulated, output, helpers, atomics, pool
  <1>13. CASE Divide
    <2>1. loop \in Clusters
      BY <1>13 DEF Divide, Clusters
    <2>2. Mean(sums[loop], counts[loop]) \in Centroid
      BY <2>1, MeanType
    <2>3. centroids' \in [Clusters -> Centroid]
      BY <1>13, <2>1, <2>2 DEF Divide
    <2>4. loop' \in Nat
      BY <1>13 DEF Divide
    <2> QED BY <1>13, <2>3, <2>4 DEF Divide, helpers, atomics, pool
  <1>14. CASE NextRound
    BY <1>14 DEF NextRound, BarrierInv, LoopHead, output, helpers, atomics, pool
  <1>15. CASE SetFitted
    BY <1>15 DEF SetFitted, helpers, atomics, pool
  <1>16. CASE Join
    <2>1. loop \in Workers
      BY <1>16 DEF Join, BarrierInv, Workers
    <2>2. worker' \in [Workers -> {"none", "spin", "rows", "exited"}]
      BY <1>16, <2>1 DEF Join
    <2> QED BY <1>16, <2>2, SMTT(20) DEF Join, output, helpers, atomics
  <1>17. CASE Return
    BY <1>17 DEF Return, output, helpers, atomics, pool
  <1>18. CASE Refit
    BY <1>18, ZeroTypes DEF Refit, helpers, atomics, pool
  <1>19. ASSUME NEW t \in Workers, SeeIteration(t) PROVE TypeOK'
    BY <1>19, Blocks DEF SeeIteration, output, helpers, atomics
  <1>20. ASSUME NEW t \in Workers, WorkerRow(t) PROVE TypeOK'
    BY <1>20, LabelNextRowType DEF WorkerRow
  <1>21. ASSUME NEW t \in Workers, FinishRows(t) PROVE TypeOK'
    <2>1. at[t] + 1 \in 0 .. M
      <3>1. pc \in {"rows", "wait"} /\ at[t] = iteration /\ iteration < M
        BY <1>21 DEF FinishRows, BarrierInv, After
      <3> QED BY <3>1
    <2>2. (finished + 1) % U32 \in 0 .. U32 - 1
      BY SMTT(20)
    <2> QED BY <1>21, <2>1, <2>2 DEF FinishRows, output, helpers
  <1>22. CASE UNCHANGED vars
    BY <1>22 DEF vars, output, helpers, atomics, pool
  <1> QED
    BY <1>1, <1>2, <1>3, <1>4, <1>5, <1>6, <1>7, <1>8, <1>9, <1>10, <1>11, <1>12,
       <1>13, <1>14, <1>15, <1>16, <1>17, <1>18, <1>19, <1>20, <1>21, <1>22
    DEF Next, Caller, Worker, SpinOnCounter, SpinOnIteration

-----------------------------------------------------------------------------
(* The barrier. *)

LEMMA InitBarrier == SafeParameters /\ Init => BarrierInv
  BY DEF Init, BarrierInv

(* The count of a worker that finishes its block. *)
LEMMA FinishCount ==
    ASSUME SafeParameters, TypeOK, NEW t \in Workers, at[t] = iteration,
           at' = [at EXCEPT ![t] = @ + 1], iteration' = iteration
    PROVE  /\ Cardinality(FinishedWorkers) + 1 < U32
           /\ Cardinality(FinishedWorkers)' = Cardinality(FinishedWorkers) + 1
  <1>1. IsFiniteSet(FinishedWorkers) /\ t \notin FinishedWorkers
    <2>1. IsFiniteSet(Workers) /\ FinishedWorkers \in SUBSET Workers
      BY WorkerCount DEF FinishedWorkers
    <2>2. t \notin FinishedWorkers
      BY DEF FinishedWorkers, TypeOK
    <2> QED BY <2>1, <2>2, FS_Subset
  <1>2. FinishedWorkers' = FinishedWorkers \cup {t}
    BY DEF FinishedWorkers, TypeOK
  <1>3. /\ IsFiniteSet(FinishedWorkers')
        /\ Cardinality(FinishedWorkers') = Cardinality(FinishedWorkers) + 1
    BY <1>1, <1>2, FS_AddElement
  <1>4. Cardinality(FinishedWorkers') <= T - 1
    <2>1. FinishedWorkers' \in SUBSET Workers
      BY <1>2 DEF FinishedWorkers
    <2> QED BY <2>1, WorkerCount, FS_Subset
  <1>5. Cardinality(FinishedWorkers) \in Nat
    BY <1>1, FS_CardinalityType
  <1> QED BY <1>3, <1>4, <1>5, Parameters

(* When the counter reads T - 1, every worker is through its block. *)
LEMMA AllWorkersFinished ==
    ASSUME SafeParameters, Cardinality(FinishedWorkers) = T - 1
    PROVE  \A t \in Workers : at[t] = iteration + 1
  <1>1. FinishedWorkers \in SUBSET Workers
    BY DEF FinishedWorkers
  <1>2. FinishedWorkers = Workers
    BY <1>1, WorkerCount, FS_Subset
  <1> QED BY <1>2 DEF FinishedWorkers

LEMMA StepBarrier ==
    SafeParameters /\ TypeOK /\ BarrierInv /\ [Next]_vars => BarrierInv'
  <1> SUFFICES ASSUME SafeParameters, TypeOK, BarrierInv, [Next]_vars
               PROVE  BarrierInv'
    OBVIOUS
  <1> USE Parameters
  <1>1. CASE SampleRow
    BY <1>1 DEF SampleRow, BarrierInv, pool
  <1>2. CASE CopySampled
    <2>1. (M + 1) % U32 = M + 1
      BY SMTT(20)
    <2> QED BY <1>2, <2>1 DEF CopySampled, BarrierInv, pool, Workers
  <1>3. CASE Spawn
    BY <1>3 DEF Spawn, BarrierInv, atomics, After, TypeOK, Workers
  <1>4. CASE AllSpawned
    BY <1>4 DEF AllSpawned, BarrierInv, atomics, pool, Workers, TypeOK
  <1>5. CASE ComputeChunk
    BY <1>5 DEF ComputeChunk, LoopHead, BarrierInv, atomics, pool, After
  <1>6. CASE ResetRound
    BY <1>6 DEF ResetRound, BarrierInv, pool
  <1>7. CASE Publish
    <2>1. FinishedWorkers = {} /\ FinishedWorkers' = FinishedWorkers
      BY <1>7 DEF Publish, BarrierInv, pool, FinishedWorkers, TypeOK
    <2>2. Cardinality(FinishedWorkers') = 0
      BY <2>1, FS_EmptySet
    <2> QED BY <1>7, <2>2 DEF Publish, BarrierInv, pool
  <1>8. CASE CallerRow
    BY <1>8 DEF CallerRow, LabelNextRow, BarrierInv, atomics, pool, FinishedWorkers
  <1>9. CASE CallerRowsDone
    BY <1>9 DEF CallerRowsDone, BarrierInv, atomics, pool, FinishedWorkers
  <1>10. CASE AllFinished
    <2>1. finished = T - 1
      BY <1>10 DEF AllFinished
    <2>2. \A t \in Workers : at[t] = iteration + 1
      BY <1>10, <2>1, AllWorkersFinished DEF AllFinished, BarrierInv
    <2> QED BY <1>10, <2>2 DEF AllFinished, BarrierInv, atomics, pool, TypeOK
  <1>11. CASE Accumulate
    BY <1>11 DEF Accumulate, BarrierInv, atomics, pool
  <1>12. CASE Accumulated
    BY <1>12 DEF Accumulated, BarrierInv, atomics, pool
  <1>13. CASE Divide
    BY <1>13 DEF Divide, BarrierInv, atomics, pool
  <1>14. CASE NextRound
    BY <1>14 DEF NextRound, BarrierInv, LoopHead, After, atomics, pool, TypeOK
  <1>15. CASE SetFitted
    BY <1>15 DEF SetFitted, BarrierInv, pool, Workers
  <1>16. CASE Join
    BY <1>16 DEF Join, BarrierInv, atomics, Workers, TypeOK
  <1>17. CASE Return
    BY <1>17 DEF Return, BarrierInv, pool, Workers, TypeOK
  <1>18. CASE Refit
    BY <1>18 DEF Refit, BarrierInv, pool
  <1>19. ASSUME NEW t \in Workers, SeeIteration(t) PROVE BarrierInv'
    <2>1. pc \in {"rows", "wait"} /\ at[t] = iteration
      BY <1>19 DEF SeeIteration, BarrierInv, After, TypeOK
    <2> QED BY <1>19, <2>1 DEF SeeIteration, BarrierInv, atomics, FinishedWorkers,
            TypeOK
  <1>20. ASSUME NEW t \in Workers, WorkerRow(t) PROVE BarrierInv'
    BY <1>20 DEF WorkerRow, LabelNextRow, BarrierInv, atomics, pool, FinishedWorkers
  <1>21. ASSUME NEW t \in Workers, FinishRows(t) PROVE BarrierInv'
    <2>1. pc \in {"rows", "wait"} /\ at[t] = iteration /\ iteration < M
      BY <1>21 DEF FinishRows, BarrierInv, After, TypeOK
    <2>2. /\ pc' = pc /\ iteration' = iteration
          /\ current_iteration' = current_iteration
          /\ at' = [at EXCEPT ![t] = @ + 1]
          /\ worker' = [worker EXCEPT ![t] = After(at[t] + 1)]
          /\ finished' = (finished + 1) % U32
      BY <1>21 DEF FinishRows, After
    <2>3. finished' = Cardinality(FinishedWorkers)'
      <3>1. /\ Cardinality(FinishedWorkers) + 1 < U32
            /\ Cardinality(FinishedWorkers)' = Cardinality(FinishedWorkers) + 1
        BY <2>1, <2>2, FinishCount
      <3>2. finished = Cardinality(FinishedWorkers) /\ finished \in Nat
        BY <2>1 DEF BarrierInv, TypeOK
      <3> QED BY <2>2, <3>1, <3>2, SMTT(20)
    <2>4. ASSUME NEW u \in Workers
          PROVE  \/ at'[u] = iteration' /\ worker'[u] \in {"spin", "rows"}
                 \/ at'[u] = iteration' + 1 /\ worker'[u] = After(iteration' + 1)
      <3>1. CASE u = t
        BY <2>1, <2>2, <3>1 DEF TypeOK
      <3>2. CASE u # t
        BY <2>1, <2>2, <3>2 DEF TypeOK, BarrierInv
      <3> QED BY <3>1, <3>2
    <2> QED BY <2>1, <2>2, <2>3, <2>4 DEF BarrierInv, After
  <1>22. CASE UNCHANGED vars
    BY <1>22 DEF vars, BarrierInv, atomics, pool, FinishedWorkers
  <1> QED
    BY <1>1, <1>2, <1>3, <1>4, <1>5, <1>6, <1>7, <1>8, <1>9, <1>10, <1>11, <1>12,
       <1>13, <1>14, <1>15, <1>16, <1>17, <1>18, <1>19, <1>20, <1>21, <1>22
    DEF Next, Caller, Worker, SpinOnCounter, SpinOnIteration

-----------------------------------------------------------------------------
(* The labels of the round. *)

LEMMA InitLabels == SafeParameters /\ Init => LabelInv /\ LabelsCurrent
  BY DEF Init, LabelInv, LabelsCurrent

(* Labelling a row keeps every label of the round, and adds that row's. *)
LEMMA LabelNextRowKeeps ==
    ASSUME SafeParameters, TypeOK, NEW t \in Threads, LabelNextRow(t)
    PROVE  /\ row[t] \in Rows
           /\ \A i \in Rows : i = row[t] \/ LabelCurrent(i) => LabelCurrent(i)'
  <1>1. row[t] \in Rows
    <2>1. row[t] < End(t)
      BY DEF LabelNextRow
    <2>2. row[t] \in 0 .. N /\ End(t) \in Int /\ End(t) <= N
      BY Blocks, Parameters DEF TypeOK
    <2> QED BY <2>1, <2>2, Parameters DEF Rows
  <1>2. PICK j \in Clusters :
           /\ IsNearest(input_points[row[t]], j, centroids)
           /\ labels' = [labels EXCEPT ![row[t]] = j]
    BY DEF LabelNextRow
  <1>3. centroids' = centroids
    BY DEF LabelNextRow
  <1>4. ASSUME NEW i \in Rows, i = row[t] \/ LabelCurrent(i)
        PROVE  IsNearest(input_points[i], labels'[i], centroids')
    <2>1. CASE i = row[t]
      <3>1. labels'[i] = j
        BY <1>1, <1>2, <2>1 DEF TypeOK
      <3> QED BY <1>2, <1>3, <2>1, <3>1
    <2>2. CASE i # row[t]
      <3>1. labels'[i] = labels[i]
        BY <1>1, <1>2, <2>2 DEF TypeOK
      <3> QED BY <1>3, <1>4, <2>2, <3>1 DEF LabelCurrent
    <2> QED BY <2>1, <2>2
  <1> QED BY <1>1, <1>4 DEF LabelCurrent

LEMMA StepLabels ==
    SafeParameters /\ IInv /\ [Next]_vars => LabelInv' /\ LabelsCurrent'
  <1> SUFFICES ASSUME SafeParameters, IInv, [Next]_vars
               PROVE  LabelInv' /\ LabelsCurrent'
    OBVIOUS
  <1> USE Parameters DEF IInv
  <1>0. TypeOK' /\ BarrierInv'
    BY StepType, StepBarrier
  <1>1. CASE SampleRow
    BY <1>1 DEF SampleRow, BarrierInv, LabelInv, LabelsCurrent, pool
  <1>2. CASE CopySampled
    BY <1>2 DEF CopySampled, BarrierInv, LabelInv, LabelsCurrent, pool
  <1>3. CASE Spawn
    <2>1. \A t \in Workers : worker'[t] # "rows"
      BY <1>3 DEF Spawn, BarrierInv, TypeOK, After
    <2> QED BY <1>3, <2>1 DEF Spawn, LabelInv, LabelsCurrent
  <1>4. CASE AllSpawned
    BY <1>4 DEF AllSpawned, LabelInv, LabelsCurrent, pool
  <1>5. CASE ComputeChunk
    BY <1>5 DEF ComputeChunk, LoopHead, LabelInv, LabelsCurrent, pool
  <1>6. CASE ResetRound
    BY <1>6 DEF ResetRound, LabelInv, LabelsCurrent, pool
  <1>7. CASE Publish
    <2>1. \A t \in Workers : worker'[t] = "spin" /\ at'[t] = iteration'
      BY <1>7 DEF Publish, BarrierInv, pool
    <2>2. row'[0] = Start(0) /\ pc' = "rows" /\ iteration' \in Int
      BY <1>7 DEF Publish, TypeOK
    <2>3. Start(0) \in Nat
      BY Blocks
    <2>4. ASSUME NEW t \in Threads, NEW i \in Chunk(t, N, T, MinChunk)
          PROVE  ~ Passed(t, i)'
      <3>1. CASE t = 0
        BY <2>2, <2>3, <2>4, <3>1 DEF Passed, Chunk, Start
      <3>2. CASE t # 0
        BY <2>1, <2>2, <3>2 DEF Passed, Threads
      <3> QED BY <3>1, <3>2
    <2> QED BY <2>1, <2>2, <2>3, <2>4 DEF LabelInv, LabelsCurrent
  <1>8. CASE CallerRow
    <2>1. LabelNextRow(0) /\ pc' = "rows" /\ pc = "rows" /\ worker' = worker /\ at' = at
          /\ iteration' = iteration
      BY <1>8 DEF CallerRow, LabelNextRow, pool
    <2>2. /\ row[0] \in Rows
          /\ \A i \in Rows : i = row[0] \/ LabelCurrent(i) => LabelCurrent(i)'
      BY <2>1, LabelNextRowKeeps
    <2>3. row'[0] = row[0] + 1 /\ \A t \in Workers : row'[t] = row[t]
      BY <2>1 DEF LabelNextRow, TypeOK, Workers
    <2>4. ASSUME NEW t \in Threads, NEW i \in Chunk(t, N, T, MinChunk), Passed(t, i)'
          PROVE  LabelCurrent(i)'
      <3>1. i \in Rows
        BY BlocksAreRows
      <3>2. Passed(t, i) \/ i = row[0]
        <4>1. CASE t = 0
          BY <2>1, <2>2, <2>3, <2>4, <3>1, <4>1 DEF Passed, Rows
        <4>2. CASE t # 0
          BY <2>1, <2>3, <2>4, <4>2 DEF Passed, Threads
        <4> QED BY <4>1, <4>2
      <3> QED BY <2>1, <2>2, <3>1, <3>2 DEF LabelInv
    <2>5. row'[0] >= Start(0) /\ \A t \in Workers : worker'[t] = "rows" => row'[t] >= Start(t)
      <3>1. Start(0) \in Int /\ row[0] \in Int /\ row[0] >= Start(0)
        BY <2>1, <2>2, Blocks DEF LabelInv, Rows
      <3> QED BY <2>1, <2>3, <3>1 DEF LabelInv
    <2> QED BY <2>1, <2>4, <2>5 DEF LabelInv, LabelsCurrent
  <1>9. CASE CallerRowsDone
    <2>1. pc = "rows" /\ pc' = "wait" /\ row[0] >= End(0)
          /\ UNCHANGED <<labels, centroids, worker, at, iteration, row>>
      BY <1>9 DEF CallerRowsDone, output, pool
    <2>2. ASSUME NEW t \in Threads, NEW i \in Chunk(t, N, T, MinChunk), Passed(t, i)'
          PROVE  Passed(t, i)
      <3>1. CASE t = 0
        <4>1. i < End(0) /\ i \in Int /\ End(0) \in Int /\ row[0] \in Int
          BY <3>1, Blocks DEF Chunk, End, TypeOK
        <4> QED BY <2>1, <3>1, <4>1 DEF Passed
      <3>2. CASE t # 0
        BY <2>1, <2>2, <3>2 DEF Passed
      <3> QED BY <3>1, <3>2
    <2> QED BY <2>1, <2>2 DEF LabelInv, LabelsCurrent, LabelCurrent
  <1>10. CASE AllFinished
    <2>1. /\ pc = "wait" /\ pc' = "accumulate" /\ finished = T - 1
          /\ UNCHANGED <<labels, centroids, worker, at, iteration, row>>
      BY <1>10, SMTT(20) DEF AllFinished, output, pool
    <2>2. \A t \in Workers : at[t] = iteration + 1
      BY <2>1, AllWorkersFinished DEF BarrierInv
    <2>3. ASSUME NEW i \in Rows PROVE LabelCurrent(i)
      <3>1. PICK t \in Threads : i \in Chunk(t, N, T, MinChunk)
        BY BlocksCoverRows
      <3>2. Passed(t, i)
        <4>1. iteration \in Int /\ pc # "rows"
          BY <2>1 DEF TypeOK
        <4>2. t = 0 \/ (t # 0 /\ at[t] = iteration + 1)
          BY <2>2 DEF Threads
        <4>3. t # 0 => at[t] > iteration
          BY <4>1, <4>2
        <4> QED BY <4>1, <4>3 DEF Passed
      <3> QED BY <2>1, <3>1, <3>2 DEF LabelInv
    <2> QED BY <2>1, <2>3 DEF LabelInv, LabelsCurrent, LabelCurrent
  <1>11. CASE Accumulate
    BY <1>11 DEF Accumulate, LabelInv, LabelsCurrent, LabelCurrent, output, pool
  <1>12. CASE Accumulated
    BY <1>12 DEF Accumulated, LabelInv, LabelsCurrent, pool
  <1>13. CASE Divide
    BY <1>13 DEF Divide, LabelInv, LabelsCurrent, pool
  <1>14. CASE NextRound
    BY <1>14 DEF NextRound, LoopHead, LabelInv, LabelsCurrent, pool
  <1>15. CASE SetFitted
    BY <1>15 DEF SetFitted, LabelInv, LabelsCurrent, pool
  <1>16. CASE Join
    <2>1. \A t \in Workers : worker'[t] # "rows"
      BY <1>16 DEF Join, BarrierInv, TypeOK
    <2> QED BY <1>16, <2>1 DEF Join, LabelInv, LabelsCurrent
  <1>17. CASE Return
    BY <1>17 DEF Return, LabelInv, LabelsCurrent, pool
  <1>18. CASE Refit
    BY <1>18 DEF Refit, LabelInv, LabelsCurrent, pool
  <1>19. ASSUME NEW t \in Workers, SeeIteration(t) PROVE LabelInv' /\ LabelsCurrent'
    <2>1. pc \in {"rows", "wait"} /\ at[t] = iteration /\ iteration \in Int
      BY <1>19 DEF SeeIteration, BarrierInv, After, TypeOK
    <2>2. /\ worker[t] = "spin" /\ worker'[t] = "rows" /\ row'[t] = Start(t)
          /\ UNCHANGED <<pc, labels, centroids, at, iteration>>
      BY <1>19 DEF SeeIteration, output, TypeOK
    <2>3. \A u \in Threads \ {t} : row'[u] = row[u]
      BY <1>19 DEF SeeIteration, TypeOK
    <2>4. \A u \in Workers \ {t} : worker'[u] = worker[u]
      BY <1>19 DEF SeeIteration, TypeOK
    <2>5. Start(t) \in Int /\ t # 0
      BY Blocks DEF Workers
    <2>6. ASSUME NEW u \in Threads, NEW i \in Chunk(u, N, T, MinChunk), Passed(u, i)'
          PROVE  Passed(u, i)
      <3>1. CASE u = t
        BY <2>1, <2>2, <2>5, <2>6, <3>1 DEF Passed, Chunk, Start
      <3>2. CASE u # t
        BY <2>2, <2>3, <2>4, <2>6, <3>2 DEF Passed, Threads
      <3> QED BY <3>1, <3>2
    <2>7. pc' = "rows" => row'[0] >= Start(0)
      BY <2>2, <2>3, <2>5 DEF LabelInv
    <2>8. \A u \in Workers : worker'[u] = "rows" => row'[u] >= Start(u)
      BY <2>2, <2>3, <2>4, <2>5 DEF LabelInv
    <2> QED BY <2>1, <2>2, <2>6, <2>7, <2>8 DEF LabelInv, LabelsCurrent, LabelCurrent
  <1>20. ASSUME NEW t \in Workers, WorkerRow(t) PROVE LabelInv' /\ LabelsCurrent'
    <2>1. /\ LabelNextRow(t) /\ worker[t] = "rows" /\ t # 0
          /\ UNCHANGED <<pc, worker, at, iteration>>
      <3>1. LabelNextRow(t) /\ worker[t] = "rows"
        BY <1>20 DEF WorkerRow
      <3>2. UNCHANGED <<pc, worker, at, iteration>>
        BY <3>1 DEF LabelNextRow, pool
      <3> QED BY <3>1, <3>2 DEF Workers
    <2>2. /\ row[t] \in Rows
          /\ \A i \in Rows : i = row[t] \/ LabelCurrent(i) => LabelCurrent(i)'
      BY <2>1, LabelNextRowKeeps
    <2>3. row'[t] = row[t] + 1 /\ \A u \in Threads \ {t} : row'[u] = row[u]
      BY <2>1 DEF LabelNextRow, TypeOK
    <2>4. pc \in {"rows", "wait"}
      BY <2>1 DEF BarrierInv, After, TypeOK
    <2>5. ASSUME NEW u \in Threads, NEW i \in Chunk(u, N, T, MinChunk), Passed(u, i)'
          PROVE  LabelCurrent(i)'
      <3>1. i \in Rows
        BY BlocksAreRows
      <3>2. Passed(u, i) \/ i = row[t]
        <4>1. CASE u = t
          BY <2>1, <2>2, <2>3, <2>5, <3>1, <4>1 DEF Passed, Rows
        <4>2. CASE u # t
          BY <2>1, <2>3, <2>5, <4>2 DEF Passed
        <4> QED BY <4>1, <4>2
      <3> QED BY <2>2, <2>4, <3>1, <3>2 DEF LabelInv
    <2>6. pc' = "rows" => row'[0] >= Start(0)
      BY <2>1, <2>3 DEF LabelInv
    <2>7. \A u \in Workers : worker'[u] = "rows" => row'[u] >= Start(u)
      <3>1. Start(t) \in Int /\ row[t] \in Int /\ row[t] >= Start(t)
        BY <2>1, <2>2, Blocks DEF LabelInv, Rows
      <3> QED BY <2>1, <2>3, <3>1, SMTT(20) DEF LabelInv
    <2> QED BY <2>1, <2>4, <2>5, <2>6, <2>7 DEF LabelInv, LabelsCurrent
  <1>21. ASSUME NEW t \in Workers, FinishRows(t) PROVE LabelInv' /\ LabelsCurrent'
    <2>1. /\ pc \in {"rows", "wait"} /\ at[t] = iteration /\ iteration \in Int
          /\ t # 0
      BY <1>21, SMTT(20) DEF FinishRows, BarrierInv, After, TypeOK, Workers
    <2>2. /\ worker[t] = "rows" /\ row[t] >= End(t) /\ worker'[t] # "rows"
          /\ UNCHANGED <<pc, labels, centroids, iteration, row>>
      BY <1>21 DEF FinishRows, output, TypeOK
    <2>3. \A u \in Workers \ {t} : worker'[u] = worker[u] /\ at'[u] = at[u]
      BY <1>21 DEF FinishRows, TypeOK
    <2>4. ASSUME NEW u \in Threads, NEW i \in Chunk(u, N, T, MinChunk), Passed(u, i)'
          PROVE  Passed(u, i)
      <3>1. CASE u = t
        <4>1. i < End(t) /\ i \in Int /\ End(t) \in Int /\ row[t] \in Int
          BY <3>1, Blocks, SMTT(20) DEF Chunk, End, TypeOK
        <4> QED BY <2>1, <2>2, <3>1, <4>1 DEF Passed
      <3>2. CASE u # t
        BY <2>2, <2>3, <2>4, <3>2 DEF Passed, Threads
      <3> QED BY <3>1, <3>2
    <2>5. \A u \in Workers : worker'[u] = "rows" => row'[u] >= Start(u)
      BY <2>2, <2>3 DEF LabelInv
    <2> QED BY <2>1, <2>2, <2>4, <2>5 DEF LabelInv, LabelsCurrent, LabelCurrent
  <1>22. CASE UNCHANGED vars
    BY <1>22 DEF vars, LabelInv, LabelsCurrent, LabelCurrent, Passed, output, pool
  <1> QED
    BY <1>1, <1>2, <1>3, <1>4, <1>5, <1>6, <1>7, <1>8, <1>9, <1>10, <1>11, <1>12,
       <1>13, <1>14, <1>15, <1>16, <1>17, <1>18, <1>19, <1>20, <1>21, <1>22
    DEF Next, Caller, Worker, SpinOnCounter, SpinOnIteration

-----------------------------------------------------------------------------
LEMMA Inductive == ASSUME SafeParameters PROVE Spec => []IInv
  <1>1. Init => IInv
    BY InitType, InitBarrier, InitLabels DEF IInv
  <1>2. IInv /\ [Next]_vars => IInv'
    BY StepType, StepBarrier, StepLabels DEF IInv
  <1> QED BY <1>1, <1>2, PTL DEF Spec

(* Every variable keeps its type. *)
THEOREM TypeCorrect == ASSUME SafeParameters PROVE Spec => []TypeOK
  <1>1. IInv => TypeOK
    BY DEF IInv
  <1> QED BY <1>1, Inductive, PTL

(* The helper arrays, the labels and the centroids are the caller's alone   *)
(* whenever it touches them outside update_rows.                            *)
THEOREM CallerIsAlone == ASSUME SafeParameters PROVE Spec => []CallerAlone
  <1>1. IInv => CallerAlone
    BY DEF IInv, TypeOK, BarrierInv, CallerAlone, After
  <1> QED BY <1>1, Inductive, PTL

(* The counter the caller spins on is exact in every round. *)
THEOREM NoFinishIsLost == ASSUME SafeParameters PROVE Spec => []NoLostFinish
  <1>1. IInv => NoLostFinish
    BY DEF IInv, BarrierInv, NoLostFinish
  <1> QED BY <1>1, Inductive, PTL

(* The means are computed from labels of the current round only. *)
THEOREM LabelsAreCurrent == ASSUME SafeParameters PROVE Spec => []LabelsCurrent
  <1>1. IInv => LabelsCurrent
    BY DEF IInv
  <1> QED BY <1>1, Inductive, PTL

(* No two threads are ever about to write the same label. *)
THEOREM LabelsAreNotRaced == ASSUME SafeParameters PROVE Spec => []NoLabelRace
  <1>1. SafeParameters /\ IInv => NoLabelRace
    <2> SUFFICES ASSUME SafeParameters, IInv, NEW t \in Threads, NEW u \in Threads,
                        Labelling(t), Labelling(u), row[t] = row[u], t # u
                 PROVE  FALSE
      BY DEF NoLabelRace
    <2>1. ASSUME NEW v \in Threads, Labelling(v)
          PROVE  row[v] \in Chunk(v, N, T, MinChunk)
      <3>1. row[v] >= Start(v) /\ row[v] < End(v)
        BY <2>1 DEF Labelling, IInv, LabelInv, Threads
      <3>2. row[v] \in Int /\ Start(v) \in Int /\ End(v) \in Int
        BY Blocks, Parameters DEF IInv, TypeOK
      <3> QED BY <3>1, <3>2 DEF Chunk, Start, End
    <2>2. Chunk(t, N, T, MinChunk) \cap Chunk(u, N, T, MinChunk) = {}
      BY Parameters, ChunksDisjoint
    <2> QED BY <2>1, <2>2
  <1> QED BY <1>1, Inductive, PTL

-----------------------------------------------------------------------------
(* What happens before what. *)

(* What update_rows leaves behind in a round when thread t runs it. *)
Marks(t) ==
    {LabelWrite(i) : i \in Chunk(t, N, T, MinChunk)} \cup {CentroidRead(t)}

(* What must happen before: its own marks, and what the caller did alone. *)
Needs(t) == Marks(t) \cup {LabelRead, CentroidWrite}

(* Workers that have this round's block still to label, or to finish. *)
Late == {t \in Workers : at[t] = iteration}

(* Outside the labelling the caller knows of every access.  Meanwhile an   *)
(* access it does not know of is on its way to it by the counter, or is a  *)
(* mark of a worker that will bump the counter.  A worker finds what it    *)
(* needs in the iteration it waits for, and keeps it while it labels.      *)
KnowledgeInv ==
    /\ pc \notin {"rows", "wait"} => known[0] = Events
    /\ pc \in {"rows", "wait"} =>
         /\ Needs(0) \subseteq known[0]
         /\ Events \subseteq known[0] \cup released["finished"]
                                \cup UNION {Marks(t) : t \in Late}
         /\ \A t \in Late :
               Needs(t) \subseteq IF worker[t] = "spin" THEN released["current_iteration"]
                                  ELSE known[t]

HBInv == HBTypeOK /\ KnowledgeInv

-----------------------------------------------------------------------------
(* Every step with its happens-before effect is a step of the parallel fit. *)
LEMMA StepForgetsHB == [HBNext]_hbvars => [Next]_vars
  <1> SUFFICES ASSUME [HBNext]_hbvars PROVE [Next]_vars
    OBVIOUS
  <1>1. CASE HBCaller
    BY <1>1 DEF HBCaller, HBCopySampled, HBSpawn, HBResetRound, HBPublish, HBLabelRow,
       HBAllFinished, HBAccumulate, HBDivide, HBJoin, Next, Caller
  <1>2. CASE HBRefit
    BY <1>2 DEF HBRefit, Next
  <1>3. ASSUME NEW t \in Workers, HBWorker(t) PROVE Next
    <2>1. t # 0
      BY ParallelAssumption DEF Workers
    <2> QED BY <1>3, <2>1 DEF HBWorker, HBSeeIteration, HBLabelRow, HBFinishRows, Next, Worker
  <1>4. CASE UNCHANGED hbvars
    BY <1>4 DEF hbvars
  <1> QED BY <1>1, <1>2, <1>3, <1>4 DEF HBNext

(* The happens-before relation only watches: what is proved of the         *)
(* parallel fit holds of it with the relation, too.                        *)
LEMMA ForgetsHB == HBSpec => Spec
  <1>1. HBInit => Init
    BY DEF HBInit
  <1> QED BY <1>1, StepForgetsHB, PTL DEF HBSpec, Spec

-----------------------------------------------------------------------------
(* Marks of different threads are different: their blocks do not overlap. *)
LEMMA MarksDisjoint ==
    ASSUME SafeParameters, NEW t \in Threads, NEW u \in Threads, t # u
    PROVE  /\ Marks(t) \cap Needs(u) = {}
           /\ Marks(t) \subseteq Events /\ Needs(t) \subseteq Events
  <1>1. Chunk(t, N, T, MinChunk) \cap Chunk(u, N, T, MinChunk) = {}
    BY Parameters, ChunksDisjoint
  <1>2. Chunk(t, N, T, MinChunk) \subseteq Rows
    BY BlocksAreRows
  <1>3. Marks(t) \cap Needs(u) = {}
    BY <1>1 DEF Marks, Needs, LabelWrite, CentroidRead, LabelRead, CentroidWrite
  <1>4. Marks(t) \subseteq Events
    BY <1>2 DEF Marks, Events
  <1> QED BY <1>3, <1>4 DEF Needs, Events

-----------------------------------------------------------------------------
LEMMA InitHB == HBInit => HBInv
  <1> SUFFICES ASSUME HBInit PROVE HBInv
    OBVIOUS
  <1>1. pc = "sample" /\ known[0] = Events
    BY DEF HBInit, Init, Threads
  <1> QED BY <1>1 DEF HBInit, HBInv, HBTypeOK, KnowledgeInv

(* An access makes the thread know it and all others forget its like. *)
LEMMA AccessKnowledge ==
    ASSUME HBTypeOK, NEW t \in Threads, NEW es \in SUBSET Events, Access(t, es)
    PROVE  /\ HBTypeOK'
           /\ known'[t] = known[t] \cup es
           /\ \A u \in Threads \ {t} : known'[u] = known[u] \ es
           /\ \A a \in {"current_iteration", "finished"} :
                 released'[a] = released[a] \ es
  <1>1. known' \in [Threads -> SUBSET Events]
    BY DEF Access, HBTypeOK
  <1>2. released' \in [{"current_iteration", "finished"} -> SUBSET Events]
    BY DEF Access, HBTypeOK
  <1> QED BY <1>1, <1>2 DEF Access, HBTypeOK

(* A row of thread t is in its block, so the access leaves only its marks. *)
LEMMA LabelMarks ==
    ASSUME SafeParameters, IInv, NEW t \in Threads, Labelling(t)
    PROVE  row[t] \in Chunk(t, N, T, MinChunk) /\ LabelWrite(row[t]) \in Marks(t)
  <1>1. row[t] >= Start(t) /\ row[t] < End(t)
    BY DEF Labelling, IInv, LabelInv, Threads
  <1>2. row[t] \in Int /\ Start(t) \in Int /\ End(t) \in Int
    BY Blocks, Parameters DEF IInv, TypeOK
  <1>3. row[t] \in Chunk(t, N, T, MinChunk)
    BY <1>1, <1>2 DEF Chunk, Start, End
  <1> QED BY <1>3 DEF Marks

LEMMA StepLabelRow ==
    ASSUME SafeParameters, IInv, HBInv, NEW t \in Threads, HBLabelRow(t)
    PROVE  HBInv'
  <1> DEFINE es == {CentroidRead(t), LabelWrite(row[t])}
  <1>1. /\ Labelling(t) /\ UNCHANGED <<pc, worker, at, iteration>>
        /\ pc \in {"rows", "wait"} /\ (t # 0 => t \in Late)
    <2>1. CASE t = 0
      BY <2>1 DEF HBLabelRow, CallerRow, LabelNextRow, Labelling, pool
    <2>2. CASE t # 0
      BY <2>2 DEF HBLabelRow, WorkerRow, LabelNextRow, Labelling, pool, Threads, IInv,
         BarrierInv, TypeOK, After, Late
    <2> QED BY <2>1, <2>2
  <1>2. es \subseteq Marks(t) /\ Marks(t) \subseteq Needs(t) /\ es \in SUBSET Events
    <2>1. es \subseteq Marks(t) /\ Marks(t) \subseteq Needs(t)
      BY <1>1, LabelMarks DEF Marks, Needs
    <2>2. Marks(t) \subseteq Events
      BY BlocksAreRows DEF Marks, Events
    <2> QED BY <2>1, <2>2
  <1> HIDE DEF es
  <1>3. /\ HBTypeOK' /\ known'[t] = known[t] \cup es
        /\ \A u \in Threads \ {t} : known'[u] = known[u] \ es
        /\ \A a \in {"current_iteration", "finished"} : released'[a] = released[a] \ es
    BY <1>2, AccessKnowledge DEF HBLabelRow, HBInv, es
  <1>4. \A u \in Threads \ {t} : es \cap Needs(u) = {}
    BY <1>2, MarksDisjoint
  <1>5. Late' = Late /\ Late \subseteq Threads
    BY <1>1 DEF Late, Threads
  <1>6. Needs(0) \subseteq known'[0]
    <2>1. Needs(0) \subseteq known[0] /\ 0 \in Threads
      BY <1>1 DEF HBInv, KnowledgeInv, Threads
    <2> QED BY <1>3, <1>4, <2>1
  <1>7. Events \subseteq known'[0] \cup released'["finished"] \cup UNION {Marks(u) : u \in Late}
    <2>1. Events \subseteq known[0] \cup released["finished"] \cup UNION {Marks(u) : u \in Late}
      BY <1>1 DEF HBInv, KnowledgeInv
    <2>2. CASE t = 0
      BY <1>3, <2>1, <2>2
    <2>3. CASE t # 0
      <3>1. es \subseteq UNION {Marks(u) : u \in Late}
        BY <1>1, <1>2, <2>3
      <3>2. known[0] \ es \subseteq known'[0] /\ released["finished"] \ es = released'["finished"]
        BY <1>3, <2>3, Parameters
      <3> QED BY <2>1, <3>1, <3>2
    <2> QED BY <2>2, <2>3
  <1>8. ASSUME NEW u \in Late
        PROVE  Needs(u) \subseteq IF worker[u] = "spin" THEN released'["current_iteration"]
                                  ELSE known'[u]
    <2>1. Needs(u) \subseteq IF worker[u] = "spin" THEN released["current_iteration"]
                             ELSE known[u]
      BY <1>1 DEF HBInv, KnowledgeInv
    <2>2. CASE u = t
      <3>1. worker[u] # "spin"
        BY <1>1, <2>2, ParallelAssumption DEF Labelling, Late, Workers
      <3> QED BY <1>3, <2>1, <2>2, <3>1
    <2>3. CASE u # t
      BY <1>3, <1>4, <1>5, <2>1, <2>3
    <2> QED BY <2>2, <2>3
  <1> QED
    <2>1. KnowledgeInv'
      BY <1>1, <1>5, <1>6, <1>7, <1>8 DEF KnowledgeInv, Needs, Marks, LabelWrite, CentroidRead,
         LabelRead, CentroidWrite, Events
    <2> QED BY <1>3, <2>1 DEF HBInv

LEMMA StepHB == SafeParameters /\ IInv /\ IInv' /\ HBInv /\ [HBNext]_hbvars => HBInv'
  <1> SUFFICES ASSUME SafeParameters, IInv, IInv', HBInv, [HBNext]_hbvars
               PROVE  HBInv'
    OBVIOUS
  <1> USE Parameters DEF HBInv, HBTypeOK
  <1>1. CASE HBCopySampled
    <2>1. known[0] = Events /\ pc' = "spawn" /\ CentroidWrite \in Events
      BY <1>1 DEF HBCopySampled, CopySampled, KnowledgeInv, Events
    <2>2. known' \in [Threads -> SUBSET Events] /\ known'[0] = Events
      BY <1>1, <2>1 DEF HBCopySampled
    <2>3. released' \in [{"current_iteration", "finished"} -> SUBSET Events]
      BY <1>1, <2>2 DEF HBCopySampled
    <2> QED BY <2>1, <2>2, <2>3 DEF KnowledgeInv
  <1>2. CASE HBSpawn
    <2>1. loop \in Threads /\ pc = "spawn" /\ pc' = "spawn" /\ loop # 0
      BY <1>2 DEF HBSpawn, Spawn, IInv, BarrierInv, TypeOK, Threads
    <2>2. known' \in [Threads -> SUBSET Events] /\ known'[0] = known[0]
      BY <1>2, <2>1 DEF HBSpawn
    <2> QED BY <1>2, <2>1, <2>2 DEF HBSpawn, KnowledgeInv
  <1>3. CASE HBResetRound
    BY <1>3 DEF HBResetRound, ResetRound, StoreRelaxed, KnowledgeInv
  <1>4. CASE HBPublish
    <2>1. /\ pc = "publish" /\ pc' = "rows" /\ known' = known /\ known[0] = Events
          /\ UNCHANGED <<worker, at, iteration>>
          /\ released' = [released EXCEPT !["current_iteration"] = known[0]]
      BY <1>4 DEF HBPublish, Publish, pool, KnowledgeInv, StoreRelease
    <2>2. \A t \in Workers : worker[t] = "spin"
      BY <2>1 DEF IInv, BarrierInv
    <2>3. \A t \in Threads : Needs(t) \subseteq Events
      BY BlocksAreRows DEF Needs, Marks, Events
    <2>4. /\ released' \in [{"current_iteration", "finished"} -> SUBSET Events]
          /\ released'["current_iteration"] = Events
      BY <2>1
    <2>5. Late' \subseteq Workers
      BY DEF Late
    <2> QED BY <2>1, <2>2, <2>3, <2>4, <2>5 DEF KnowledgeInv, Needs, Marks, LabelWrite,
            CentroidRead, LabelRead, CentroidWrite, Events
  <1>5. ASSUME NEW t \in Threads, HBLabelRow(t) PROVE HBInv'
    BY <1>5, StepLabelRow
  <1>6. CASE HBAllFinished
    <2>1. /\ pc = "wait" /\ pc' = "accumulate" /\ released' = released
          /\ known' = [known EXCEPT ![0] = @ \cup released["finished"]]
          /\ UNCHANGED <<at, iteration>>
      BY <1>6 DEF HBAllFinished, AllFinished, pool, LoadAcquire
    <2>2. known' \in [Threads -> SUBSET Events]
      BY <2>1
    <2>3. Late = {}
      <3>1. \A t \in Workers : at'[t] = iteration' + 1
        BY <2>1 DEF IInv, BarrierInv
      <3>2. iteration \in Int
        BY DEF IInv, TypeOK
      <3> QED BY <2>1, <3>1, <3>2 DEF Late
    <2>4. known'[0] = Events
      <3>1. Events \subseteq known[0] \cup released["finished"]
        BY <2>1, <2>3 DEF KnowledgeInv
      <3> QED BY <2>1, <2>2, <3>1
    <2> QED BY <2>1, <2>2, <2>4 DEF KnowledgeInv
  <1>7. CASE HBAccumulate \/ HBDivide
    <2>1. PICK es \in SUBSET Events : Access(0, es)
      BY <1>7 DEF HBAccumulate, HBDivide, Events
    <2>2. pc \notin {"rows", "wait"} /\ pc' = pc
      BY <1>7 DEF HBAccumulate, HBDivide, Accumulate, Divide
    <2>3. HBTypeOK' /\ known'[0] = known[0] \cup es
      BY <2>1, AccessKnowledge
    <2> QED BY <2>2, <2>3 DEF KnowledgeInv
  <1>8. CASE HBJoin
    <2>1. loop \in Threads /\ pc = "join" /\ pc' = "join"
      BY <1>8 DEF HBJoin, Join, IInv, TypeOK, Threads
    <2>2. known' \in [Threads -> SUBSET Events] /\ known'[0] = known[0] \cup known[loop]
      BY <1>8, <2>1 DEF HBJoin
    <2> QED BY <1>8, <2>1, <2>2 DEF HBJoin, KnowledgeInv
  <1>9. ASSUME UNCHANGED hb, UNCHANGED <<iteration, worker, at>>,
               pc' = pc \/ (pc = "rows" /\ pc' = "wait") \/ {pc, pc'} \cap {"rows", "wait"} = {}
        PROVE  HBInv'
    BY <1>9 DEF hb, KnowledgeInv, Needs, Marks, LabelWrite, CentroidRead, LabelRead,
       CentroidWrite, Events, Late
  <1>10. ASSUME NEW t \in Workers, HBSeeIteration(t) PROVE HBInv'
    <2>1. /\ worker[t] = "spin" /\ pc' = pc /\ released' = released
          /\ known' = [known EXCEPT ![t] = @ \cup released["current_iteration"]]
          /\ worker' = [worker EXCEPT ![t] = "rows"]
          /\ UNCHANGED <<at, iteration>>
      BY <1>10 DEF HBSeeIteration, SeeIteration, LoadAcquire
    <2>2. known' \in [Threads -> SUBSET Events] /\ t # 0
      BY <2>1 DEF Workers
    <2>3. known'[0] = known[0]
      BY <2>1, <2>2
    <2>4. ASSUME NEW u \in Late, pc \in {"rows", "wait"}
          PROVE  Needs(u) \subseteq IF worker'[u] = "spin" THEN released["current_iteration"]
                                    ELSE known'[u]
      <3>1. Needs(u) \subseteq IF worker[u] = "spin" THEN released["current_iteration"]
                               ELSE known[u]
        BY <2>4 DEF KnowledgeInv
      <3>2. u \in Workers /\ u \in Threads /\ worker \in [Workers -> {"none", "spin", "rows", "exited"}]
        BY DEF Late, IInv, TypeOK
      <3> QED BY <2>1, <2>2, <3>1, <3>2
    <2> QED BY <2>1, <2>2, <2>3, <2>4 DEF KnowledgeInv, Needs, Marks, LabelWrite, CentroidRead,
            LabelRead, CentroidWrite, Events, Late
  <1>11. ASSUME NEW t \in Workers, HBFinishRows(t) PROVE HBInv'
    <2>1. /\ worker[t] = "rows" /\ UNCHANGED <<pc, known, iteration>>
          /\ released' = [released EXCEPT !["finished"] = @ \cup known[t]]
          /\ at' = [at EXCEPT ![t] = @ + 1]
          /\ \A u \in Workers \ {t} : worker'[u] = worker[u]
      BY <1>11 DEF HBFinishRows, FinishRows, UpdateRelease, IInv, TypeOK
    <2>2. pc \in {"rows", "wait"} /\ t \in Late
      BY <2>1 DEF IInv, BarrierInv, TypeOK, After, Late
    <2>3. t \notin Late' /\ \A u \in Workers \ {t} : u \in Late' <=> u \in Late
      BY <2>1, <2>2 DEF Late, IInv, TypeOK
    <2>4. Marks(t) \subseteq known[t]
      BY <2>1, <2>2 DEF KnowledgeInv, Needs
    <2>5. Late \subseteq Late' \cup {t} /\ Late' \subseteq Workers \ {t} /\ Late' \subseteq Late
      BY <2>3 DEF Late
    <2>6. /\ released' \in [{"current_iteration", "finished"} -> SUBSET Events]
          /\ released'["finished"] = released["finished"] \cup known[t]
          /\ released'["current_iteration"] = released["current_iteration"]
      BY <2>1
    <2>7. Events \subseteq known[0] \cup released'["finished"] \cup UNION {Marks(u) : u \in Late'}
      <3>1. Events \subseteq known[0] \cup released["finished"] \cup UNION {Marks(u) : u \in Late}
        BY <2>2 DEF KnowledgeInv
      <3> QED BY <2>4, <2>5, <2>6, <3>1
    <2>8. \A u \in Late' :
             Needs(u) \subseteq IF worker'[u] = "spin" THEN released'["current_iteration"]
                                ELSE known[u]
      BY <2>1, <2>2, <2>5, <2>6 DEF KnowledgeInv
    <2>9. Needs(0) \subseteq known[0]
      BY <2>2 DEF KnowledgeInv
    <2> QED BY <2>1, <2>6, <2>7, <2>8, <2>9 DEF KnowledgeInv, Needs, Marks, LabelWrite, CentroidRead,
            LabelRead, CentroidWrite, Events
  <1>12. CASE HBCaller
    <2>1. CASE UNCHANGED hb /\
               (\/ SampleRow \/ AllSpawned \/ ComputeChunk \/ CallerRowsDone
                \/ SpinOnCounter \/ Accumulated \/ NextRound \/ SetFitted \/ Return)
      <3>1. UNCHANGED <<worker, at>>
        BY <2>1 DEF SampleRow, AllSpawned, ComputeChunk, CallerRowsDone, SpinOnCounter,
           Accumulated, NextRound, SetFitted, Return, pool, vars
      <3>2. CASE ComputeChunk \/ NextRound
        BY <1>9, <2>1, <3>1, <3>2 DEF ComputeChunk, NextRound, LoopHead, KnowledgeInv, hb
      <3>3. CASE SampleRow \/ AllSpawned \/ CallerRowsDone \/ SpinOnCounter \/ Accumulated
                 \/ SetFitted \/ Return
        BY <1>9, <2>1, <3>1, <3>3 DEF SampleRow, AllSpawned, CallerRowsDone, SpinOnCounter,
           Accumulated, SetFitted, Return, vars
      <3> QED BY <2>1, <3>2, <3>3
    <2> QED BY <1>1, <1>2, <1>3, <1>4, <1>5, <1>6, <1>7, <1>8, <1>12, <2>1 DEF HBCaller
  <1>13. CASE HBRefit
    BY <1>9, <1>13 DEF HBRefit, Refit, pool
  <1>14. ASSUME NEW t \in Workers, HBWorker(t) PROVE HBInv'
    BY <1>5, <1>9, <1>10, <1>11, <1>14 DEF HBWorker, SpinOnIteration, vars, pool
  <1>15. CASE UNCHANGED hbvars
    BY <1>9, <1>15 DEF hbvars, vars, pool
  <1> QED BY <1>12, <1>13, <1>14, <1>15 DEF HBNext

-----------------------------------------------------------------------------
LEMMA HBInductive == ASSUME SafeParameters PROVE HBSpec => [](IInv /\ HBInv)
  <1>1. HBInit => IInv /\ HBInv
    BY InitHB, InitType, InitBarrier, InitLabels DEF HBInit, IInv
  <1>2. IInv /\ HBInv /\ [HBNext]_hbvars => IInv' /\ HBInv'
    <2>1. IInv /\ [Next]_vars => IInv'
      BY StepType, StepBarrier, StepLabels DEF IInv
    <2> QED BY <2>1, StepHB, StepForgetsHB
  <1> QED BY <1>1, <1>2, PTL DEF HBSpec

(* No two conflicting accesses to a label or to the centroids are          *)
(* unordered: the barrier's release and acquire operations are enough.     *)
THEOREM DataRaceFree == ASSUME SafeParameters PROVE HBSpec => []NoDataRace
  <1>1. IInv /\ HBInv => NoDataRace
    <2> SUFFICES ASSUME IInv, HBInv PROVE NoDataRace
      OBVIOUS
    <2>1. ASSUME NEW t \in Threads, Labelling(t)
          PROVE  {LabelWrite(row[t]), LabelRead, CentroidWrite} \subseteq known[t]
      <3>1. {LabelWrite(row[t]), LabelRead, CentroidWrite} \subseteq Needs(t)
        BY <2>1, LabelMarks DEF Needs
      <3>2. CASE t = 0
        BY <2>1, <3>1, <3>2 DEF Labelling, HBInv, KnowledgeInv
      <3>3. CASE t # 0
        <4>1. t \in Workers /\ worker[t] = "rows"
          BY <2>1, <3>3 DEF Labelling, Threads
        <4>2. pc \in {"rows", "wait"} /\ t \in Late
          BY <4>1 DEF IInv, BarrierInv, TypeOK, After, Late
        <4> QED BY <3>1, <4>1, <4>2 DEF HBInv, KnowledgeInv
      <3> QED BY <3>2, <3>3
    <2>2. pc = "accumulate" /\ loop < N => LabelWrite(loop) \in known[0]
      <3>1. loop \in Nat /\ N \in Nat
        BY Parameters DEF IInv, TypeOK
      <3>2. loop < N => LabelWrite(loop) \in Events
        BY <3>1 DEF Rows, Events
      <3> QED BY <3>2 DEF HBInv, KnowledgeInv
    <2>3. CentroidsDue => \A t \in Threads : CentroidRead(t) \in known[0]
      BY DEF CentroidsDue, HBInv, KnowledgeInv, Events
    <2> QED BY <2>1, <2>2, <2>3 DEF NoDataRace
  <1> QED BY <1>1, HBInductive, PTL

-----------------------------------------------------------------------------
(* The fit implements KMeans. *)

(* The sampled rows are distinct; the helper arrays hold the sums over the *)
(* rows accumulated so far, and the centroids divided so far are means.    *)
DistinctInv ==
    pc = "sample" => \A a, b \in 1 .. Len(indices) : indices[a] = indices[b] => a = b

MeansInv ==
    /\ pc \in {"publish", "rows", "wait"} => sums = ZeroSums /\ counts = ZeroCounts
    /\ pc = "accumulate" =>
         /\ loop <= N
         /\ \A k \in Clusters : /\ sums[k] = SumBefore(labels, k, loop)
                                /\ counts[k] = Cardinality(Before(labels, k, loop))
    /\ pc = "divide" =>
         /\ \A k \in Clusters : /\ sums[k] = ClusterSum(labels, k)
                                /\ counts[k] = Cardinality(Members(labels, k))
         /\ \A k \in Clusters : k < loop => centroids[k] = Means(labels)[k]
    /\ pc = "fitted" => iteration = M

FitInv == DistinctInv /\ MeansInv

LEMMA InitFit == Init => FitInv
  BY DEF Init, FitInv, DistinctInv, MeansInv

LEMMA StepFit == SafeParameters /\ IInv /\ FitInv /\ [Next]_vars => FitInv'
  <1> SUFFICES ASSUME SafeParameters, IInv, FitInv, [Next]_vars PROVE FitInv'
    OBVIOUS
  <1> USE DEF IInv, FitInv
  <1>1. CASE SampleRow
    <2>1. /\ pc = "sample" /\ pc' = "sample"
          /\ \E i \in Rows \ Range(indices) : indices' = Append(indices, i)
      BY <1>1 DEF SampleRow
    <2>2. PICK i \in Rows \ Range(indices) : indices' = Append(indices, i)
      BY <2>1
    <2>3. indices \in Seq(Rows) /\ \A a \in 1 .. Len(indices) : indices[a] # i
      BY <2>2 DEF TypeOK, Range
    <2>4. /\ Len(indices') = Len(indices) + 1 /\ Len(indices) \in Nat
          /\ \A a \in 1 .. Len(indices) : indices'[a] = indices[a]
          /\ indices'[Len(indices) + 1] = i
      BY <2>2, <2>3
    <2>5. DistinctInv'
      BY <2>1, <2>3, <2>4 DEF DistinctInv
    <2> QED BY <2>1, <2>5 DEF MeansInv
  <1>2. CASE CopySampled \/ Spawn \/ AllSpawned
    BY <1>2 DEF CopySampled, Spawn, AllSpawned, DistinctInv, MeansInv
  <1>3. CASE ComputeChunk
    <2>1. pc' \in {"reset", "fitted"} /\ iteration' = 0 /\ (pc' = "fitted" => M = 0)
      BY <1>3, Parameters DEF ComputeChunk, LoopHead
    <2> QED BY <2>1 DEF DistinctInv, MeansInv
  <1>4. CASE ResetRound
    BY <1>4 DEF ResetRound, DistinctInv, MeansInv
  <1>5. CASE Publish
    BY <1>5 DEF Publish, DistinctInv, MeansInv, helpers
  <1>6. ASSUME NEW t \in Threads, LabelNextRow(t), pc \in {"rows", "wait"} PROVE FitInv'
    BY <1>6 DEF LabelNextRow, DistinctInv, MeansInv, helpers
  <1>7. CASE CallerRow
    BY <1>6, <1>7, Parameters DEF CallerRow
  <1>8. CASE CallerRowsDone
    BY <1>8 DEF CallerRowsDone, DistinctInv, MeansInv, helpers
  <1>9. CASE AllFinished
    <2>1. pc = "wait" /\ pc' = "accumulate" /\ loop' = 0 /\ UNCHANGED <<labels, sums, counts>>
      BY <1>9 DEF AllFinished, helpers, output
    <2>2. \A k \in Clusters : sums[k] = ZeroVector /\ counts[k] = 0
      BY <2>1 DEF MeansInv, ZeroSums, ZeroCounts
    <2>3. MeansInv'
      BY <2>1, <2>2, BeforeNone, Parameters DEF MeansInv
    <2> QED BY <2>1, <2>3 DEF DistinctInv
  <1>10. CASE Accumulate
    <2>1. /\ pc = "accumulate" /\ pc' = "accumulate" /\ loop \in Rows /\ loop' = loop + 1
          /\ labels' = labels
          /\ sums' = [sums EXCEPT ![labels[loop]] = VectorSum(@, input_points[loop])]
          /\ counts' = [counts EXCEPT ![labels[loop]] = @ + 1]
      BY <1>10, Parameters DEF Accumulate, output, TypeOK, Rows
    <2>2. ASSUME NEW k \in Clusters
          PROVE  /\ sums'[k] = SumBefore(labels, k, loop + 1)
                 /\ counts'[k] = Cardinality(Before(labels, k, loop + 1))
      <3>1. /\ sums[k] = SumBefore(labels, k, loop)
            /\ counts[k] = Cardinality(Before(labels, k, loop))
        BY <2>1 DEF MeansInv
      <3>2. CASE k = labels[loop]
        <4>1. sums'[k] = VectorSum(sums[k], input_points[loop]) /\ counts'[k] = counts[k] + 1
          BY <2>1, <3>2 DEF TypeOK
        <4> QED BY <2>1, <3>1, <3>2, <4>1, BeforeNext
      <3>3. CASE k # labels[loop]
        <4>1. sums'[k] = sums[k] /\ counts'[k] = counts[k]
          BY <2>1, <3>3 DEF TypeOK
        <4>2. Before(labels, k, loop + 1) = Before(labels, k, loop)
          BY <2>1, <3>3, BeforeNext
        <4> QED BY <3>1, <4>1, <4>2 DEF SumBefore
      <3> QED BY <3>2, <3>3
    <2>3. loop + 1 <= N
      BY <2>1, Parameters DEF Rows
    <2>4. MeansInv'
      BY <2>1, <2>2, <2>3 DEF MeansInv
    <2> QED BY <2>1, <2>4 DEF DistinctInv
  <1>11. CASE Accumulated
    <2>1. /\ pc = "accumulate" /\ pc' = "divide" /\ loop >= N /\ loop' = 0
          /\ UNCHANGED <<labels, sums, counts>>
      BY <1>11 DEF Accumulated, helpers, output
    <2>2. loop = N
      BY <2>1, Parameters DEF MeansInv, TypeOK
    <2>3. ASSUME NEW k \in Clusters
          PROVE  sums[k] = ClusterSum(labels, k) /\ counts[k] = Cardinality(Members(labels, k))
      BY <2>1, <2>2, BeforeAll DEF MeansInv
    <2>4. \A k \in Clusters : ~ (k < 0)
      BY DEF Clusters
    <2>5. MeansInv'
      BY <2>1, <2>3, <2>4 DEF MeansInv
    <2> QED BY <2>1, <2>5 DEF DistinctInv
  <1>12. CASE Divide
    <2>1. /\ pc = "divide" /\ pc' = "divide" /\ loop \in Clusters /\ loop' = loop + 1
          /\ UNCHANGED <<labels, sums, counts>>
          /\ centroids' = [centroids EXCEPT ![loop] = Mean(sums[loop], counts[loop])]
      BY <1>12, Parameters DEF Divide, helpers, TypeOK, Clusters
    <2>2. ASSUME NEW k \in Clusters, k < loop + 1 PROVE centroids'[k] = Means(labels)[k]
      <3>1. CASE k = loop
        BY <2>1, <3>1 DEF MeansInv, TypeOK, Means
      <3>2. CASE k # loop
        BY <2>1, <2>2, <3>2 DEF MeansInv, TypeOK, Clusters
      <3> QED BY <3>1, <3>2
    <2>3. MeansInv'
      BY <2>1, <2>2 DEF MeansInv
    <2> QED BY <2>1, <2>3 DEF DistinctInv
  <1>13. CASE NextRound
    <2>1. /\ pc = "divide" /\ iteration' = iteration + 1 /\ pc' \in {"reset", "fitted"}
          /\ pc' = "fitted" => ~ (iteration + 1 < M)
      BY <1>13 DEF NextRound, LoopHead
    <2>2. iteration < M /\ iteration \in Nat
      BY <2>1 DEF BarrierInv, TypeOK
    <2> QED BY <2>1, <2>2, Parameters DEF DistinctInv, MeansInv
  <1>14. CASE SetFitted \/ Join \/ Return
    BY <1>14 DEF SetFitted, Join, Return, DistinctInv, MeansInv
  <1>15. CASE Refit
    BY <1>15 DEF Refit, DistinctInv, MeansInv
  <1>16. ASSUME NEW t \in Workers, SeeIteration(t) \/ FinishRows(t) PROVE FitInv'
    <2>1. UNCHANGED <<pc, indices, labels, centroids, sums, counts, iteration, loop>>
      BY <1>16 DEF SeeIteration, FinishRows, output, helpers
    <2> QED BY <2>1 DEF DistinctInv, MeansInv
  <1>17. ASSUME NEW t \in Workers, WorkerRow(t) PROVE FitInv'
    <2>1. pc \in {"rows", "wait"}
      BY <1>17 DEF WorkerRow, BarrierInv, After, TypeOK
    <2> QED BY <1>6, <1>17, <2>1, Parameters DEF WorkerRow
  <1>18. CASE UNCHANGED vars
    <2>1. UNCHANGED <<pc, indices, labels, centroids, sums, counts, iteration, loop>>
      BY <1>18 DEF vars, output, helpers
    <2> QED BY <2>1 DEF DistinctInv, MeansInv
  <1> QED
    BY <1>1, <1>2, <1>3, <1>4, <1>5, <1>7, <1>8, <1>9, <1>10, <1>11, <1>12, <1>13,
       <1>14, <1>15, <1>16, <1>17, <1>18
    DEF Next, Caller, Worker, SpinOnCounter, SpinOnIteration

-----------------------------------------------------------------------------
(* Each step of fit is one of KMeans, or none. *)
FitVars == <<FitPhase, FitCentroids, labels, FitTodo, FitIteration, fitted>>

LEMMA SameVars == UNCHANGED FitVars <=> UNCHANGED Fitting!vars
  BY DEF FitVars, Fitting!vars

(* The instance has the operators of Lloyd under names of its own. *)
LEMMA SameSets == Fitting!Rows = Rows /\ Fitting!Clusters = Clusters /\ Fitting!Coords = Coords
  BY DEF Fitting!Rows, Rows, Fitting!Clusters, Clusters, Fitting!Coords, Coords

LEMMA SameL2 == \A p, c : Fitting!L2(p, c) = L2(p, c)
  BY DEF Fitting!L2, L2, Fitting!Coords, Coords, MapThenSumSet, Fitting!MapThenSumSet,
     MapThenFoldSet, Fitting!MapThenFoldSet

LEMMA SameNearest == \A p, j, c : Fitting!IsNearest(p, j, c) <=> IsNearest(p, j, c)
  BY SameL2, SameSets
  DEF Fitting!IsNearest, IsNearest, Fitting!Less, Less, Fitting!FloatMaxDistance,
      FloatMaxDistance

LEMMA SameSampled ==
    /\ \A i : Fitting!SampledCentroids(i) = SampledCentroids(i)
    /\ Fitting!ZeroCentroids = ZeroCentroids
  BY SameSets
  DEF Fitting!SampledCentroids, SampledCentroids, Fitting!PointAsCentroid, PointAsCentroid,
      Fitting!ZeroCentroids, ZeroCentroids, Fitting!ZeroVector, ZeroVector

LEMMA SameMeans == \A l : Fitting!Means(l) = Means(l)
  <1>1. \A l, k : Fitting!Members(l, k) = Members(l, k)
    BY SameSets DEF Fitting!Members, Members
  <1>2. \A l, k : Fitting!ClusterSum(l, k) = ClusterSum(l, k)
    BY DEF Fitting!ClusterSum, ClusterSum, Fitting!Members, Members, Fitting!Coords, Coords,
       Fitting!Rows, Rows, MapThenSumSet, Fitting!MapThenSumSet, MapThenFoldSet,
       Fitting!MapThenFoldSet
  <1>3. \A S : Fitting!Cardinality(S) = Cardinality(S)
    BY DEF Fitting!Cardinality, Cardinality, Fitting!IsFiniteSet, IsFiniteSet
  <1> QED BY <1>1, <1>2, <1>3, SameSets DEF Fitting!Means, Means, Fitting!Mean, Mean

LEMMA SameInjection == \A S, U : Fitting!Injection(S, U) = Injection(S, U)
  BY DEF Fitting!Injection, Injection, Fitting!IsInjective, IsInjective

(* The rows passed when a round begins, goes on and ends. *)
LEMMA RoundBegins ==
    ASSUME SafeParameters, TypeOK', pc' = "rows", row'[0] = Start(0),
           \A t \in Workers : worker'[t] # "rows" /\ at'[t] <= iteration'
    PROVE  FitTodo' = Rows
  <1>1. ASSUME NEW t \in Threads PROVE LabelledBy(t)' = {}
    <2>1. Start(t) \in Int
      BY Blocks
    <2>2. ASSUME NEW i \in Chunk(t, N, T, MinChunk) PROVE ~ Passed(t, i)'
      <3>1. i >= Start(t) /\ i \in Int
        BY <2>1 DEF Chunk, Start
      <3>2. CASE t = 0
        BY <2>1, <3>1, <3>2 DEF Passed
      <3>3. CASE t # 0
        <4>1. t \in Workers
          BY <3>3 DEF Threads
        <4>2. at'[t] \in Int /\ iteration' \in Int /\ at'[t] <= iteration'
          BY <4>1 DEF TypeOK
        <4> QED BY <3>3, <4>1, <4>2 DEF Passed
      <3> QED BY <3>2, <3>3
    <2> QED BY <2>2 DEF LabelledBy
  <1> QED BY <1>1 DEF FitTodo

LEMMA RoundEnds ==
    ASSUME SafeParameters, TypeOK, BarrierInv, pc = "accumulate"
    PROVE  FitTodo = {}
  <1>1. ASSUME NEW i \in Rows PROVE \E t \in Threads : i \in LabelledBy(t)
    <2>1. PICK t \in Threads : i \in Chunk(t, N, T, MinChunk)
      BY BlocksCoverRows
    <2>2. Passed(t, i)
      <3>1. CASE t = 0
        BY <3>1 DEF Passed
      <3>2. CASE t # 0
        <4>1. t \in Workers /\ at[t] = iteration + 1 /\ iteration \in Int
          BY <3>2 DEF Threads, BarrierInv, TypeOK
        <4> QED BY <3>2, <4>1 DEF Passed
      <3> QED BY <3>1, <3>2
    <2> QED BY <2>1, <2>2 DEF LabelledBy
  <1> QED BY <1>1 DEF FitTodo

LEMMA RowAssigned ==
    ASSUME SafeParameters, IInv, NEW t \in Threads, LabelNextRow(t), pc \in {"rows", "wait"},
           IF t = 0 THEN pc = "rows" ELSE worker[t] = "rows"
    PROVE  Fitting!AssignRow(row[t])
  <1> DEFINE r == row[t]
  <1> USE DEF IInv
  <1>1. /\ r < End(t) /\ UNCHANGED <<pc, centroids, fitted, iteration, worker, at>>
        /\ row' = [row EXCEPT ![t] = @ + 1]
        /\ \E j \in Clusters : /\ IsNearest(input_points[r], j, centroids)
                               /\ labels' = [labels EXCEPT ![r] = j]
    BY DEF LabelNextRow, pool
  <1>2. r >= Start(t) /\ r \in Int /\ Start(t) \in Int /\ End(t) \in Int
    <2>1. r >= Start(t)
      BY DEF LabelInv, Threads
    <2> QED BY <2>1, Blocks DEF TypeOK
  <1>3. r \in Chunk(t, N, T, MinChunk) /\ r \in Rows
    <2>1. r \in Chunk(t, N, T, MinChunk)
      BY <1>1, <1>2 DEF Chunk, Start, End
    <2> QED BY <2>1, BlocksAreRows
  <1>4. ASSUME NEW u \in Threads, u # t PROVE r \notin LabelledBy(u)
    <2>1. r \notin Chunk(u, N, T, MinChunk)
      BY <1>3, <1>4, ChunksDisjoint, Parameters
    <2> QED BY <2>1 DEF LabelledBy
  <1>5. ASSUME NEW i \in Int
        PROVE  /\ Passed(t, i) <=> i < r
               /\ Passed(t, i)' <=> i < r + 1
    <2>1. row'[t] = r + 1
      BY <1>1 DEF TypeOK
    <2>2. CASE t = 0
      BY <1>1, <2>1, <2>2 DEF Passed
    <2>3. CASE t # 0
      <3>1. t \in Workers /\ iteration \in Int /\ worker[t] = "rows"
        BY <2>3 DEF Threads, TypeOK
      <3>2. at[t] = iteration
        BY <3>1 DEF BarrierInv, After
      <3> QED BY <1>1, <2>1, <2>3, <3>1, <3>2 DEF Passed
    <2> QED BY <2>2, <2>3
  <1>6. r \notin LabelledBy(t) /\ LabelledBy(t)' = LabelledBy(t) \cup {r}
    <2>1. \A i \in Chunk(t, N, T, MinChunk) : i \in Int
      BY <1>2 DEF Chunk, Start, End
    <2>2. \A i \in Chunk(t, N, T, MinChunk) : Passed(t, i)' <=> Passed(t, i) \/ i = r
      BY <1>2, <1>5, <2>1
    <2>3. ~ Passed(t, r)
      BY <1>2, <1>5
    <2> HIDE DEF r
    <2> QED BY <1>3, <2>2, <2>3 DEF LabelledBy
  <1>7. ASSUME NEW u \in Threads, u # t PROVE LabelledBy(u)' = LabelledBy(u)
    <2>1. row'[u] = row[u]
      BY <1>1, <1>7 DEF TypeOK
    <2> QED BY <1>1, <2>1 DEF LabelledBy, Passed
  <1>8. r \in FitTodo /\ FitTodo' = FitTodo \ {r}
    <2>1. FitTodo = Rows \ UNION {LabelledBy(u) : u \in Threads}
          /\ FitTodo' = Rows \ UNION {LabelledBy(u)' : u \in Threads}
      BY <1>1 DEF FitTodo
    <2>2. \A u \in Threads : r \notin LabelledBy(u)
      BY <1>4, <1>6
    <2>3. \A i \in Rows : (\E u \in Threads : i \in LabelledBy(u)')
                             <=> (\E u \in Threads : i \in LabelledBy(u)) \/ i = r
      BY <1>6, <1>7
    <2> QED BY <1>3, <2>1, <2>2, <2>3
  <1>9. /\ FitPhase = "rounds" /\ FitPhase' = "rounds" /\ FitCentroids = centroids
        /\ FitCentroids' = centroids /\ FitIteration = iteration /\ FitIteration' = iteration
        /\ iteration < M
    BY <1>1 DEF FitPhase, FitCentroids, FitIteration, BarrierInv
  <1> HIDE DEF r
  <1> QED BY <1>1, <1>8, <1>9, SameNearest, SameSets DEF Fitting!AssignRow, r

LEMMA StepRefines ==
    SafeParameters /\ IInv /\ IInv' /\ FitInv /\ FitInv' /\ [Next]_vars =>
        [Fitting!Next]_(Fitting!vars)
  <1> SUFFICES ASSUME SafeParameters, IInv, IInv', FitInv, FitInv', [Next]_vars
               PROVE  Fitting!Next \/ UNCHANGED FitVars
    BY SameVars
  <1> USE DEF IInv, FitInv
  <1>1. CASE SampleRow \/ Spawn \/ AllSpawned
    BY <1>1 DEF SampleRow, Spawn, AllSpawned, FitVars, FitPhase, FitCentroids, FitTodo,
       FitIteration, output
  <1>2. CASE CopySampled
    <2> DEFINE s == [k \in Clusters |-> indices[k + 1]]
    <2>1. /\ pc = "sample" /\ pc' = "spawn" /\ Len(indices) = K
          /\ centroids' = SampledCentroids(s) /\ UNCHANGED <<labels, fitted>>
      BY <1>2 DEF CopySampled
    <2>2. s \in Injection(Clusters, Rows)
      <3>1. \A k \in Clusters : k + 1 \in 1 .. Len(indices)
        BY <2>1, Parameters DEF Clusters
      <3>2. s \in [Clusters -> Rows]
        BY <3>1 DEF TypeOK
      <3>3. \A a, b \in Clusters : s[a] = s[b] => a = b
        BY <2>1, <3>1, Parameters DEF DistinctInv, Clusters
      <3> HIDE DEF s
      <3> QED BY <3>2, <3>3 DEF Injection, IsInjective
    <2> HIDE DEF s
    <2>3. Fitting!Sample
      BY <2>1, <2>2, SameSets, SameSampled, SameInjection
      DEF Fitting!Sample, FitPhase, FitTodo, FitIteration, FitCentroids
    <2> QED BY <2>3 DEF Fitting!Next
  <1>3. CASE ComputeChunk
    <2>1. pc = "chunk" /\ pc' \in {"reset", "fitted"} /\ iteration' = 0
          /\ UNCHANGED <<centroids, labels, fitted>>
      BY <1>3, Parameters DEF ComputeChunk, LoopHead, output
    <2> QED BY <2>1 DEF FitVars, FitPhase, FitCentroids, FitTodo, FitIteration
  <1>4. CASE ResetRound
    BY <1>4 DEF ResetRound, FitVars, FitPhase, FitCentroids, FitTodo, FitIteration, output
  <1>5. CASE Publish
    <2>1. /\ pc = "publish" /\ pc' = "rows" /\ row' = [row EXCEPT ![0] = Start(0)]
          /\ UNCHANGED <<centroids, labels, fitted, iteration, worker, at>>
      BY <1>5 DEF Publish, output, pool
    <2>2. \A t \in Workers : worker'[t] # "rows" /\ at'[t] <= iteration'
      BY <2>1 DEF BarrierInv, TypeOK
    <2>3. row'[0] = Start(0)
      BY <2>1, Parameters DEF TypeOK
    <2>4. FitTodo' = Rows
      BY <2>1, <2>2, <2>3, RoundBegins
    <2> QED BY <2>1, <2>4 DEF FitVars, FitPhase, FitCentroids, FitTodo, FitIteration
  <1>6. ASSUME NEW t \in Threads, LabelNextRow(t), pc \in {"rows", "wait"},
               IF t = 0 THEN pc = "rows" ELSE worker[t] = "rows"
        PROVE  Fitting!Next
    <2>1. Fitting!AssignRow(row[t])
      BY <1>6, RowAssigned
    <2>2. row[t] \in Rows
      BY <1>6, LabelNextRowKeeps
    <2> QED BY <2>1, <2>2, SameSets DEF Fitting!Next
  <1>7. CASE CallerRow
    BY <1>6, <1>7, Parameters DEF CallerRow
  <1>8. CASE CallerRowsDone
    <2>1. /\ pc = "rows" /\ pc' = "wait" /\ row[0] >= End(0)
          /\ UNCHANGED <<centroids, labels, fitted, iteration, worker, at, row>>
      BY <1>8 DEF CallerRowsDone, output, pool
    <2>2. ASSUME NEW t \in Threads PROVE LabelledBy(t)' = LabelledBy(t)
      <3>1. \A i \in Chunk(t, N, T, MinChunk) : Passed(t, i)' <=> Passed(t, i)
        <4>1. CASE t = 0
          <5>1. End(0) \in Int /\ Start(0) \in Int
            BY Blocks, Parameters
          <5>2. row[0] \in Int
            <6>1. row \in [Threads -> 0 .. N]
              BY DEF TypeOK
            <6> QED BY <6>1, Parameters
          <5>3. \A i \in Chunk(t, N, T, MinChunk) : i \in Int /\ i < End(0)
            BY <4>1, <5>1 DEF Chunk, Start, End
          <5> QED BY <2>1, <4>1, <5>1, <5>2, <5>3 DEF Passed
        <4>2. CASE t # 0
          BY <2>1, <4>2 DEF Passed
        <4> QED BY <4>1, <4>2
      <3> QED BY <3>1 DEF LabelledBy
    <2>3. FitTodo' = FitTodo
      BY <2>1, <2>2 DEF FitTodo
    <2> QED BY <2>1, <2>3 DEF FitVars, FitPhase, FitCentroids, FitIteration
  <1>9. CASE AllFinished \/ Accumulate
    <2>1. /\ pc \in {"wait", "accumulate"} /\ pc' = "accumulate"
          /\ UNCHANGED <<centroids, labels, fitted, iteration, worker, at, row>>
      BY <1>9 DEF AllFinished, Accumulate, output, pool
    <2>2. \A t \in Threads : LabelledBy(t)' = LabelledBy(t)
      BY <2>1 DEF LabelledBy, Passed
    <2>3. FitTodo' = FitTodo
      BY <2>1, <2>2 DEF FitTodo
    <2> QED BY <2>1, <2>3 DEF FitVars, FitPhase, FitCentroids, FitIteration
  <1>10. CASE Accumulated
    <2>1. /\ pc = "accumulate" /\ pc' = "divide"
          /\ UNCHANGED <<centroids, labels, fitted, iteration>>
      BY <1>10 DEF Accumulated, output
    <2>2. FitTodo = {} /\ iteration < M
      BY <2>1, RoundEnds DEF BarrierInv
    <2>3. Fitting!UpdateCentroids
      BY <2>1, <2>2, SameMeans, SameSets
      DEF Fitting!UpdateCentroids, FitPhase, FitTodo, FitIteration, FitCentroids
    <2> QED BY <2>3 DEF Fitting!Next
  <1>11. CASE Divide
    BY <1>11 DEF Divide, FitVars, FitPhase, FitCentroids, FitTodo, FitIteration
  <1>12. CASE NextRound
    <2>1. /\ pc = "divide" /\ pc' \in {"reset", "fitted"} /\ iteration' = iteration + 1
          /\ loop >= K /\ UNCHANGED <<centroids, labels, fitted>>
      BY <1>12 DEF NextRound, LoopHead, output
    <2>2. centroids = Means(labels)
      <3>1. \A k \in Clusters : centroids[k] = Means(labels)[k]
        BY <2>1, Parameters DEF MeansInv, Clusters, TypeOK
      <3>2. Means(labels) \in [Clusters -> Centroid] /\ centroids \in [Clusters -> Centroid]
        BY MeansType DEF TypeOK
      <3> QED BY <3>1, <3>2
    <2> QED BY <2>1, <2>2 DEF FitVars, FitPhase, FitCentroids, FitTodo, FitIteration
  <1>13. CASE SetFitted
    <2>1. Fitting!Finish
      BY <1>13, Zenon
      DEF SetFitted, MeansInv, Fitting!Finish, FitPhase, FitTodo, FitIteration, FitCentroids
    <2> QED BY <2>1 DEF Fitting!Next
  <1>14. CASE Join \/ Return
    BY <1>14 DEF Join, Return, FitVars, FitPhase, FitCentroids, FitTodo, FitIteration, output
  <1>15. CASE Refit
    <2>1. Fitting!Refit
      BY <1>15, SameSampled, Zenon
      DEF Refit, Fitting!Refit, FitPhase, FitTodo, FitIteration, FitCentroids
    <2> QED BY <2>1 DEF Fitting!Next
  <1>16. ASSUME NEW t \in Workers, SeeIteration(t) PROVE UNCHANGED FitVars
    <2>1. /\ worker[t] = "spin" /\ worker' = [worker EXCEPT ![t] = "rows"]
          /\ row' = [row EXCEPT ![t] = Start(t)]
          /\ UNCHANGED <<pc, centroids, labels, fitted, iteration, at>>
      BY <1>16 DEF SeeIteration, output
    <2>2. ASSUME NEW u \in Threads PROVE LabelledBy(u)' = LabelledBy(u)
      <3>1. CASE u = t
        <4>1. worker'[t] = "rows" /\ row'[t] = Start(t) /\ Start(t) \in Int /\ t # 0
          BY <2>1, Blocks, Parameters DEF TypeOK, Workers
        <4>2. \A i \in Chunk(t, N, T, MinChunk) : ~ (i < Start(t))
          BY <4>1 DEF Chunk, Start
        <4> QED BY <2>1, <3>1, <4>1, <4>2 DEF LabelledBy, Passed
      <3>2. CASE u # t
        <4>1. row'[u] = row[u] /\ (u \in Workers => worker'[u] = worker[u])
          BY <2>1, <3>2 DEF TypeOK
        <4> QED BY <2>1, <4>1 DEF LabelledBy, Passed, Threads
      <3> QED BY <3>1, <3>2
    <2>3. FitTodo' = FitTodo
      BY <2>1, <2>2 DEF FitTodo
    <2> QED BY <2>1, <2>3 DEF FitVars, FitPhase, FitCentroids, FitIteration
  <1>17. ASSUME NEW t \in Workers, WorkerRow(t) PROVE Fitting!Next
    <2>1. worker[t] = "rows" /\ LabelNextRow(t) /\ t # 0
      BY <1>17 DEF WorkerRow, Workers
    <2>2. pc \in {"rows", "wait"}
      BY <2>1 DEF BarrierInv, After, TypeOK
    <2> QED BY <1>6, <2>1, <2>2, Parameters
  <1>18. ASSUME NEW t \in Workers, FinishRows(t) PROVE UNCHANGED FitVars
    <2>1. /\ worker[t] = "rows" /\ row[t] >= End(t)
          /\ at' = [at EXCEPT ![t] = @ + 1] /\ \A u \in Workers \ {t} : worker'[u] = worker[u]
          /\ UNCHANGED <<pc, centroids, labels, fitted, iteration, row>>
      BY <1>18 DEF FinishRows, output, TypeOK
    <2>2. at[t] = iteration /\ at'[t] = iteration + 1 /\ iteration \in Int /\ t # 0
      <3>1. at[t] = iteration
        BY <2>1 DEF BarrierInv, After, TypeOK
      <3> QED BY <2>1, <3>1 DEF TypeOK, Workers
    <2>3. ASSUME NEW u \in Threads PROVE LabelledBy(u)' = LabelledBy(u)
      <3>1. CASE u = t
        <4>1. \A i \in Chunk(t, N, T, MinChunk) : i < row[t]
          <5>1. End(t) \in Int /\ row[t] \in Int /\ Start(t) \in Int
            BY Blocks, Parameters DEF TypeOK
          <5>2. \A i \in Chunk(t, N, T, MinChunk) : i \in Int /\ i < End(t)
            BY <5>1 DEF Chunk, Start, End
          <5> QED BY <2>1, <5>1, <5>2
        <4> QED BY <2>1, <2>2, <3>1, <4>1 DEF LabelledBy, Passed
      <3>2. CASE u # t
        <4>1. u \in Workers => worker'[u] = worker[u] /\ at'[u] = at[u]
          BY <2>1, <3>2 DEF TypeOK
        <4> QED BY <2>1, <4>1 DEF LabelledBy, Passed, Threads
      <3> QED BY <3>1, <3>2
    <2>4. FitTodo' = FitTodo
      BY <2>1, <2>3 DEF FitTodo
    <2> QED BY <2>1, <2>4 DEF FitVars, FitPhase, FitCentroids, FitIteration
  <1>19. CASE UNCHANGED vars
    <2>1. UNCHANGED <<pc, centroids, labels, fitted, iteration, row, worker, at>>
      BY <1>19 DEF vars, output, pool
    <2>2. \A t \in Threads : LabelledBy(t)' = LabelledBy(t)
      BY <2>1 DEF LabelledBy, Passed
    <2> QED BY <2>1, <2>2 DEF FitVars, FitPhase, FitCentroids, FitIteration, FitTodo
  <1> QED
    BY <1>1, <1>2, <1>3, <1>4, <1>5, <1>7, <1>8, <1>9, <1>10, <1>11, <1>12, <1>13,
       <1>14, <1>15, <1>16, <1>17, <1>18, <1>19
    DEF Next, Caller, Worker, SpinOnCounter, SpinOnIteration

LEMMA FitInductive == ASSUME SafeParameters PROVE Spec => []FitInv
  <1>1. Init => FitInv
    BY InitFit
  <1>2. IInv /\ FitInv /\ [Next]_vars => FitInv'
    BY StepFit
  <1> QED BY <1>1, <1>2, Inductive, PTL DEF Spec

(* For every schedule the fit by threads is a fit: it labels each row with *)
(* the nearest of the round's centroids, replaces the centroids by the     *)
(* means of all rows, and does so M times.                                 *)
THEOREM Refinement == ASSUME SafeParameters PROVE Spec => Fitting!Spec
  <1>1. Init => Fitting!Init
    <2> SUFFICES ASSUME Init PROVE Fitting!Init
      OBVIOUS
    <2> QED BY SameSets, SameSampled
       DEF Init, Fitting!Init, FitPhase, FitTodo, FitIteration, FitCentroids
  <1>2. IInv /\ IInv' /\ FitInv /\ FitInv' /\ [Next]_vars => [Fitting!Next]_(Fitting!vars)
    BY StepRefines
  <1> QED BY <1>1, <1>2, Inductive, FitInductive, PTL DEF Spec, Fitting!Spec

-----------------------------------------------------------------------------
(* The objective. *)
LEMMA SameObjective == \A l, c : Fitting!Objective(l, c) = Objective(l, c)
  BY DEF Fitting!Objective, Objective, Fitting!L2, L2, Fitting!Coords, Coords, Fitting!Rows,
     Rows, Fitting!Clusters, Clusters, MapThenSumSet, Fitting!MapThenSumSet,
     FoldFunctionOnSet, Fitting!FoldFunctionOnSet, MapThenFoldSet, Fitting!MapThenFoldSet

LEMMA FitSteps ==
    ASSUME Fitting!Next
    PROVE  /\ CentroidStep(labels, FitCentroids, FitCentroids')
           /\ FitPhase = "rounds" => RoundStep(labels, FitCentroids, labels', FitCentroids')
  <1>1. CASE Fitting!Sample
    <2>1. PICK s \in Injection(Clusters, Rows) : FitCentroids' = SampledCentroids(s)
      BY <1>1, SameSets, SameSampled, SameInjection DEF Fitting!Sample
    <2>2. s \in [Clusters -> Rows] /\ FitPhase # "rounds"
      BY <1>1 DEF Injection, Fitting!Sample
    <2> QED BY <2>1, <2>2 DEF CentroidStep
  <1>2. CASE \E r \in Fitting!Rows : Fitting!AssignRow(r)
    BY <1>2, SameSets, SameNearest DEF Fitting!AssignRow, CentroidStep, RoundStep
  <1>3. CASE Fitting!UpdateCentroids
    BY <1>3, SameMeans DEF Fitting!UpdateCentroids, CentroidStep, RoundStep
  <1>4. CASE Fitting!Finish
    BY <1>4 DEF Fitting!Finish, CentroidStep, RoundStep
  <1>5. CASE Fitting!Refit
    BY <1>5, SameSampled DEF Fitting!Refit, CentroidStep
  <1> QED BY <1>1, <1>2, <1>3, <1>4, <1>5 DEF Fitting!Next

LEMMA FitTypes ==
    ASSUME TypeOK
    PROVE  labels \in [Rows -> Clusters] /\ FitCentroids \in [Clusters -> Centroid]
  BY MeansType DEF TypeOK, FitCentroids

(* Every row has a centroid nearer than numeric_limits<T>::max(), from     *)
(* which the scan starts: its label is then that of a nearest one.         *)
AllReachable == FitPhase = "rounds" => Reachable(FitCentroids)

(* Within a call the clustering never gets worse, as long as every row has *)
(* a centroid within range: neither a label nor a mean raises the sum of   *)
(* the squared distances.                                                  *)
THEOREM NeverRisesInReach ==
    ASSUME SafeParameters
    PROVE  Spec /\ []AllReachable => Fitting!ObjectiveNeverRises
  <1> DEFINE Lowers ==
               FitPhase = "rounds" =>
                 ~ Fitting!Less(Fitting!Objective(labels, FitCentroids),
                                Fitting!Objective(labels', FitCentroids'))
  <1>1. TypeOK /\ AllReachable /\ [Fitting!Next]_(Fitting!vars) => [Lowers]_(Fitting!vars)
    BY FitSteps, FitTypes, RoundStepLowers, SameObjective DEF AllReachable, Fitting!Less, Less
  <1>2. Fitting!ObjectiveNeverRises <=> [][Lowers]_(Fitting!vars)
    BY DEF Fitting!ObjectiveNeverRises
  <1> HIDE DEF Lowers
  <1> QED BY <1>1, <1>2, TypeCorrect, Refinement, PTL DEF Fitting!Spec

(* With data in range nothing more is needed, whatever the threads do.     *)
THEOREM NeverRises == ASSUME SafeParameters, DataInRange PROVE Spec => Fitting!ObjectiveNeverRises
  <1>1. PICK b \in Nat : InRange(b)
    BY DEF DataInRange
  <1> DEFINE BoxInv == Boxed(FitCentroids, b)
  <1>2. Fitting!Init => BoxInv
    BY SameSampled, ZeroInBox DEF Fitting!Init, Boxed
  <1>3. BoxInv /\ [Fitting!Next]_(Fitting!vars) => BoxInv'
    BY <1>1, FitSteps, CentroidStepBoxed DEF Fitting!vars
  <1>4. BoxInv /\ TypeOK => AllReachable
    BY <1>1, FitTypes, BoxedReachable DEF AllReachable
  <1> HIDE DEF BoxInv
  <1> QED BY <1>2, <1>3, <1>4, TypeCorrect, Refinement, NeverRisesInReach, PTL DEF Fitting!Spec
=============================================================================
