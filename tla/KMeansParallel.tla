--------------------------- MODULE KMeansParallel ---------------------------
(***************************************************************************)
(* KMeans<T>::fit of k_means_cpp_cpu_parallel: the thread that calls fit   *)
(* and the num_of_threads - 1 workers it spawns share the labelling of the *)
(* rows, and meet in a spin barrier made of two atomics.  The caller       *)
(* publishes m_current_iteration; each worker labels its block and bumps   *)
(* a counter; the caller waits for the count, then updates the centroids   *)
(* alone.                                                                  *)
(*                                                                         *)
(* One step is one row labelled, one row accumulated, one centroid divided *)
(* or one access to an atomic.  The scan over the centroids inside a row   *)
(* is one step here and a loop of its own in UpdateRows.                   *)
(***************************************************************************)
EXTENDS Lloyd, ChunkPartition, Sequences

CONSTANTS
    M,          \* num_of_iterations
    T,          \* num_of_threads, the calling thread included
    MinChunk,   \* min_chunk_size given to compute: 16 at both calls
    U32         \* 2^32: iteration and thread counts of the parameters wrap

ASSUME ParallelAssumption ==
    /\ M \in Nat /\ T \in Nat /\ MinChunk \in Nat /\ U32 \in Nat
    /\ 0 < MinChunk
    /\ M < U32 /\ T < U32

(* The parameters for which fit is correct: a worker besides the caller,   *)
(* blocks that cover every row, and an initial value of m_current_iteration *)
(* that is none of the iterations the workers wait for.                    *)
SafeParameters == T \in 2 .. MinChunk + 2 /\ M + 1 < U32

Workers == 1 .. T - 1
Threads == {0} \cup Workers

Start(t) == ChunkStart(t, N, T, MinChunk)
End(t) == ChunkEnd(t, N, T, MinChunk)

VARIABLES
    pc,                 \* where the calling thread is in fit
    indices,            \* rows sampled so far
    centroids,          \* m_output_centroid_coords
    labels,             \* m_output_closets_centroid_indices
    sums,               \* sum_of_all_points_in_cluster
    counts,             \* num_of_points_in_cluster
    iteration,          \* the caller's loop over M
    loop,               \* the index of the caller's current inner loop
    row,                \* per thread, the next row its update_rows labels
    current_iteration,  \* m_current_iteration
    finished,           \* m_num_of_threads_that_finished_cluster_update_...
    worker,             \* where each worker is in worker_thread
    at,                 \* per worker, its own loop over M
    fitted              \* m_fitted

output == <<centroids, labels, fitted>>
helpers == <<sums, counts>>
atomics == <<current_iteration, finished>>
pool == <<worker, at>>
vars == <<pc, indices, output, helpers, iteration, loop, row, atomics, pool>>

TypeOK ==
    /\ pc \in {"sample", "spawn", "chunk", "reset", "publish", "rows", "wait",
               "accumulate", "divide", "fitted", "join", "returned", "trap"}
    /\ indices \in Seq(Rows)
    /\ centroids \in [Clusters -> Centroid]
    /\ labels \in [Rows -> Clusters]
    /\ sums \in [Clusters -> Vector]
    /\ counts \in [Clusters -> Nat]
    /\ iteration \in 0 .. M
    /\ loop \in Nat
    /\ row \in [Threads -> 0 .. N]
    /\ current_iteration \in 0 .. U32 - 1
    /\ finished \in 0 .. U32 - 1
    /\ worker \in [Workers -> {"none", "spin", "rows", "exited"}]
    /\ at \in [Workers -> 0 .. M]
    /\ fitted \in BOOLEAN

ZeroSums == [k \in Clusters |-> ZeroVector]
ZeroCounts == [k \in Clusters |-> 0]

(* The first call of fit, after its result arrays are allocated. *)
Init ==
    /\ pc = "sample"
    /\ indices = <<>>
    /\ centroids = ZeroCentroids
    /\ labels = [i \in Rows |-> 0]
    /\ sums = ZeroSums
    /\ counts = ZeroCounts
    /\ iteration = 0
    /\ loop = 0
    /\ row = [t \in Threads |-> 0]
    /\ current_iteration = 0
    /\ finished = 0
    /\ worker = [t \in Workers |-> "none"]
    /\ at = [t \in Workers |-> 0]
    /\ fitted = FALSE

-----------------------------------------------------------------------------
(* The calling thread. *)

(* A drawn row that is already sampled is drawn again, which changes        *)
(* nothing: with K > N (debug builds assert K <= N) this would never end.   *)
SampleRow ==
    /\ pc = "sample" /\ Len(indices) < K
    /\ \E i \in Rows \ Range(indices) : indices' = Append(indices, i)
    /\ UNCHANGED <<pc, output, helpers, iteration, loop, row, atomics, pool>>

CopySampled ==
    /\ pc = "sample" /\ Len(indices) = K
    /\ centroids' = SampledCentroids([k \in Clusters |-> indices[k + 1]])
    /\ sums' = ZeroSums
    /\ counts' = ZeroCounts
    /\ current_iteration' = (M + 1) % U32
    /\ loop' = 1
    /\ pc' = "spawn"
    /\ UNCHANGED <<indices, labels, fitted, iteration, row, finished, pool>>

(* The new thread computes its block and tests its loop over M once. *)
Spawn ==
    /\ pc = "spawn" /\ loop < T
    /\ worker' = [worker EXCEPT ![loop] = IF M > 0 THEN "spin" ELSE "exited"]
    /\ at' = [at EXCEPT ![loop] = 0]
    /\ loop' = loop + 1
    /\ UNCHANGED <<pc, indices, output, helpers, iteration, row, atomics>>

AllSpawned ==
    /\ pc = "spawn" /\ loop >= T
    /\ pc' = "chunk"
    /\ UNCHANGED <<indices, output, helpers, iteration, loop, row, atomics, pool>>

LoopHead(i) == IF i < M THEN "reset" ELSE "fitted"

(* compute divides by num_of_threads - 1. *)
ComputeChunk ==
    /\ pc = "chunk"
    /\ pc' = IF T = 1 THEN "trap" ELSE LoopHead(0)
    /\ iteration' = 0
    /\ UNCHANGED <<indices, output, helpers, loop, row, atomics, pool>>

(* Mutant: the counter of finished workers is not reset. *)
ResetRound_keepsFinished ==
    /\ pc = "reset"
    /\ sums' = ZeroSums
    /\ counts' = ZeroCounts
    /\ pc' = "publish"
    /\ UNCHANGED <<indices, output, iteration, loop, row, atomics, pool>>

(* Mutant: the sums are not cleared between rounds. *)
ResetRound_keepsSums ==
    /\ pc = "reset"
    /\ counts' = ZeroCounts
    /\ finished' = 0
    /\ pc' = "publish"
    /\ UNCHANGED <<indices, output, sums, iteration, loop, row, current_iteration, pool>>

ResetRound ==
    /\ pc = "reset"
    /\ sums' = ZeroSums
    /\ counts' = ZeroCounts
    /\ finished' = 0
    /\ pc' = "publish"
    /\ UNCHANGED <<indices, output, iteration, loop, row, current_iteration, pool>>

(* The caller enters update_rows as thread 0 right after the release store. *)
Publish ==
    /\ pc = "publish"
    /\ current_iteration' = iteration
    /\ row' = [row EXCEPT ![0] = Start(0)]
    /\ pc' = "rows"
    /\ UNCHANGED <<indices, output, helpers, iteration, loop, finished, pool>>

(* The body of update_rows for the next row of thread t's block. *)
LabelNextRow(t) ==
    /\ row[t] < End(t)
    /\ \E j \in Clusters :
          /\ IsNearest(input_points[row[t]], j, centroids)
          /\ labels' = [labels EXCEPT ![row[t]] = j]
    /\ row' = [row EXCEPT ![t] = @ + 1]
    /\ UNCHANGED <<pc, indices, centroids, fitted, helpers, iteration, loop,
                   atomics, pool>>

CallerRow == pc = "rows" /\ LabelNextRow(0)

CallerRowsDone ==
    /\ pc = "rows" /\ row[0] >= End(0)
    /\ pc' = "wait"
    /\ UNCHANGED <<indices, output, helpers, iteration, loop, row, atomics, pool>>

SpinOnCounter ==
    pc = "wait" /\ finished # (T - 1) % U32 /\ UNCHANGED vars

(* Mutant: the caller does not count itself out of num_of_threads. *)
AllFinished_oneEarly ==
    /\ pc = "wait"
    /\ finished >= T - 2
    /\ loop' = 0
    /\ pc' = "accumulate"
    /\ UNCHANGED <<indices, output, helpers, iteration, row, atomics, pool>>

AllFinished ==
    /\ pc = "wait"
    /\ finished = (T - 1) % U32
    /\ loop' = 0
    /\ pc' = "accumulate"
    /\ UNCHANGED <<indices, output, helpers, iteration, row, atomics, pool>>

Accumulate ==
    /\ pc = "accumulate" /\ loop < N
    /\ sums' = [sums EXCEPT ![labels[loop]] = VectorSum(@, input_points[loop])]
    /\ counts' = [counts EXCEPT ![labels[loop]] = @ + 1]
    /\ loop' = loop + 1
    /\ UNCHANGED <<pc, indices, output, iteration, row, atomics, pool>>

Accumulated ==
    /\ pc = "accumulate" /\ loop >= N
    /\ loop' = 0
    /\ pc' = "divide"
    /\ UNCHANGED <<indices, output, helpers, iteration, row, atomics, pool>>

Divide ==
    /\ pc = "divide" /\ loop < K
    /\ centroids' = [centroids EXCEPT ![loop] = Mean(sums[loop], counts[loop])]
    /\ loop' = loop + 1
    /\ UNCHANGED <<pc, indices, labels, fitted, helpers, iteration, row, atomics,
                   pool>>

NextRound ==
    /\ pc = "divide" /\ loop >= K
    /\ iteration' = iteration + 1
    /\ pc' = LoopHead(iteration + 1)
    /\ UNCHANGED <<indices, output, helpers, loop, row, atomics, pool>>

SetFitted ==
    /\ pc = "fitted"
    /\ fitted' = TRUE
    /\ loop' = 1
    /\ pc' = "join"
    /\ UNCHANGED <<indices, centroids, labels, helpers, iteration, row, atomics, pool>>

Join ==
    /\ pc = "join" /\ loop < T
    /\ worker[loop] = "exited"
    /\ worker' = [worker EXCEPT ![loop] = "none"]
    /\ loop' = loop + 1
    /\ UNCHANGED <<pc, indices, output, helpers, iteration, row, atomics, at>>

Return ==
    /\ pc = "join" /\ loop >= T
    /\ pc' = "returned"
    /\ UNCHANGED <<indices, output, helpers, iteration, loop, row, atomics, pool>>

Caller ==
    \/ SampleRow \/ CopySampled \/ Spawn \/ AllSpawned \/ ComputeChunk
    \/ ResetRound \/ Publish \/ CallerRow \/ CallerRowsDone
    \/ SpinOnCounter \/ AllFinished
    \/ Accumulate \/ Accumulated \/ Divide \/ NextRound
    \/ SetFitted \/ Join \/ Return

(* fit is called again on the same object, with the same points and        *)
(* parameters: the object keeps its atomics, its labels and its flag.      *)
Refit ==
    /\ pc = "returned"
    /\ pc' = "sample"
    /\ indices' = <<>>
    /\ centroids' = ZeroCentroids
    /\ UNCHANGED <<labels, fitted, helpers, iteration, loop, row, atomics, pool>>

-----------------------------------------------------------------------------
(* Worker t. *)

SpinOnIteration(t) ==
    worker[t] = "spin" /\ current_iteration # at[t] /\ UNCHANGED vars

SeeIteration(t) ==
    /\ worker[t] = "spin"
    /\ current_iteration = at[t]
    /\ worker' = [worker EXCEPT ![t] = "rows"]
    /\ row' = [row EXCEPT ![t] = Start(t)]
    /\ UNCHANGED <<pc, indices, output, helpers, iteration, loop, atomics, at>>

WorkerRow(t) == worker[t] = "rows" /\ LabelNextRow(t)

(* Mutant: worker_thread loops while iteration <= M. *)
FinishRows_oneRoundMore(t) ==
    /\ worker[t] = "rows" /\ row[t] >= End(t)
    /\ finished' = (finished + 1) % U32
    /\ at' = [at EXCEPT ![t] = @ + 1]
    /\ worker' = [worker EXCEPT ![t] = IF at[t] < M THEN "spin" ELSE "exited"]
    /\ UNCHANGED <<pc, indices, output, helpers, iteration, loop, row,
                   current_iteration>>

FinishRows(t) ==
    /\ worker[t] = "rows" /\ row[t] >= End(t)
    /\ finished' = (finished + 1) % U32
    /\ at' = [at EXCEPT ![t] = @ + 1]
    /\ worker' = [worker EXCEPT ![t] = IF at[t] + 1 < M THEN "spin" ELSE "exited"]
    /\ UNCHANGED <<pc, indices, output, helpers, iteration, loop, row,
                   current_iteration>>

Worker(t) == SpinOnIteration(t) \/ SeeIteration(t) \/ WorkerRow(t) \/ FinishRows(t)

Next == Caller \/ Refit \/ \E t \in Workers : Worker(t)

Spec == Init /\ [][Next]_vars

(* Waiting is spinning: a hang of this program is a livelock, which the    *)
(* liveness property sees, and never a deadlock.                           *)
(*                                                                         *)
(* Each thread is scheduled again and again; a draw that repeats a sampled *)
(* row is not repeated for ever.  Nobody has to call fit again.            *)
Fairness == WF_vars(Caller) /\ \A t \in Workers : WF_vars(Worker(t))
FairSpec == Spec /\ Fairness

-----------------------------------------------------------------------------
(* When the caller has spawned the workers, and it and they compute their  *)
(* blocks, these are a partition of all rows but a bounded tail: for the   *)
(* arguments they are compared for, of which T and MinChunk are one case.  *)
BlocksPartition == pc = "chunk" => BlocksDisjoint /\ UncoveredTail

(* While the caller resets the round, accumulates or divides, no worker is *)
(* in update_rows: the helper arrays, the labels and the centroids are the *)
(* caller's alone, which is what makes the plain (non-atomic) accesses to  *)
(* them safe.  An early or late worker would break it.                     *)
CallerAlone ==
    pc \notin {"rows", "wait"} => \A t \in Workers : worker[t] # "rows"

FinishedWorkers == {t \in Workers : at[t] = iteration + 1}

(* No bump of the counter is lost or counted for another round: while the  *)
(* caller labels or waits, the counter is the number of workers that are   *)
(* through with this round's block.                                        *)
NoLostFinish ==
    pc \in {"rows", "wait"} => finished = Cardinality(FinishedWorkers)

LabelCurrent(i) == IsNearest(input_points[i], labels[i], centroids)

(* When the caller starts to accumulate, every label is the nearest of the *)
(* centroids of this very round: no row was skipped, and no label is left  *)
(* from an earlier round or an earlier call of fit.                        *)
LabelsCurrent ==
    pc = "accumulate" =>
        \A i \in Rows : LabelCurrent(i)

Labelling(t) ==
    /\ row[t] < End(t)
    /\ IF t = 0 THEN pc = "rows" ELSE worker[t] = "rows"

(* No two threads are ever about to write the label of the same row: the   *)
(* labels are plain u64, so two such writes would be a data race even if   *)
(* they stored the same index.                                             *)
NoLabelRace ==
    \A t, u \in Threads :
        Labelling(t) /\ Labelling(u) /\ row[t] = row[u] => t = u

(* fit returns, whatever the scheduler does. *)
FitReturns == pc = "sample" ~> pc = "returned"

-----------------------------------------------------------------------------
(* Refinement: fit by threads is fit, with a round labelled in any order.  *)

(* Row i of thread t's block is labelled for this round. *)
Passed(t, i) ==
    IF t = 0 THEN pc = "rows" => i < row[0]
    ELSE at[t] > iteration \/ (worker[t] = "rows" /\ i < row[t])

LabelledBy(t) == {i \in Chunk(t, N, T, MinChunk) : Passed(t, i)}

FitPhase ==
    CASE pc = "sample" -> "sampling"
      [] pc \in {"join", "returned"} -> "returned"
      [] OTHER -> "rounds"

FitTodo ==
    IF pc \in {"rows", "wait", "accumulate"}
    THEN Rows \ UNION {LabelledBy(t) : t \in Threads}
    ELSE Rows

FitIteration ==
    CASE pc \in {"spawn", "chunk"} -> 0
      [] pc = "divide" -> iteration + 1
      [] OTHER -> iteration

FitCentroids == IF pc = "divide" THEN Means(labels) ELSE centroids

Fitting == INSTANCE KMeans WITH
    Rounds <- M, phase <- FitPhase, todo <- FitTodo, iteration <- FitIteration,
    centroids <- FitCentroids

(* The parallel fit implements KMeans, its promise to return included: the *)
(* round, the means and the number of rounds are those of the sequential   *)
(* algorithm for every schedule.                                           *)
ImplementsKMeans == Fitting!FairSpec
=============================================================================
