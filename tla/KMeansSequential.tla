-------------------------- MODULE KMeansSequential --------------------------
(***************************************************************************)
(* KMeans<T>::fit of k_means_cpp_cpu_sequential, loop by loop: sampling,   *)
(* then per iteration the scan over the centroids for every row, the       *)
(* accumulation and the division.  One step is one turn of an inner loop.  *)
(***************************************************************************)
EXTENDS Lloyd, Sequences

CONSTANT M          \* num_of_iterations

ASSUME SequentialAssumption == M \in Nat

VARIABLES
    pc,             \* the loop fit is in
    indices,        \* rows sampled so far
    centroids,      \* m_output_centroid_coords
    labels,         \* m_output_closets_centroid_indices
    sums,           \* sum_of_all_points_in_cluster
    counts,         \* num_of_points_in_cluster
    iteration,      \* the outer loop
    i,              \* the row of the current loop
    k,              \* the cluster of the current loop
    distance,       \* distance_from_closest_centroid
    closest,        \* index_of_closest_centroid
    fitted          \* m_fitted

scan == <<k, distance, closest>>
helpers == <<sums, counts>>
vars == <<pc, indices, centroids, labels, helpers, iteration, i, scan, fitted>>

TypeOK ==
    /\ pc \in {"sample", "scan", "accumulate", "divide", "fitted", "returned"}
    /\ indices \in Seq(Rows)
    /\ centroids \in [Clusters -> Centroid]
    /\ labels \in [Rows -> Clusters]
    /\ sums \in [Clusters -> Vector]
    /\ counts \in [Clusters -> 0 .. N]
    /\ iteration \in 0 .. M
    /\ i \in 0 .. N
    /\ k \in 0 .. K
    /\ distance \in [num : Nat, den : Nat \ {0}]
    /\ closest \in Clusters
    /\ fitted \in BOOLEAN

ZeroSums == [c \in Clusters |-> ZeroVector]
ZeroCounts == [c \in Clusters |-> 0]

Init ==
    /\ pc = "sample"
    /\ indices = <<>>
    /\ centroids = ZeroCentroids
    /\ labels = [r \in Rows |-> 0]
    /\ sums = ZeroSums
    /\ counts = ZeroCounts
    /\ iteration = 0
    /\ i = 0
    /\ k = 0
    /\ distance = FloatMaxDistance
    /\ closest = 0
    /\ fitted = FALSE

(* A drawn row that is already sampled is drawn again: a stutter. *)
SampleRow ==
    /\ pc = "sample" /\ Len(indices) < K
    /\ \E r \in Rows \ Range(indices) : indices' = Append(indices, r)
    /\ UNCHANGED <<pc, centroids, labels, helpers, iteration, i, scan, fitted>>

(* Mutant: the sums are not cleared between rounds. *)
BeginRound_keepsSums(n) ==
    /\ iteration' = n
    /\ i' = 0 /\ k' = 0 /\ distance' = FloatMaxDistance /\ closest' = 0
    /\ counts' = ZeroCounts
    /\ UNCHANGED sums
    /\ pc' = IF n < M THEN "scan" ELSE "fitted"

(* The head of the outer loop and the initialisation of its first row.     *)
BeginRound(n) ==
    /\ iteration' = n
    /\ i' = 0 /\ k' = 0 /\ distance' = FloatMaxDistance /\ closest' = 0
    /\ sums' = ZeroSums
    /\ counts' = ZeroCounts
    /\ pc' = IF n < M THEN "scan" ELSE "fitted"

CopySampled ==
    /\ pc = "sample" /\ Len(indices) = K
    /\ centroids' = SampledCentroids([c \in Clusters |-> indices[c + 1]])
    /\ BeginRound(0)
    /\ UNCHANGED <<indices, labels, fitted>>

ScanCentroid ==
    /\ pc = "scan" /\ i < N /\ k < K
    /\ LET d == L2(input_points[i], centroids[k])
       IN  IF Less(d, distance)
           THEN distance' = d /\ closest' = k
           ELSE UNCHANGED <<distance, closest>>
    /\ k' = k + 1
    /\ UNCHANGED <<pc, indices, centroids, labels, helpers, iteration, i, fitted>>

StoreLabel ==
    /\ pc = "scan" /\ i < N /\ k = K
    /\ labels' = [labels EXCEPT ![i] = closest]
    /\ i' = i + 1
    /\ k' = 0 /\ distance' = FloatMaxDistance /\ closest' = 0
    /\ UNCHANGED <<pc, indices, centroids, helpers, iteration, fitted>>

AllLabelled ==
    /\ pc = "scan" /\ i = N
    /\ i' = 0
    /\ pc' = "accumulate"
    /\ UNCHANGED <<indices, centroids, labels, helpers, iteration, scan, fitted>>

Accumulate ==
    /\ pc = "accumulate" /\ i < N
    /\ sums' = [sums EXCEPT ![labels[i]] = VectorSum(@, input_points[i])]
    /\ counts' = [counts EXCEPT ![labels[i]] = @ + 1]
    /\ i' = i + 1
    /\ UNCHANGED <<pc, indices, centroids, labels, iteration, scan, fitted>>

Accumulated ==
    /\ pc = "accumulate" /\ i = N
    /\ k' = 0
    /\ pc' = "divide"
    /\ UNCHANGED <<indices, centroids, labels, helpers, iteration, i, distance,
                   closest, fitted>>

Divide ==
    /\ pc = "divide" /\ k < K
    /\ centroids' = [centroids EXCEPT ![k] = Mean(sums[k], counts[k])]
    /\ k' = k + 1
    /\ UNCHANGED <<pc, indices, labels, helpers, iteration, i, distance, closest,
                   fitted>>

NextRound ==
    /\ pc = "divide" /\ k = K
    /\ BeginRound(iteration + 1)
    /\ UNCHANGED <<indices, centroids, labels, fitted>>

Finish ==
    /\ pc = "fitted"
    /\ fitted' = TRUE
    /\ pc' = "returned"
    /\ UNCHANGED <<indices, centroids, labels, helpers, iteration, i, scan>>

Fit == \/ SampleRow \/ CopySampled \/ ScanCentroid \/ StoreLabel \/ AllLabelled
       \/ Accumulate \/ Accumulated \/ Divide \/ NextRound \/ Finish

Refit ==
    /\ pc = "returned"
    /\ pc' = "sample"
    /\ indices' = <<>>
    /\ centroids' = ZeroCentroids
    /\ UNCHANGED <<labels, helpers, iteration, i, scan, fitted>>

Spec == Init /\ [][Fit \/ Refit]_vars
FairSpec == Spec /\ WF_vars(Fit)

-----------------------------------------------------------------------------
(* The loops implement KMeans, its promise to return included: the helper  *)
(* sums and counts, rebuilt row by row, are those of the whole cluster,    *)
(* and the strict comparison of the scan picks the nearest centroid.       *)
FitPhase ==
    CASE pc = "sample" -> "sampling"
      [] pc = "returned" -> "returned"
      [] OTHER -> "rounds"

FitTodo ==
    CASE pc = "scan" -> i .. N - 1
      [] pc = "accumulate" -> {}
      [] OTHER -> Rows

FitIteration == IF pc = "divide" THEN iteration + 1 ELSE iteration
FitCentroids == IF pc = "divide" THEN Means(labels) ELSE centroids

Fitting == INSTANCE KMeans WITH
    Rounds <- M, phase <- FitPhase, todo <- FitTodo, iteration <- FitIteration,
    centroids <- FitCentroids

ImplementsKMeans == Fitting!FairSpec

(* A consequence, stated of the labels and centroids this code keeps: the  *)
(* clustering never gets worse within a call.                              *)
ObjectiveNeverRises == Fitting!ObjectiveNeverRises
=============================================================================
