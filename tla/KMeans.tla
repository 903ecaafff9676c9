------------------------------- MODULE KMeans -------------------------------
(***************************************************************************)
(* What KMeans<T>::fit promises, whichever executable runs it: K distinct  *)
(* rows are the first centroids; then, Rounds times, every row is labelled *)
(* once, in any order, with its nearest centroid of that round, and only   *)
(* when every row is labelled do the centroids become the means of their   *)
(* clusters.  fit returns with m_fitted set.  It may be called again on    *)
(* the same object, whose labels and flag then start as the last call left *)
(* them.                                                                   *)
(***************************************************************************)
EXTENDS Lloyd

CONSTANT Rounds     \* a natural number: centroid updates of one call of fit

VARIABLES
    phase,          \* where fit is
    centroids,      \* m_output_centroid_coords
    labels,         \* m_output_closets_centroid_indices
    todo,           \* rows this round has not labelled yet
    iteration,      \* rounds completed
    fitted          \* m_fitted

vars == <<phase, centroids, labels, todo, iteration, fitted>>

TypeOK ==
    /\ phase \in {"sampling", "rounds", "returned"}
    /\ centroids \in [Clusters -> Centroid]
    /\ labels \in [Rows -> Clusters]
    /\ todo \subseteq Rows
    /\ iteration \in 0 .. Rounds
    /\ fitted \in BOOLEAN

(* The first call, just after its result arrays are allocated. *)
Init ==
    /\ phase = "sampling"
    /\ centroids = ZeroCentroids
    /\ labels = [i \in Rows |-> 0]
    /\ todo = Rows
    /\ iteration = 0
    /\ fitted = FALSE

Sample ==
    /\ phase = "sampling"
    /\ \E indices \in Injection(Clusters, Rows) :
          centroids' = SampledCentroids(indices)
    /\ phase' = "rounds"
    /\ todo' = Rows
    /\ iteration' = 0
    /\ UNCHANGED <<labels, fitted>>

AssignRow(i) ==
    /\ phase = "rounds" /\ iteration < Rounds
    /\ i \in todo
    /\ \E j \in Clusters :
          /\ IsNearest(input_points[i], j, centroids)
          /\ labels' = [labels EXCEPT ![i] = j]
    /\ todo' = todo \ {i}
    /\ UNCHANGED <<phase, centroids, iteration, fitted>>

UpdateCentroids ==
    /\ phase = "rounds" /\ iteration < Rounds
    /\ todo = {}
    /\ centroids' = Means(labels)
    /\ todo' = Rows
    /\ iteration' = iteration + 1
    /\ UNCHANGED <<phase, labels, fitted>>

Finish ==
    /\ phase = "rounds" /\ iteration = Rounds
    /\ phase' = "returned"
    /\ fitted' = TRUE
    /\ UNCHANGED <<centroids, labels, todo, iteration>>

(* The caller calls fit again with the same points and parameters. *)
Refit ==
    /\ phase = "returned"
    /\ phase' = "sampling"
    /\ centroids' = ZeroCentroids
    /\ UNCHANGED <<labels, todo, iteration, fitted>>

Next ==
    \/ Sample
    \/ \E i \in Rows : AssignRow(i)
    \/ UpdateCentroids
    \/ Finish
    \/ Refit

(* Inside fit nothing may stop; whether it is called again is the caller's. *)
Fit == Sample \/ (\E i \in Rows : AssignRow(i)) \/ UpdateCentroids \/ Finish

Spec == Init /\ [][Next]_vars
FairSpec == Spec /\ WF_vars(Fit)

-----------------------------------------------------------------------------
(* Within one call of fit, the sum of squared distances of the points to   *)
(* the centroids of their labels never rises: neither labelling a row nor  *)
(* replacing the centroids by the means makes the clustering worse.  It    *)
(* would rise if a label were taken from another round's centroids or if a *)
(* mean missed a row.                                                      *)
(*                                                                         *)
(* It holds as long as every row has a centroid nearer than FloatMax.  A   *)
(* row that has none is given label 0 however far that centroid is, and    *)
(* may have had a nearer one the round before.                             *)
ObjectiveNeverRises ==
    [][ phase = "rounds" =>
          ~ Less(Objective(labels, centroids), Objective(labels', centroids')) ]_vars

=============================================================================
