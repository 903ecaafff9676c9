-------------------------- MODULE MCKMeansParallel --------------------------
(* A small instance of the parallel fit. *)
EXTENDS KMeansParallel

(* Points of the line; the first two are equal, so that a sample of both   *)
(* leaves a cluster empty.                                                 *)
Line == [i \in 0 .. N - 1 |-> [d \in 0 .. 0 |-> <<3, 3, 1, 8, 14, 6>>[i + 1]]]
=============================================================================
