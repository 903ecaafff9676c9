-------------------------- MODULE MCTaskflowKMeans --------------------------
(* A small instance of the task graph. *)
EXTENDS TaskflowKMeans

(* Points of the line; the first two are equal, so that a sample of both   *)
(* leaves a cluster empty.                                                 *)
Line == [i \in 0 .. N - 1 |-> [d \in 0 .. 0 |-> <<3, 3, 1, 8>>[i + 1]]]
=============================================================================
