------------------------- MODULE MCKMeansParallelHB -------------------------
(* The instance of MCKMeansParallel, with the happens-before relation. *)
EXTENDS KMeansParallelHB, MCKMeansParallel
=============================================================================
