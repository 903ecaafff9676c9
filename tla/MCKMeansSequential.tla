------------------------- MODULE MCKMeansSequential -------------------------
(* A small instance of the sequential fit, in the plane. *)
EXTENDS KMeansSequential

Plane == [r \in 0 .. N - 1 |->
            [d \in 0 .. 1 |-> <<<<2, 1>>, <<2, 1>>, <<1, 0>>, <<9, 3>>>>[r + 1][d + 1]]]
=============================================================================
