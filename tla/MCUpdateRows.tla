---------------------------- MODULE MCUpdateRows ----------------------------
(***************************************************************************)
(* update_rows over a table of distances with a few values, FloatMax and   *)
(* beyond included.                                                        *)
(***************************************************************************)
EXTENDS UpdateRows

(* Ties, overflowing sums and an all-overflow row. *)
Distances ==
    [r \in Rows |-> [c \in Clusters |->
        << <<2, 1, 1>>, <<3, 4, 0>>, <<4, 3, 4>>, <<4, 5, 4>>, <<0, 0, 2>> >>[r + 1][c + 1]]]
=============================================================================
