-------------------------- MODULE MCChunkPartition --------------------------
(***************************************************************************)
(* Runs WorkerThreadChunkParams::compute over bounded arguments.  A state  *)
(* is one set of arguments, and a step takes the next number of points.    *)
(***************************************************************************)
EXTENDS ChunkPartition

VARIABLES n, threads, min

Init == n = 0 /\ threads \in ThreadCounts /\ min \in MinChunks
AddPoint == n < MaxPoints /\ n' = n + 1 /\ UNCHANGED <<threads, min>>
Spec == Init /\ [][AddPoint]_<<n, threads, min>>

(* Every row is in the block of some thread, whatever their number: what   *)
(* the notebook says of the blocks, and compute does not do from 19 on.    *)
BlocksCover ==
    Labelled(n, threads, min) = 0 .. n - 1
=============================================================================
