--------------------------- MODULE ChunkPartition ---------------------------
(***************************************************************************)
(* WorkerThreadChunkParams::compute of the parallel executable: the block  *)
(* of rows that each of num_of_threads threads labels in every round.      *)
(* Thread 0 is the thread that called fit, and threads 1, 2, ... are the   *)
(* workers it spawns.                                                      *)
(*                                                                         *)
(* Arguments are u64: with no thread at all, num_of_threads - 1 wraps to   *)
(* 2^64 - 1 and the quotient is 0; with one thread the division is by zero *)
(* and the program traps, so the operators are not used for one thread.    *)
(* The product of an index below 64 and a chunk stays below 2^64 for every *)
(* data set that fits in memory.                                           *)
(***************************************************************************)
EXTENDS Integers

Larger(a, b) == IF a < b THEN b ELSE a
Smaller(a, b) == IF b < a THEN b ELSE a

(* Mutant: the quotient is taken over all threads. *)
ChunkSize_allThreads(num_of_points, num_of_threads, min_chunk_size) ==
    Larger(min_chunk_size,
           IF num_of_threads = 0 THEN 0 ELSE num_of_points \div num_of_threads)

ChunkSize(num_of_points, num_of_threads, min_chunk_size) ==
    Larger(min_chunk_size,
           IF num_of_threads = 0 THEN 0 ELSE num_of_points \div (num_of_threads - 1))

ChunkStart(thread_index, num_of_points, num_of_threads, min_chunk_size) ==
    Smaller(thread_index * ChunkSize(num_of_points, num_of_threads, min_chunk_size),
            num_of_points)

(* Mutant: the end is taken as the last row of the block. *)
ChunkEnd_inclusive(thread_index, num_of_points, num_of_threads, min_chunk_size) ==
    Smaller(ChunkStart(thread_index, num_of_points, num_of_threads, min_chunk_size)
              + ChunkSize(num_of_points, num_of_threads, min_chunk_size) + 1,
            num_of_points)

ChunkEnd(thread_index, num_of_points, num_of_threads, min_chunk_size) ==
    Smaller(ChunkStart(thread_index, num_of_points, num_of_threads, min_chunk_size)
              + ChunkSize(num_of_points, num_of_threads, min_chunk_size),
            num_of_points)

Chunk(t, n, threads, min) ==
    ChunkStart(t, n, threads, min) .. ChunkEnd(t, n, threads, min) - 1

-----------------------------------------------------------------------------
CONSTANTS
    ThreadCounts, MinChunks, MaxPoints  \* arguments for which blocks are compared

ASSUME ChunkAssumption ==
    /\ ThreadCounts \subseteq Nat \ {1}    \* one thread traps
    /\ MinChunks \subseteq Nat \ {0}
    /\ MaxPoints \in Nat

ThreadIds(threads) == 0 .. threads - 1

(* The rows some thread labels. *)
Labelled(n, threads, min) ==
    UNION {Chunk(t, n, threads, min) : t \in ThreadIds(threads)}

(* No row belongs to the blocks of two threads, so no two threads ever     *)
(* write the same label, however small the data set or large the pool.     *)
BlocksDisjoint ==
    \A n \in 0 .. MaxPoints, threads \in ThreadCounts, min \in MinChunks :
        \A t, u \in ThreadIds(threads) :
            t < u => Chunk(t, n, threads, min) \cap Chunk(u, n, threads, min) = {}

(* Only a tail is in no block, and it is shorter than the number of        *)
(* threads less two and less a chunk: chunks are N / (threads - 1) rounded *)
(* down, and the one extra block makes up for a rounding loss of one chunk *)
(* at most.  With the project's min_chunk_size of 16 nothing is lost up to *)
(* 18 threads, whatever the data set.                                      *)
UncoveredTail ==
    \A n \in 0 .. MaxPoints, min \in MinChunks :
        \A threads \in ThreadCounts \ {0} :
            LET longest == Larger(0, threads - 2 - ChunkSize(n, threads, min))
            IN  \E lost \in 0 .. longest :
                    Labelled(n, threads, min) = 0 .. n - lost - 1
=============================================================================
