---------------------------- MODULE ForEachIndex ----------------------------
(***************************************************************************)
(* The body of the task that for_each_index makes: its range of indices is *)
(* shared out by silent-async tasks that claim chunks from one atomic      *)
(* index, large chunks by compare-and-swap while many indices are left and *)
(* chunks of chunk_size by fetch_add near the end.  The task that spawned  *)
(* them waits for its join counter; the shared index lives on its stack.   *)
(*                                                                         *)
(* One step is one access to an atomic or one call of the loop body.  Any  *)
(* spawned task may run at any time: which worker runs it is not modelled. *)
(***************************************************************************)
EXTENDS Integers

CONSTANTS
    Sizes,          \* numbers of indices for_each_index may be called with
    NumWorkers,     \* num_workers of the executor
    ChunkSize       \* chunk_size: 1 in for_each_index

ASSUME ForEachAssumption ==
    /\ Sizes \subseteq Nat
    /\ NumWorkers \in Nat \ {0}
    /\ ChunkSize \in Nat \ {0}

Tasks == 0 .. NumWorkers - 1

VARIABLES
    size,           \* N, the number of indices
    parent,         \* where the spawning task is
    spawned,        \* tasks spawned so far
    join_counter,   \* _join_counter of the spawning task
    next,           \* the shared atomic index
    stage,          \* where each task is
    s0, e0,         \* the chunk each task looks at: first index and end
    x,              \* the index each task calls the body with next
    calls           \* how often the body was called with each index

chunk == <<s0, e0, x>>
forEachVars == <<size, parent, spawned, join_counter, next, stage, chunk, calls>>

ForEachTypeOK ==
    /\ size \in Sizes
    /\ parent \in {"enter", "inline", "spawn", "join", "returned"}
    /\ spawned \in 0 .. NumWorkers
    /\ join_counter \in 0 .. NumWorkers
    /\ next \in Nat
    /\ stage \in [Tasks -> {"none", "queued", "loop", "coarse_rows", "fine",
                            "fine_rows", "tear_down", "exited"}]
    /\ s0 \in [Tasks -> Nat] /\ e0 \in [Tasks -> Nat] /\ x \in [Tasks -> Nat]
    /\ calls \in [0 .. size - 1 -> Nat]

(* compute_centroids is entered with its join counter at 0. *)
ForEachInit ==
    /\ size \in Sizes
    /\ parent = "enter"
    /\ spawned = 0
    /\ join_counter = 0
    /\ next = 0
    /\ stage = [t \in Tasks |-> "none"]
    /\ s0 = [t \in Tasks |-> 0]
    /\ e0 = [t \in Tasks |-> 0]
    /\ x = [t \in Tasks |-> 0]
    /\ calls = [i \in 0 .. size - 1 |-> 0]

(* W: no more tasks than indices. *)
Width == IF size < NumWorkers THEN size ELSE NumWorkers

CallBody(i) == calls' = [calls EXCEPT ![i] = @ + 1]

-----------------------------------------------------------------------------
(* The spawning task. *)

Enter ==
    /\ parent = "enter"
    /\ parent' = IF NumWorkers <= 1 \/ size <= ChunkSize THEN "inline" ELSE "spawn"
    /\ UNCHANGED <<size, spawned, join_counter, next, stage, chunk, calls>>

(* "only myself": the spawning task calls the body for every index. *)
RunInline ==
    /\ parent = "inline"
    /\ calls' = [i \in DOMAIN calls |-> calls[i] + 1]
    /\ parent' = "returned"
    /\ UNCHANGED <<size, spawned, join_counter, next, stage, chunk>>

(* Mutant: one task too many. *)
SpawnTask_oneMore ==
    /\ parent = "spawn" /\ spawned <= Width
    /\ join_counter' = join_counter + 1
    /\ stage' = [stage EXCEPT ![spawned] = "queued"]
    /\ spawned' = spawned + 1
    /\ UNCHANGED <<size, parent, next, chunk, calls>>

SpawnTask ==
    /\ parent = "spawn" /\ spawned < Width
    /\ join_counter' = join_counter + 1
    /\ stage' = [stage EXCEPT ![spawned] = "queued"]
    /\ spawned' = spawned + 1
    /\ UNCHANGED <<size, parent, next, chunk, calls>>

AllSpawned ==
    /\ parent = "spawn" /\ spawned >= Width
    /\ parent' = "join"
    /\ UNCHANGED <<size, spawned, join_counter, next, stage, chunk, calls>>

(* Mutant: the join waits for the last task only to have started. *)
Joined_early ==
    /\ parent = "join" /\ join_counter <= 1
    /\ parent' = "returned"
    /\ UNCHANGED <<size, spawned, join_counter, next, stage, chunk, calls>>

Joined ==
    /\ parent = "join" /\ join_counter = 0
    /\ parent' = "returned"
    /\ UNCHANGED <<size, spawned, join_counter, next, stage, chunk, calls>>

-----------------------------------------------------------------------------
(* Task t. *)

(* p1: fewer indices left than this are claimed one chunk_size at a time. *)
FineBelow == 2 * Width * (ChunkSize + 1)

LoadNext(t) ==
    /\ stage[t] = "queued"
    /\ s0' = [s0 EXCEPT ![t] = next]
    /\ stage' = [stage EXCEPT ![t] = "loop"]
    /\ UNCHANGED <<size, parent, spawned, join_counter, next, e0, x, calls>>

LeaveLoop(t) ==
    /\ stage[t] = "loop" /\ s0[t] >= size
    /\ stage' = [stage EXCEPT ![t] = "tear_down"]
    /\ UNCHANGED <<size, parent, spawned, join_counter, next, chunk, calls>>

Left(t) == size - s0[t]

(* q: the product of r and the double 0.5/W, rounded down; the double may   *)
(* be a little less than the fraction, and an exact quotient one too small. *)
CoarseSizes(t) ==
    LET exact == Left(t) \div (2 * Width)
        low == IF Left(t) % (2 * Width) = 0 THEN exact - 1 ELSE exact
    IN  {IF q < ChunkSize THEN ChunkSize ELSE q : q \in {exact, low}}

(* Mutant: the claim is a plain store, without the comparison. *)
ClaimCoarse_store(t) ==
    /\ stage[t] = "loop" /\ s0[t] < size /\ Left(t) >= FineBelow
    /\ \E q \in CoarseSizes(t) :
          LET end == IF q <= Left(t) THEN s0[t] + q ELSE size
          IN  next' = end /\ e0' = [e0 EXCEPT ![t] = end]
    /\ x' = [x EXCEPT ![t] = s0[t]]
    /\ stage' = [stage EXCEPT ![t] = "coarse_rows"]
    /\ UNCHANGED <<size, parent, spawned, join_counter, s0, calls>>

(* compare_exchange_strong that succeeds. *)
ClaimCoarse(t) ==
    /\ stage[t] = "loop" /\ s0[t] < size /\ Left(t) >= FineBelow
    /\ next = s0[t]
    /\ \E q \in CoarseSizes(t) :
          LET end == IF q <= Left(t) THEN s0[t] + q ELSE size
          IN  next' = end /\ e0' = [e0 EXCEPT ![t] = end]
    /\ x' = [x EXCEPT ![t] = s0[t]]
    /\ stage' = [stage EXCEPT ![t] = "coarse_rows"]
    /\ UNCHANGED <<size, parent, spawned, join_counter, s0, calls>>

(* Mutant: the claim is tried again with the old index. *)
MissCoarse_noReload(t) ==
    /\ stage[t] = "loop" /\ s0[t] < size /\ Left(t) >= FineBelow
    /\ next # s0[t]
    /\ UNCHANGED forEachVars

(* One that fails stores the index it found in s0. *)
MissCoarse(t) ==
    /\ stage[t] = "loop" /\ s0[t] < size /\ Left(t) >= FineBelow
    /\ next # s0[t]
    /\ s0' = [s0 EXCEPT ![t] = next]
    /\ UNCHANGED <<size, parent, spawned, join_counter, next, stage, e0, x, calls>>

EnterFine(t) ==
    /\ stage[t] = "loop" /\ s0[t] < size /\ Left(t) < FineBelow
    /\ stage' = [stage EXCEPT ![t] = "fine"]
    /\ UNCHANGED <<size, parent, spawned, join_counter, next, chunk, calls>>

ClaimFine(t) ==
    /\ stage[t] = "fine"
    /\ next' = next + ChunkSize
    /\ s0' = [s0 EXCEPT ![t] = next]
    /\ LET end == IF ChunkSize <= size - next THEN next + ChunkSize ELSE size
       IN  e0' = [e0 EXCEPT ![t] = end]
    /\ x' = [x EXCEPT ![t] = next]
    /\ stage' = [stage EXCEPT ![t] =
                    IF next >= size THEN "tear_down" ELSE "fine_rows"]
    /\ UNCHANGED <<size, parent, spawned, join_counter, calls>>

CallNext(t) ==
    /\ stage[t] \in {"coarse_rows", "fine_rows"} /\ x[t] < e0[t]
    /\ CallBody(x[t])
    /\ x' = [x EXCEPT ![t] = @ + 1]
    /\ UNCHANGED <<size, parent, spawned, join_counter, next, stage, s0, e0>>

(* After a coarse chunk the shared index is loaded again. *)
ChunkDone(t) ==
    /\ stage[t] \in {"coarse_rows", "fine_rows"} /\ x[t] >= e0[t]
    /\ IF stage[t] = "fine_rows"
       THEN stage' = [stage EXCEPT ![t] = "fine"] /\ UNCHANGED s0
       ELSE stage' = [stage EXCEPT ![t] = "loop"] /\ s0' = [s0 EXCEPT ![t] = next]
    /\ UNCHANGED <<size, parent, spawned, join_counter, next, e0, x, calls>>

TearDown(t) ==
    /\ stage[t] = "tear_down"
    /\ join_counter' = join_counter - 1
    /\ stage' = [stage EXCEPT ![t] = "exited"]
    /\ UNCHANGED <<size, parent, spawned, next, chunk, calls>>

Task(t) ==
    \/ LoadNext(t) \/ LeaveLoop(t)
    \/ ClaimCoarse(t) \/ MissCoarse(t) \/ EnterFine(t) \/ ClaimFine(t)
    \/ CallNext(t) \/ ChunkDone(t) \/ TearDown(t)

Parent == Enter \/ RunInline \/ SpawnTask \/ AllSpawned \/ Joined

ForEachNext == Parent \/ \E t \in Tasks : Task(t)

ForEachSpec == ForEachInit /\ [][ForEachNext]_forEachVars

(* Every spawned task is run, which the executor promises, and every       *)
(* running thread is scheduled again and again.                            *)
FairForEachSpec ==
    ForEachSpec /\ WF_forEachVars(Parent) /\ \A t \in Tasks : WF_forEachVars(Task(t))

-----------------------------------------------------------------------------
(* The loop body is never called twice with one index: two tasks never     *)
(* claim overlapping chunks, whether by compare-and-swap or by fetch_add.  *)
AtMostOnce == \A i \in 0 .. size - 1 : calls[i] <= 1

(* When the loop task returns the body has been called with every index,   *)
(* and no task can touch the shared index any more, which was a local      *)
(* variable of the function that has returned.                             *)
AllCalledAtReturn ==
    parent = "returned" =>
        /\ \A i \in 0 .. size - 1 : calls[i] = 1
        /\ \A t \in Tasks : stage[t] \in {"none", "exited"}

(* The loop task returns: claims that miss are retried, but never for ever. *)
ForEachReturns == <>(parent = "returned")
=============================================================================
