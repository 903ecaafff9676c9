--------------------------- MODULE TaskflowKMeans ---------------------------
(***************************************************************************)
(* KMeans<T>::fit of k_means_taskflow_cpu_parallel: a cyclic graph of five *)
(* tasks, run once by an executor.                                         *)
(*                                                                         *)
(*   init -> clean_up -> compute_centroids -> update_clusters              *)
(*              ^                                   |                      *)
(*              +-------- iterate_while <-----------+                      *)
(*                                                                         *)
(* iterate_while is a condition task: its arrow back to clean_up is weak,  *)
(* taken when it returns 0.  compute_centroids is a for_each_index, which  *)
(* shares its rows out among silent-async tasks and waits for them.        *)
(*                                                                         *)
(* A worker's invocation of a task is a frame: the body, then the recovery *)
(* of the task's join counter, the release of the successors, the push of  *)
(* a released one, and the tear-down.  The tail of an invocation runs      *)
(* beside the tasks it released, whole rounds of them if the worker is     *)
(* slow.  A worker that waits for the tasks of compute_centroids invokes   *)
(* them too, above the frame that waits.                                   *)
(***************************************************************************)
EXTENDS Lloyd, Sequences

CONSTANTS
    M,              \* num_of_iterations
    MaxWorkers      \* num_of_threads is at most this

ASSUME TaskflowAssumption == M \in Nat /\ MaxWorkers \in Nat \ {0}

Workers == 1 .. MaxWorkers

Nodes == {"init", "clean_up", "compute_centroids", "update_clusters", "iterate_while"}

(* The arrow that leaves each task, and the strong ones that enter it. *)
Successor == [init |-> "clean_up", clean_up |-> "compute_centroids",
              compute_centroids |-> "update_clusters",
              update_clusters |-> "iterate_while", iterate_while |-> "clean_up"]
StrongDependents(n) == {p \in Nodes \ {"iterate_while"} : Successor[p] = n}

VARIABLES
    num_of_threads,     \* m_params.num_of_threads, the workers of the executor
    pc,                 \* where the thread that calls fit is
    centroids,          \* m_output_centroid_coords
    labels,             \* m_output_closets_centroid_indices
    sums,               \* sum_of_all_points_in_cluster
    counts,             \* num_of_points_in_cluster
    m,                  \* the count kept by iterate_while
    next,               \* the shared index of the current for_each_index
    join_counter,       \* _join_counter of each task of the graph
    topology_counter,   \* _join_counter of the topology
    num_topologies,     \* _num_topologies
    ready,              \* tasks of the graph that are pushed and not taken
    ready_chunks,       \* the same, for the tasks of for_each_index
    stack,              \* per worker, its frames, the running one first
    before              \* whether a call of fit has returned (history)

arrays == <<centroids, labels, sums, counts>>
queues == <<ready, ready_chunks>>
counters == <<join_counter, topology_counter>>
caller == <<num_of_threads, pc>>
vars == <<caller, arrays, m, next, counters, num_topologies, queues, stack, before>>

(* A frame: the task, where its invocation is, and the loop it is in.      *)
(* released is what it makes ready: its successor, or none.                *)
Frame(t) ==
    [task |-> t, at |-> IF t = "chunk" THEN "claim" ELSE "body",
     loop |-> 0, end |-> 0, released |-> t # "chunk"]

FrameType ==
    [task : Nodes \cup {"chunk"},
     at : {"body", "inline", "spawn", "join", "claim", "rows", "recover",
           "release", "push", "tear_down", "notify"},
     loop : Nat, end : Nat, released : BOOLEAN]

TypeOK ==
    /\ num_of_threads \in Workers
    /\ pc \in {"run", "wait", "returned"}
    /\ centroids \in [Clusters -> Centroid]
    /\ labels \in [Rows -> Clusters]
    /\ sums \in [Clusters -> Vector]
    /\ counts \in [Clusters -> Nat]
    /\ m \in 0 .. M + 1
    /\ next \in 0 .. N
    /\ join_counter \in [Nodes -> 0 .. MaxWorkers + 1]
    /\ topology_counter \in 0 .. 2 * MaxWorkers
    /\ num_topologies \in 0 .. 1
    /\ ready \subseteq Nodes
    /\ ready_chunks \in 0 .. MaxWorkers
    /\ \A w \in Workers : Len(stack[w]) <= 2 /\ Range(stack[w]) \subseteq FrameType
    /\ before \in BOOLEAN

ZeroSums == [k \in Clusters |-> ZeroVector]
ZeroCounts == [k \in Clusters |-> 0]
ZeroJoinCounters == [n \in Nodes |-> 0]

(* The first call of fit, its arrays allocated and its graph not run yet. *)
Init ==
    /\ num_of_threads \in Workers
    /\ pc = "run"
    /\ centroids = ZeroCentroids
    /\ labels = [i \in Rows |-> 0]
    /\ sums = ZeroSums
    /\ counts = ZeroCounts
    /\ m = 0
    /\ next = 0
    /\ join_counter = ZeroJoinCounters
    /\ topology_counter = 0
    /\ num_topologies = 0
    /\ ready = {}
    /\ ready_chunks = 0
    /\ stack = [w \in Workers |-> <<>>]
    /\ before = FALSE

-----------------------------------------------------------------------------
(* The thread that calls fit. *)

(* executor.run: the topology is set up and its source is scheduled. *)
Run ==
    /\ pc = "run"
    /\ pc' = "wait"
    /\ join_counter' = [n \in Nodes |-> Cardinality(StrongDependents(n))]
    /\ topology_counter' = 1
    /\ num_topologies' = 1
    /\ ready' = {"init"}
    /\ UNCHANGED <<num_of_threads, arrays, m, next, ready_chunks, stack, before>>

(* wait_for_all, and the executor's destructor joins its idle workers. *)
Return ==
    /\ pc = "wait" /\ num_topologies = 0
    /\ \A w \in Workers : stack[w] = <<>>
    /\ pc' = "returned"
    /\ before' = TRUE
    /\ UNCHANGED <<num_of_threads, arrays, m, next, counters, num_topologies, queues,
                   stack>>

(* fit is called again on the object, after a setParams that may change    *)
(* the number of threads: a new graph, executor and helper arrays.         *)
Refit ==
    /\ pc = "returned"
    /\ num_of_threads' \in Workers
    /\ pc' = "run"
    /\ centroids' = ZeroCentroids
    /\ sums' = ZeroSums
    /\ counts' = ZeroCounts
    /\ m' = 0
    /\ join_counter' = ZeroJoinCounters
    /\ UNCHANGED <<labels, next, topology_counter, num_topologies, queues, stack,
                   before>>

-----------------------------------------------------------------------------
(* The workers.  Which worker gets a pushed task, and when, is the         *)
(* executor's: it may be any that is idle or waits for a join.             *)

Top(w) == stack[w][1]
At(w, t, a) == stack[w] # <<>> /\ Top(w).task = t /\ Top(w).at = a

Put(w, f) == stack' = [stack EXCEPT ![w] = <<f>> \o Tail(@)]
GoTo(w, a) == Put(w, [Top(w) EXCEPT !.at = a])
Pop(w) == stack' = [stack EXCEPT ![w] = Tail(@)]

Take(w) ==
    /\ w <= num_of_threads
    /\ stack[w] # <<>> => Top(w).at = "join"
    /\ \/ \E t \in ready :
             /\ ready' = ready \ {t}
             /\ stack' = [stack EXCEPT ![w] = <<Frame(t)>> \o @]
             /\ UNCHANGED ready_chunks
       \/ /\ ready_chunks > 0
          /\ ready_chunks' = ready_chunks - 1
          /\ stack' = [stack EXCEPT ![w] = <<Frame("chunk")>> \o @]
          /\ UNCHANGED ready
    /\ UNCHANGED <<caller, arrays, m, next, counters, num_topologies, before>>

(* The bodies of the tasks.  A draw that repeats a sampled row is redrawn. *)
InitBody(w) ==
    /\ At(w, "init", "body")
    /\ \E indices \in Injection(Clusters, Rows) :
          centroids' = SampledCentroids(indices)
    /\ GoTo(w, "recover")
    /\ UNCHANGED <<caller, labels, sums, counts, m, next, counters, num_topologies,
                   queues, before>>

(* Mutant: only the counts are cleared. *)
CleanUpBody_keepsSums(w) ==
    /\ At(w, "clean_up", "body")
    /\ counts' = ZeroCounts
    /\ GoTo(w, "recover")
    /\ UNCHANGED <<caller, centroids, labels, sums, m, next, counters, num_topologies,
                   queues, before>>

CleanUpBody(w) ==
    /\ At(w, "clean_up", "body")
    /\ sums' = ZeroSums
    /\ counts' = ZeroCounts
    /\ GoTo(w, "recover")
    /\ UNCHANGED <<caller, centroids, labels, m, next, counters, num_topologies,
                   queues, before>>

UpdateBody(w) ==
    /\ At(w, "update_clusters", "body")
    /\ sums' = [k \in Clusters |-> VectorSum(sums[k], ClusterSum(labels, k))]
    /\ counts' = [k \in Clusters |-> counts[k] + Cardinality(Members(labels, k))]
    /\ centroids' = [k \in Clusters |-> Mean(sums'[k], counts'[k])]
    /\ GoTo(w, "recover")
    /\ UNCHANGED <<caller, labels, m, next, counters, num_topologies, queues, before>>

IterateBody(w) ==
    /\ At(w, "iterate_while", "body")
    /\ Put(w, [Top(w) EXCEPT !.at = "recover", !.released = m < M])
    /\ m' = m + 1
    /\ UNCHANGED <<caller, arrays, next, counters, num_topologies, queues, before>>

(* The body of for_each_index: alone, or by as many tasks as workers. *)
ComputeBody(w) ==
    /\ At(w, "compute_centroids", "body")
    /\ IF num_of_threads <= 1 \/ N <= 1
       THEN /\ Put(w, [Top(w) EXCEPT !.at = "inline", !.end = N])
            /\ next' = N
       ELSE /\ Put(w, [Top(w) EXCEPT !.at = "spawn",
                                     !.end = IF N < num_of_threads THEN N
                                             ELSE num_of_threads])
            /\ next' = 0
    /\ UNCHANGED <<caller, arrays, m, counters, num_topologies, queues, before>>

SpawnChunk(w) ==
    /\ At(w, "compute_centroids", "spawn") /\ Top(w).loop < Top(w).end
    /\ join_counter' = [join_counter EXCEPT !["compute_centroids"] = @ + 1]
    /\ ready_chunks' = ready_chunks + 1
    /\ Put(w, [Top(w) EXCEPT !.loop = @ + 1])
    /\ UNCHANGED <<caller, arrays, m, next, topology_counter, num_topologies, ready,
                   before>>

SpawnDone(w) ==
    /\ At(w, "compute_centroids", "spawn") /\ Top(w).loop >= Top(w).end
    /\ GoTo(w, "join")
    /\ UNCHANGED <<caller, arrays, m, next, counters, num_topologies, queues, before>>

(* Mutant: the wait ends when no task is left to take. *)
Joined_whenQueueEmpty(w) ==
    /\ At(w, "compute_centroids", "join") /\ ready_chunks = 0
    /\ GoTo(w, "recover")
    /\ UNCHANGED <<caller, arrays, m, next, counters, num_topologies, queues, before>>

Joined(w) ==
    /\ At(w, "compute_centroids", "join") /\ join_counter["compute_centroids"] = 0
    /\ GoTo(w, "recover")
    /\ UNCHANGED <<caller, arrays, m, next, counters, num_topologies, queues, before>>

(* A task of for_each_index claims some of the rows that are left; the     *)
(* sizes of the claims are in ForEachIndex.                                *)
ClaimChunk(w) ==
    /\ At(w, "chunk", "claim") /\ next < N
    /\ \E end \in next + 1 .. N :
          /\ next' = end
          /\ Put(w, [Top(w) EXCEPT !.at = "rows", !.loop = next, !.end = end])
    /\ UNCHANGED <<caller, arrays, m, counters, num_topologies, queues, before>>

NothingLeft(w) ==
    /\ At(w, "chunk", "claim") /\ next >= N
    /\ GoTo(w, "tear_down")
    /\ UNCHANGED <<caller, arrays, m, next, counters, num_topologies, queues, before>>

InRows(w) == At(w, "chunk", "rows") \/ At(w, "compute_centroids", "inline")

(* The body of the loop over the rows. *)
LabelRow(w) ==
    /\ InRows(w) /\ Top(w).loop < Top(w).end
    /\ \E j \in Clusters :
          /\ IsNearest(input_points[Top(w).loop], j, centroids)
          /\ labels' = [labels EXCEPT ![Top(w).loop] = j]
    /\ Put(w, [Top(w) EXCEPT !.loop = @ + 1])
    /\ UNCHANGED <<caller, centroids, sums, counts, m, next, counters, num_topologies,
                   queues, before>>

RowsDone(w) ==
    /\ InRows(w) /\ Top(w).loop >= Top(w).end
    /\ GoTo(w, IF Top(w).task = "chunk" THEN "claim" ELSE "recover")
    /\ UNCHANGED <<caller, arrays, m, next, counters, num_topologies, queues, before>>

ChunkTearDown(w) ==
    /\ At(w, "chunk", "tear_down")
    /\ join_counter' = [join_counter EXCEPT !["compute_centroids"] = @ - 1]
    /\ Pop(w)
    /\ UNCHANGED <<caller, arrays, m, next, topology_counter, num_topologies, queues,
                   before>>

-----------------------------------------------------------------------------
(* The rest of _invoke for a task of the graph. *)

(* Mutant: the join counter is not recovered. *)
Recover_dropped(w) ==
    /\ \E n \in Nodes : At(w, n, "recover")
    /\ GoTo(w, "release")
    /\ UNCHANGED <<caller, arrays, m, next, counters, num_topologies, queues, before>>

(* The counter must be whole again before a successor can lead back here. *)
Recover(w) ==
    /\ \E n \in Nodes :
          /\ At(w, n, "recover")
          /\ join_counter' = [join_counter EXCEPT ![n] = Cardinality(StrongDependents(n))]
    /\ GoTo(w, "release")
    /\ UNCHANGED <<caller, arrays, m, next, topology_counter, num_topologies, queues,
                   before>>

(* Mutant: a released task is not added to the topology's counter. *)
Release_uncounted(w) ==
    /\ \E n \in Nodes :
          /\ At(w, n, "release")
          /\ LET s == Successor[n]
                 left == IF n = "iterate_while" THEN 0 ELSE join_counter[s] - 1
             IN  IF ~ Top(w).released
                 THEN UNCHANGED join_counter /\ GoTo(w, "tear_down")
                 ELSE /\ join_counter' = [join_counter EXCEPT ![s] = left]
                      /\ GoTo(w, IF left = 0 THEN "push" ELSE "tear_down")
    /\ UNCHANGED <<caller, arrays, m, next, topology_counter, num_topologies, queues,
                   before>>

(* A task counts its successor down and releases it at 0; a condition task *)
(* sets the counter of the one it chose to 0.                              *)
Release(w) ==
    /\ \E n \in Nodes :
          /\ At(w, n, "release")
          /\ LET s == Successor[n]
                 left == IF n = "iterate_while" THEN 0 ELSE join_counter[s] - 1
             IN  IF ~ Top(w).released
                 THEN UNCHANGED counters /\ GoTo(w, "tear_down")
                 ELSE /\ join_counter' = [join_counter EXCEPT ![s] = left]
                      /\ IF left = 0
                         THEN /\ topology_counter' = topology_counter + 1
                              /\ GoTo(w, "push")
                         ELSE /\ UNCHANGED topology_counter
                              /\ GoTo(w, "tear_down")
    /\ UNCHANGED <<caller, arrays, m, next, num_topologies, queues, before>>

Push(w) ==
    /\ \E n \in Nodes : At(w, n, "push") /\ ready' = ready \cup {Successor[n]}
    /\ GoTo(w, "tear_down")
    /\ UNCHANGED <<caller, arrays, m, next, counters, num_topologies, ready_chunks,
                   before>>

(* The last task to leave tears the topology down. *)
TearDown(w) ==
    /\ \E n \in Nodes : At(w, n, "tear_down")
    /\ topology_counter' = topology_counter - 1
    /\ IF topology_counter = 1 THEN GoTo(w, "notify") ELSE Pop(w)
    /\ UNCHANGED <<caller, arrays, m, next, join_counter, num_topologies, queues, before>>

Notify(w) ==
    /\ \E n \in Nodes : At(w, n, "notify")
    /\ num_topologies' = num_topologies - 1
    /\ Pop(w)
    /\ UNCHANGED <<caller, arrays, m, next, counters, queues, before>>

Invoke(w) ==
    \/ InitBody(w) \/ CleanUpBody(w) \/ UpdateBody(w) \/ IterateBody(w)
    \/ ComputeBody(w) \/ SpawnChunk(w) \/ SpawnDone(w) \/ Joined(w)
    \/ ClaimChunk(w) \/ NothingLeft(w) \/ LabelRow(w) \/ RowsDone(w)
    \/ ChunkTearDown(w)
    \/ Recover(w) \/ Release(w) \/ Push(w) \/ TearDown(w) \/ Notify(w)

TakeAny == \E w \in Workers : Take(w)
Next == Run \/ Return \/ Refit \/ TakeAny \/ \E w \in Workers : Invoke(w)

Spec == Init /\ [][Next]_vars

(* The executor's promise, that a pushed task is taken by some worker, and *)
(* the scheduling of each worker that has a frame to run.                  *)
FairSpec ==
    /\ Spec
    /\ WF_vars(Run \/ Return) /\ WF_vars(TakeAny)
    /\ \A w \in Workers : WF_vars(Invoke(w))

-----------------------------------------------------------------------------
Frames == {f \in Workers \X (1 .. 2) : f[2] <= Len(stack[f[1]])}
FrameAt(f) == stack[f[1]][f[2]]

InBody == {f \in Frames : FrameAt(f).at \in {"body", "inline", "spawn", "join",
                                             "claim", "rows"}}

(* No two bodies ever run at the same time, in this round or across        *)
(* rounds, but for the row tasks beside each other and beside the          *)
(* compute_centroids that waits for them: the arrays need no lock.         *)
BodiesAlone ==
    \A f, g \in InBody : f # g =>
        /\ {FrameAt(f).task, FrameAt(g).task} \subseteq {"chunk", "compute_centroids"}
        /\ "chunk" \in {FrameAt(f).task, FrameAt(g).task}

Holds(f) == FrameAt(f).task \in Nodes /\ FrameAt(f).at # "notify"

(* The counters count what is left to do: the topology's every task that   *)
(* is pushed, about to be pushed or not torn down, and that of the waiting *)
(* compute_centroids every row task.  One too few would tear the graph     *)
(* down under a running task; one too many would wait for ever.            *)
CountersExact ==
    /\ topology_counter =
         Cardinality(ready) + Cardinality({f \in Frames : Holds(f)})
                            + Cardinality({f \in Frames : FrameAt(f).at = "push"})
    /\ \A f \in Frames : FrameAt(f).at \in {"spawn", "join"} =>
         join_counter["compute_centroids"] =
            ready_chunks + Cardinality({g \in Frames : FrameAt(g).task = "chunk"})

(* A fit runs num_of_iterations rounds; m counts them, once at the end of   *)
(* each.                                                                    *)
RoundsAsAsked == pc = "returned" => m = M

-----------------------------------------------------------------------------
(* Refinement: the graph is fit, with one round more than it was asked.    *)

Sampling == pc = "run" \/ "init" \in ready \/ \E w \in Workers : At(w, "init", "body")

(* From the body of a task until that of its successor is done. *)
Between(n, places) ==
    \/ Successor[n] \in ready
    \/ \E f \in Frames : \/ FrameAt(f).task = n /\ FrameAt(f).at \in places
                         \/ FrameAt(f).task = Successor[n] /\ FrameAt(f).at = "body"
Leaving == {"recover", "release", "push"}
Computing == Between("compute_centroids", {"inline", "spawn", "join"} \cup Leaving)
Updated == Between("update_clusters", Leaving)

Unlabelled ==
    next .. N - 1 \cup
    UNION {FrameAt(f).loop .. FrameAt(f).end - 1 :
              f \in {g \in Frames : FrameAt(g).at \in {"inline", "rows"}}}

FitPhase ==
    CASE Sampling -> "sampling"
      [] pc = "returned" -> "returned"
      [] OTHER -> "rounds"

FitTodo == IF Computing THEN Unlabelled ELSE Rows

FitIteration ==
    CASE Sampling -> IF before THEN M + 1 ELSE 0
      [] Updated -> m + 1
      [] OTHER -> m

Fitting == INSTANCE KMeans WITH
    Rounds <- M + 1, phase <- FitPhase, todo <- FitTodo, iteration <- FitIteration,
    fitted <- before

(* The graph implements KMeans with M + 1 rounds, its promise to return    *)
(* included; m_fitted, which this fit never sets, is read as "a call has   *)
(* returned".                                                              *)
ImplementsKMeans == Fitting!FairSpec
=============================================================================
