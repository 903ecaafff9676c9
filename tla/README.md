# Verification project for the k-means executables

The repository computes k-means clusterings (Lloyd's algorithm with random
initial rows) in several ways and compares how long they take: one sequential
C++ executable, one with hand-made threads and a spin barrier, one on a task
graph (taskflow), and scikit-learn. This directory holds TLA+ models of that
code, TLC configurations that check them on small instances, and TLAPS proofs of
the properties that matter most for every value of the parameters.

Paths below are relative to the repository root.

## The system

| Component | Code | State it keeps | Operations |
|---|---|---|---|
| k-means algorithm | `fit` of the three `kmeans.h` | sampled rows, centroids, labels, sums and counts, loop over M | sample K distinct rows; M times: label every row with its nearest centroid, replace every centroid by the mean of its rows |
| sequential fit | `src/k_means_cpp_cpu_sequential/kmeans.h` | the same, with loop indices | `fit`, `predict`, getters |
| parallel fit | `src/k_means_cpp_cpu_parallel/kmeans.h` | the same, `m_current_iteration`, the counter of finished threads, an array of threads | `fit` (calling thread), `worker_thread`, `update_rows`, `predict` |
| block partition | `WorkerThreadChunkParams::compute` in that file | none | first and last row of a thread's block |
| taskflow fit | `src/k_means_taskflow_cpu_parallel/kmeans.h` | the same, a task graph with one condition task | `fit`, `predict` |
| points | `common/ni_points.h` | matrix of f32/f64, vector views | allocation, `L2`, `+=`, `/=`, CSV load and save |
| arguments, timer, log | `common/ni_arg_parse.h`, `ni_timer.h`, `ni_log.h` | parsed values; start/stop times per event; a log file | parse; start, stop, report |
| executables | the three `main.cpp` | the above | parse, load, fit, save the labels, append a benchmark row |
| benchmark runner | `run.py`, `benchmark.sh` | directories, CSV header | compile, generate data, run each executable |
| data scripts | `k_means_python_sklearn/` | none | generate; fit with scikit-learn, save the cluster centres, append a benchmark row; draw |
| taskflow | `common/taskflow/` (vendored) | executor, work-stealing queues, notifier | schedule a cyclic graph, sleep and wake workers, `for_each_index` |
| fast_io, fast_float | `common/fast_io`, `common/fast_float` (vendored) | | formatting and parsing of numbers |

How they interact. `main` parses the arguments, maps the input file, loads the
points, constructs a `KMeans` and calls `fit`, then writes the results; there is
one caller. `run.py` starts the executables one after the other and looks at no return
code; they meet only in the files they leave. All concurrency is inside `fit`. In the parallel
executable the thread that calls `fit` spawns `num_of_threads - 1` workers that
share with it the labels, the centroids and two atomics. In the taskflow
executable `fit` builds a graph and hands it to the executor, whose workers run
the tasks: they take them from their own queue or steal them from another one's
(`tsq.hpp`), and sleep on a notifier (`notifier.hpp`) when there is nothing to take.

What is hard in it:

* **the spin barrier** of the parallel fit: two plain arrays (labels, centroids)
  are handed back and forth by two atomics, with relaxed stores in between. An
  early, late or lost step of one worker corrupts a clustering silently, and no
  test of the repository would see it;
* **the numbers at the boundary**: blocks of `max(16, N/(T-1))` rows capped at N,
  a `u32` initial iteration `M + 1`, `u32` thread counts 0 and 1;
* **state kept between calls**: atomics, labels and `m_fitted` survive a `fit`;
* **empty clusters**, whose centroid is a zero sum divided by `max(1, 0)`;
* **the cyclic task graph**, whose join counters must be restored each round;
* **the executor below it**: a lock-free deque, a lock-free stack of sleepers, and workers
  whose pushes wake nobody;
* **what a failing step leaves behind**: truncated files, missing rows, a runner that
  does not notice.

What makes each component correct: the algorithm returns labels that are nearest
to the centroids they were computed from, and its objective never rises; each executable's fit *is* that algorithm, for every
schedule; the parallel fit hands its arrays over without a race and always
returns; the blocks of the partition are disjoint and cover the rows; a row scan
returns the first nearest centroid and writes nothing outside its block; a task is run
once, and soon if a worker is free; no notification is lost; a row of the benchmark
stands for a result that is on disk.

## The modules

| Module | Models | Notes |
|---|---|---|
| `Lloyd` | the vector arithmetic (`L2`, sums, means), "nearest" | pure operators shared by all fits |
| `KMeans` | abstract `fit`: what every executable promises | a round labels rows in any order |
| `KMeansSequential` | the sequential `fit`, every loop of it | implements `KMeans` |
| `ChunkPartition` | `WorkerThreadChunkParams::compute` | pure operators |
| `KMeansParallel` | the parallel `fit`, its workers, both atomics | implements `KMeans` |
| `KMeansParallelHB` | the happens-before relation of the parallel `fit` | extends `KMeansParallel`, each action of which it conjoins |
| `UpdateRows` | the nested loops of `update_rows` for one block | the detail of one row of `KMeansParallel` |
| `TaskflowKMeans` | the taskflow `fit`: its graph, and how the executor invokes it | implements `KMeans` with M + 1 rounds |
| `ForEachIndex` | the guided partition inside `for_each_index` | the detail of a claim of `TaskflowKMeans` |
| `EventCount` | abstract notifier: registered and sleeping threads | |
| `Notifier` | `tf::Notifier`, every access of it, and its clients | implements `EventCount` |
| `Deque` | abstract work-stealing queue | |
| `TaskQueue` | `tf::TaskQueue`, every access of it | implements `Deque` |
| `TaskPool` | abstract executor: queued tasks, workers that are in tasks, joins | |
| `Executor` | the workers' loop, stealing, joining a subflow, sleeping, waking, shutdown | uses `EventCount`, implements `TaskPool` |
| `PointsCsv` | `save_to_csv`, `load_from_csv` | pure operators |
| `Benchmark` | `run.py` and the `main` functions | files and directories as state |
| `*_proofs` | theorems about the module of the same name | `KMeansParallel_proofs`: about `ChunkPartition` and `KMeansParallelHB`, too |
| `Lloyd_proofs` | lemmas about the sums of `Lloyd`, distances and the objective | for the proofs that a fit implements `KMeans` and never makes the clustering worse |
| `LoopsAndQueue_proofs` | theorems about `UpdateRows`, `ForEachIndex` and `TaskQueue` | the pieces the parallel fits are assembled from |
| `MC*` | instances for TLC | |

**Lloyd.** Coordinates are small integers, a vector is a function, and a centroid
is a pair `[sum, count]`: an exact rational. `Mean` divides by `max(1, count)` as the
code does, so that the mean of an empty cluster is the zero vector. `IsNearest(p, j, c)`
says that `j` is the first index with the least distance, the result of a scan
with `<`. The code works in f32 or f64 with `-Ofast`; rounding, infinities and NaN
are outside this module (see *Not modelled*).

**KMeans.** Actions: `Sample` (K distinct rows), `AssignRow` (one row gets the
index of its nearest centroid), `UpdateCentroids` (after the last row of a round,
all centroids become means), `Finish`, `Refit` (the object is used again). The
number of rounds is the constant `Rounds`; the implementations say what they make of it.

**KMeansSequential.** One step per iteration of each loop of `fit`: clearing the
helpers, the scan of one row over the centroids, storing the label and
accumulating, dividing. The refinement mapping reads an unfinished scan as "row
not labelled yet" and a partly divided array as the full array of means.

**KMeansParallel.** The calling thread (`pc`) and T - 1 workers (`worker`, `at`).
Each access to one of the two atomics is a step of its own; so are a row
labelled, a row accumulated and a centroid divided. Spinning is an explicit step
that changes nothing. The sampling step leaves out the draws that repeat a row.
A labelled row is one atomic step: `CallerAlone` (proved) says that the centroids do
not change while any thread scans them, and `UpdateRows` holds the scan itself. The refinement
mapping to `KMeans` counts a row as labelled when the thread that owns its block
passed it this round.

**UpdateRows.** The two nested loops of `update_rows` (`for` row, `for` centroid,
`if (d < min)`), over an arbitrary table of distances that may hold "infinite"
entries, which a row made of overflowing coordinates has: the scan then keeps index 0.

**TaskflowKMeans.** Each worker has a stack of frames, one per invocation: body,
recovery of the join counter, release of the successor (count it down, count it in
the topology), push, tear-down. The tail of an invocation may be delayed past whole rounds. A worker
that waits in the join of `compute_centroids` invokes row tasks above the waiting frame. Queues are sets: which
worker takes a pushed task is left open, and that some worker takes it is the fairness
assumption on `TakeAny`, the promise of the executor's queues and notifier. The bodies of
`init`, `clean_up` and `update_clusters` are one step each, which `BodiesAlone` justifies. The
sizes of the claims of row tasks are left open: `ForEachIndex` computes them.
`before` is a history variable that says whether a call has returned; the code never sets
`m_fitted` here, so the mapping takes the abstract flag from it. No worker at all
(`num_of_threads = 0`) makes the executor throw and is excluded by the assumption.

**ForEachIndex.** The spawning task and its row tasks with each load, compare-and-swap
and fetch_add on the shared index. The coarse size is a product with the double 0.5/W, rounded down: an exact quotient
may come out one too small, which is a choice here.

**KMeansParallelHB.** Labels and centroids are plain memory. For each of its accesses that
matter (the last write of a label, the last scan of a thread, the last write of the
centroids, the last count of the labels) `known[t]` says whether it happens before what thread t does next.
A release store leaves what its thread knows with the atomic, an acquire load takes it, a relaxed
store leaves nothing, and the `fetch_add` of a worker continues the release sequence of the others. The
start of a thread and its join carry knowledge, too. Every behaviour of `KMeansParallel` is
one of this module, since only history is added.

**Notifier.** The state word is kept as three variables (head of the stack, number in
prewait, epoch); the epoch is relative to each waiter, `turn`, so that it needs no bound. A
compare-and-swap loop that computes its new value from the loaded one alone is one step;
the pop of `notify`, which reads the next pointer in between, is three, so that the ABA case the comment at
line 185 argues about can happen or not. Parking and unparking are the critical sections and the condition variable,
spurious wake-ups included. The client is the one the comment at lines 31 to 49 prescribes.

**TaskQueue.** `_top`, `_bottom` and the arrays, old ones included, each a record of its capacity `C` and its
slots `S`: a thief may still read from one the owner has replaced. `_bottom` is one lower while the owner pops, which the mapping to `Deque` adds back.

**Executor.** One thread per worker and the owner. Counters, queues, `_done` and the notifier
are accessed one per step. Tasks are numbered as they are made. A queue is a set of them, for the order in which it hands
them out is not what the executor relies on, and that it hands each out once is `TaskQueue`'s promise; sleeping is `EventCount`, which `Notifier` implements.
`stack` holds the tasks a worker is in. A task may fork tasks onto its worker's own queue (`Fork`, `silent_async` of a subflow) and must then join them (`Join`,
which `for_each_index` does in the fit): the loop of `_invoke_dynamic_task_internal` looks at the task's join counter (`CheckJoin`), pops the
worker's own queue (`JoinPop`), steals from the shared queue and from other workers (`JoinSteal`), and goes on when a steal fails and the counter is zero
(`JoinMiss`; with children left it only repeats). What it pops or steals it runs on top of the task that waits, whichever task that is, and that one may fork and join in turn. All
the while the worker is counted as active and not as a thief. A task may also release successors (`Release`), finish, or run
for ever. How the victim is drawn and when exploring ends is left open. That the
last task tears the topology down is part of `Finish`; which tasks a task of the fit forks and releases is
in `TaskflowKMeans`.

**TaskPool.** Tasks that are queued, the tasks each worker has started and not finished, and which of these wait in a join. A worker
starts a queued task if it is in none, or only in tasks that wait in a join (`Start`). A join returns (`Return`) and a task
ends (`Finish`) only when no task it queued is left, and the pool closes only when nothing is queued or running. Its one fairness
condition is that a queued task is started while some worker may start one.

**Benchmark.** `run.py` from its first `makedirs` to its last execution, and per execution load,
fit, open, write and append; the state is what is on disk. The executables write below
the repository, `run.py` makes directories below `--output_path` and the header below the directory it is
started in: each may be the repository or elsewhere. A user may run an executable by hand in between, and one may
be killed. A fit with more clusters than rows has no step: it never ends.

**PointsCsv.** A file is a sequence of numbers and separators, as the loader sees it. `Benchmark`'s `Load` reads such a file; its
contents are no state, since nothing that is modelled writes a data file.

## The runs

| Run | Checks | Instance |
|---|---|---|
| `sequential_fit` | the sequential fit implements `KMeans`; `ObjectiveNeverRises` | 4 points of the plane, two of them equal, 3 clusters, 3 iterations, one distance beyond `FloatMax` |
| `parallel_fit` | data races, barrier, counter, labels, return and refinement; `BlocksPartition` of the blocks | 5 rows, 2 clusters, 2 rounds, 4 threads, blocks of 2; the blocks also for 0, 2, 4, 5, 18, 19 and 63 threads, up to 400 rows, minimums 2 and 16 |
| `update_rows` | the scan of a block | a block in the middle of 5 rows, ties and infinite distances, every earlier labelling |
| `taskflow_fit` | `BodiesAlone`, `CountersExact` and the refinement of the task graph | 3 rows, 2 clusters, 2 iterations, 1 or 2 workers, which may change between calls |
| `for_each_index` | `AtMostOnce`, `AllCalledAtReturn`, `ForEachReturns` | 3 tasks, 0, 1, 2 or 13 indices |
| `executor` | `SleepOnlyWhenIdle`, `ActiveIsWatched`, `CallsReturn`, implements `TaskPool` | 2 workers, 4 tasks |
| `notifier` | `TurnsExact`, `SleepersAreHeld`, `ItemsAreTaken`, implements `EventCount` | 2 waiters, 2 other notifiers, 3 items |
| `task_queue` | `NothingLost`, implements `Deque` | the owner, 2 thieves, 5 items, capacity 2 |
| `benchmark` | `RowsHaveResults`, `RunReportsAll`, `RunEnds`, `LoaderReadsTable` | 2 commands, files of 3 and 9 rows, 3 or 5 clusters, 1 or 2 threads, one kill; tables of up to 2 by 2 |
| `taskflow_rounds` (violation) | `RoundsAsAsked` | 1 iteration |
| `chunk_gap` (violation) | `BlocksCover` | 19 threads, 305 rows |
| `parallel_one_thread` (violation) | `FitReturns` | T = 1 |

What they show.

* `ObjectiveNeverRises`: no labelled row and no update of the centroids raises the sum of
  squared distances within a call. Equal rows make empty clusters reachable: fit may sample two equal
  rows, after which the first of them takes all ties. It is a property of data in range: with `FloatMax` at 9, 20 or 40 instead of 60 it fails
  in the same instance, for a row that no centroid is near enough gets label 0, however far that centroid is, and may have had a better label a round before.
* `NoDataRace`: whenever a thread is about to access a label or the centroids, every earlier
  conflicting access happens before. The relaxed reset of the counter is harmless; a relaxed publication is not.
* `CallerAlone`: while the caller resets, accumulates or divides no worker is in
  `update_rows`. `NoLostFinish`: the counter the caller spins on is the number of
  workers through with this round. `LabelsCurrent`: at the start of the accumulation
  every label is nearest to *this* round's centroids. `NoLabelRace`: no two threads are
  about to write one label. `ImplementsKMeans`: for each schedule the fit is a behaviour of
  `KMeans`, fairness included. `FitReturns`: every fit returns.
* `BodiesAlone`: no two task bodies overlap, in one round or across rounds, but for the row
  tasks and the task that waits for them. `CountersExact`: the counters of the topology and of the waiting
  task are the work that is left. A weak arrow, a lost recovery or an early tear-down breaks one of them.
* `AtMostOnce`, `AllCalledAtReturn`: each index is claimed by one task, and the shared index, a
  local variable, is not touched after its function returned. `ForEachReturns`: a missed claim is
  not retried for ever.
* `BlocksPartition`: blocks never overlap and what they leave out is a tail of at most
  `T - 2 - chunk` rows: nothing as long as T is at most `min_chunk_size + 2`, 18 threads.
  `chunk_gap` shows that it is not empty beyond.
* `SleepOnlyWhenIdle`: workers are never all asleep with a task in a queue, but for the moment between the owner's push and
  its notification. `ActiveIsWatched`: never do some workers run tasks while all others sleep. `ImplementsTaskPool`: a task is
  started once, by a worker that is in no task or only in tasks that wait in a join; a join returns and a task ends only when the tasks of its subflow
  are finished; `TaskPool`'s
  fairness says that a queued task is started while a worker is free in this sense, even if the task of another
  worker never ends. `CallsReturn`: `wait_for_all` returns if tasks end, however the tasks that join are stacked on each other and their children on
  other workers, and so does the destructor, whether a worker is exploring, about to sleep or asleep when `_done` is set.
* `TurnsExact`: the epochs of those in prewait are the next ones, in order, and exactly as many as are counted.
  `SleepersAreHeld`: a waiter that sleeps unsignaled is on the stack or in the
  list of a thread that is about to unpark it. `ItemsAreTaken`: no notification is lost. `ImplementsEventCount`: each operation takes
  effect in one step.
* `NothingLost`, `ImplementsDeque`: the race of `pop` and `steal` for the last item has one winner, and a thief that read a
  slot early, from an old array even, claims the item only if it is still the oldest.
* `RowsHaveResults`: a row of the benchmark has its complete result on disk and its own three times;
  a failed or killed execution leaves none. `RunReportsAll`: a run reports every executable on every
  file, except the taskflow one, whose output directory `run.py` does not make; it speaks of behaviours in which nothing has been killed, in an earlier run
  either. `RunEnds`: it comes to an end if no file
  has fewer rows than clusters are asked for (an executable with no thread at all, which waits for ever, is excluded by `BenchmarkAssumption`). `LoaderReadsTable`: load and save are inverse; a
  name that promises one value too many yields a silent zero, with two the loader leaves the file.

Bounds and why they are enough. The barrier's protocol depends on the round
parity only through a counter that is reset and an iteration that is compared for
equality, so two rounds and a second call of `fit` (the `Refit` action) reach every way a
worker can be early or late: before its first round, between two rounds, after
the last, and left over from an earlier call. Three workers and the caller give a block with
two rows, one with one row and an empty one. `MinChunk = 2` and `U32 = 16`
are the scaled images of 16 and 2^32; the proofs hold for all values. The partition has no state and is
checked with its real minimum of 16. In the task graph two workers are enough for one to be
late in a tear-down while the other runs whole rounds; with two iterations it can be late for
more than one. With two waiters one may be popped, run on and come back while the other is on the stack,
which is what ABA takes; with two other notifiers two pops compete. Five items on a queue of
capacity 2 make it grow to 4 and to 8, and its indices go round the array in between. In the executor four tasks
on two workers give a task whose child is stolen, a second task run on top of it that forks and joins as well, and a worker that
goes to sleep or wakes while a task is released. With three workers one can be active, one look for work and one sleep; three workers
and two tasks also pass (630,000 states) with every property, three workers and three tasks (2.4 million states) with the
invariants, but take too long for a run kept beside the code. The invariants and the refinement without fairness are proved for every number. Two commands suffice for one to meet what another left. Thirteen indices and three tasks have all three
tasks compete for a coarse claim, which needs 12 indices left; one succeeds and leaves 11, the others miss and go on with fine claims. With 14 indices two
coarse claims succeed: the same properties hold, in 1.5 million states.

Fairness. `WF(Caller)` and `WF(Worker(t))`: each is a thread of the operating system and
runs again and again, and no step of it can be blocked, since waiting is spinning. A
random draw that repeats a sampled row is assumed not to repeat for ever. In the
task graph each worker with a frame runs on (`WF(Invoke(w))`) and a pushed task is taken by some
worker (`WF(TakeAny)`), which the executor's two-phase wait is there to ensure. In `Executor` and `Notifier` each
thread runs on, with no fairness on new tasks or items, nor on the end of a task (`TasksEnd` is a premise of
`CallsReturn` only). `SF` is on one disjunction: that some thief finds a task. Thieves draw their victims at random, a hundred times and more
per turn, so if there is a task again and again while they look, one of them finds
it; weak fairness would not do, since a thief may be between two looks. A worker that joins does not give up stealing, so weak fairness is enough for it. In `Benchmark` an execution
that has a step takes it. Nothing
obliges anyone to call `fit` again: `Refit` is not fair. Since spinning is a step,
a hang is a livelock, visible to `FitReturns` and not to the deadlock check; in
`parallel_one_thread` the process dies at the division by zero, so the deadlock
check is off there.

## The proofs

All theorems hold for every value of the constants under the assumptions named in
the modules (`LloydAssumption`, `ParallelAssumption`, ...).

* `KMeansParallel_proofs`, the blocks: blocks of different threads are disjoint for any number of
  threads (`ChunksDisjoint`); from two threads on they cover all rows but a tail of at most `T - 2 - c` rows, `c` being the
  chunk size (`ChunksCoverButTail`), so that nothing is left out up to `min_chunk_size + 2` threads (`ChunksCover`). The
  argument: `c >= n \div (T-1)`, so the blocks, `c*T` rows at full length, fall short of `n` by the rest of the division
  less `c` at most, and the rest is at most `T - 2`. `BlocksArePartition` is `BlocksPartition` for any sets of arguments.
* `KMeansParallel_proofs`, the barrier: `TypeCorrect`, `CallerIsAlone`, `NoFinishIsLost`,
  `LabelsAreCurrent`, `LabelsAreNotRaced`, under `SafeParameters`: T in
  2 .. MinChunk + 2 and `M + 1 < U32`. Each part of that assumption is needed: with more threads rows
  are unlabelled (`chunk_gap`), with one the partition divides by zero (`parallel_one_thread`), with none
  the caller waits for `0 - 1` workers in u32, and with `M + 1 = U32` the initial value of `m_current_iteration` is the first
  round, which workers then start before the caller has published it. The model has all of these behaviours. The inductive invariant `IInv` is `TypeOK`, `BarrierInv` (which
  iteration every worker is at, for each place of the caller, and the counter as the
  number of workers that are through), `LabelInv` (the rows passed in this
  round carry a nearest label) and `LabelsCurrent`. `CallerAlone` is not inductive:
  what excludes an early worker is that `current_iteration` is either the round the worker has
  already finished or one that none waits for, which is `BarrierInv`.
* `KMeansParallel_proofs`, the memory order: `DataRaceFree`, under `SafeParameters`. Every step with its history is a step of
  `KMeansParallel`, so `IInv` above holds, too; `KnowledgeInv` adds who knows of what. Outside the labelling the caller
  knows of every access; meanwhile each access it does not know of either left with the counter or is a mark
  (labels written, centroids read) of a worker that has not bumped the counter yet; and a late worker finds what
  it needs in the iteration it waits for. That marks of two threads are apart is `ChunksDisjoint`.
* `Lloyd_proofs`, the sums: `ClusterSum` is a fold over a set of rows, whose meaning takes an induction. It is made without a scheme
  of induction: a finite set has a least subset that violates a fact, if any does (`LeastSet`), and the fact holds of that one. So the
  recursive function of the fold exists and is unique (`SolutionExists`, `SolutionTaken`), a sum does not depend on which
  element is taken out first (`SumSplit`), and what a loop over the rows has accumulated becomes, row by row, the sum over the cluster (`BeforeNext`, `BeforeAll`).
  Also here: squared distances are non-negative (`L2Type`) and `Less` orders them (`LessAsym`, `LessTrans`).
* `Lloyd_proofs`, the objective: `Objective` compares fractions, whose common denominator is a product over the clusters, so the lemmas on
  folds are stated of sums and products at once. A row that gets the nearest centroid comes no farther (`LabellingLowers`). That means lower
  the sum (`MeansLower`) is the classical argument: the loss of one square is linear in the row (`SquareLoss`), so summed over a cluster
  of m rows with sum s it is a square that is not negative (`ClusterLoses`), and the sum over rows is the sum over clusters and coordinates
  (`SumByCluster`, `SumSwap`). `RoundStepLowers` says it of one step of `KMeans`.
  `BoxedReachable`: a mean lies in every box that its rows lie in, so what is in range stays in range.
* `KMeansSequential_proofs`: `TypeCorrect` and `Refinement`, the part of `ImplementsKMeans` without fairness, for any data set, K and M.
  `ScanInv`: `distance` is the least of those passed and `closest` the first to have it. `MeansInv`: while rows are accumulated the
  helpers hold the sums over the rows before the current one; while centroids are divided those before the current one are means.
  `DistinctInv`: the rows sampled so far are distinct. `NeverRisesInReach` and `NeverRises` are the two forms of `ObjectiveNeverRises`. The first
  assumes of a behaviour that each row has a centroid nearer than `FloatMax` in every round (`AllReachable`), which is what the code needs and cannot be dropped, as
  the smaller values of `FloatMax` above show. The second assumes `DataInRange` of the data: coordinates of at most b with `D * 4 * b * b < FloatMax`, as
  all data has whose squared distances fit into the float type, and derives the first. The proof is about steps of `KMeans`, to which `Refinement` maps those of the loops; so
  `NeverRisesInReach` and `NeverRises` of `KMeansParallel_proofs` (under `SafeParameters`) and of `TaskflowKMeans_proofs` are the same lemmas and the other refinements.
* `KMeansParallel_proofs`, the fit: `Refinement`, the same for the threads, under `SafeParameters`. To the barrier's invariant
  it adds `FitInv`, the caller's share of `MeansInv`. A step of a worker is an `AssignRow` because `BarrierInv` says that all its
  labels are for the round the caller is in; the end of the caller's loop over the rows is
  `UpdateCentroids`, for by `LabelInv` no row is left to label then; a partly divided array is read as the array of means it becomes.
* `LoopsAndQueue_proofs`, `update_rows`: `RowsNearest` (each row passed has the first nearest
  centroid) and `WritesBlockOnly`.
* `LoopsAndQueue_proofs`, `for_each_index`: `ForEachTypeCorrect`, `NoIndexTwice`, `NothingLeftAtReturn`, for any numbers of workers and indices
  and any chunk size. `ClaimInv`: what a task has loaded is below the shared index, two claims are apart, and a task gives up only
  when everything is claimed; `CallInv`: an index has been called exactly if it is below the shared index and in no
  task's claim; `CountInv`: the join counter is the number of tasks that have not left.
* `LoopsAndQueue_proofs`, the queue: `TypeCorrect`, `ItemsNeverLost` and `Refinement`, which is the whole of `ImplementsDeque`, for any capacity and
  numbers of thieves and items. `BoundInv`: the items fit into the array. `ThiefInv` is the reason why a stale read
  is harmless: as long as `_top` is what the thief saw, the slot of the array it loaded, replaced or not, holds
  what the current array holds. `OwnerInv` says the like of the owner's copies, `ContentInv` that each item is in one slot
  or with one thread. Indices less than the capacity apart have slots of their own (`ModApart`).
* `Notifier_proofs`: `TypeCorrect`, `TurnsAreExact`, `NoSleeperLost` and `Refinement` (all of
  `ImplementsEventCount`), for any finite set of waiters and any number of other notifiers and of items. `TurnInv`: the
  waiters in prewait have the turns 0 .. prewait - 1, one each. `HeldInv`, `ListInv`: a sleeper is on
  the stack or in one notifier's list, lists have no cycle and run on past the waiter that is let go. `CopyInv` settles ABA: a copy of
  `_state` that is not outdated shows a head that is still there with the same next pointer. What is reached along the next pointers is the
  least set closed under them (`Reach`), so that no induction is needed.
* `Executor_proofs`: `TypeCorrect`, `NobodySleepsAwayATask`, `WorkIsWatched` and `Refinement`, for any numbers of
  workers and tasks. `CountInv`: `_num_actives` and `_num_thieves` count the workers at certain places. `PlaceInv`: only a worker that has a task to run or join has
  a queue that is not empty. `ApartInv`: no task is in two queues, on two stacks or twice on one. `JoinInv`: the join counter of a task is the number of its children that
  are queued or running, that of the topology counts those without a parent and what is still to be pushed. `KinInv`: a parent is running, and older than its child. `ChildlessInv`: a task that has
  not forked yet, or whose join has returned, has no unfinished child. That a topology whose counter is zero leaves nothing queued or running (`NoneLeft`) rests on `KinInv`: the oldest unfinished task
  would have no parent. `NotifierInv`: who may be registered or asleep where, and that after the owner's wake-up nobody goes
  to sleep. `SharedInv`: while the executor's queue holds an announced task, some worker will look at that
  queue before it sleeps or has been notified. `WatchInv`: while a worker is active there is a thief, nobody
  waits, or somebody is at a place from where it becomes or wakes a thief or sees the active one. Neither
  `SleepOnlyWhenIdle` nor `ActiveIsWatched` is inductive: each says that all workers are asleep
  or busy, and what excludes it is what the last one on the way there was about to see. `Refinement` is the part of `ImplementsTaskPool`
  without fairness.
* `TaskflowKMeans_proofs`: `BodiesRunAlone`, `CountersKept`, `TypeCorrect` and `Refinement`, for any data set and any numbers of iterations and workers.
  `BodiesAlone` compares frames of two workers and is not inductive, for it does not say that nothing else is pushed
  meanwhile; nor is `CountersExact`, for it does not say who may still count. What is inductive is that one token goes round the
  graph. `TurnInv`: the tasks that are pushed and the frames from their body to their push are one at most; all other frames are tails.
  `RowTaskInv`: there are row tasks only while `compute_centroids` spawns or waits, and from the moment that task is pushed to its
  join its join counter is the number of row tasks left, recovered in time for the next round. `TopologyInv`: a topology counts the tasks pushed and every frame that will still
  count down. `ShapeInv`: which frames there are, and that a stack is a waiting frame with a row task above it at most.
  Frames are counted (`Count`), and a step is described by what it does to one stack (`CountLevels`).
  All this, `IInv`, reads no array. `Refinement` (the part of `ImplementsKMeans` without fairness) rests on `FitInv`, which adds
  what the data is where the turn is. `RoundInv`: the task that has the turn bounds the round, the sums and counts are zero from
  `clean_up` to `update_clusters`, and no row is left to claim once `compute_centroids` is through. `TokensInv`: there are as many row
  tasks as `compute_centroids` has spawned, until all rows are claimed, and `iterate_while` releases `clean_up` exactly while rounds are left.
  `ShareInv`: the ranges that row tasks are labelling are disjoint and below `next`, so each row is labelled once and all are when the last row
  task leaves. `JoinInv`: the join counter of a task that is neither pushed nor running is 1, so that a release makes it ready.
* `Benchmark_proofs`: `TypeCorrect`, `RowsAreEarned` and `RunsAreReported`, for any numbers of files, commands and kills and
  any options. `RowsHaveResults` needs what the execution under way has done so far: `TimedInv` (what its timer has logged), `OutputInv` (whose
  result is in the output file), `AgeInv` (rows are older than the execution under way, so a result begun anew is younger
  than every row it could belong to). `RunReportsAll` speaks of the end of a run; `RunInv` says it of the
  executions that are past. `LoadedTables` is `LoaderReadsTable` for tables of any size: the positions of the loader are a recursive function with a closed form
  (`PositionKnown`: 2i + 1 up to the last value, one more per value from there on), shown by the least value at which the two would differ. The subtle part of `RunReportsAll`: scikit-learn itself stops with an error when there are more clusters than rows, and
  leaves no row. But before it come the C++ executables on the same file, and those never end, so no run that ends is one of these.

Only model-checked:

* liveness (`FitReturns`, `ForEachReturns`, `CallsReturn`, `ItemsAreTaken`, `RunEnds`) and the fairness part of `ImplementsKMeans` and `ImplementsTaskPool`;

So every invariant and every action property of the runs is a theorem; `WF_` and `SF_` appear in no proof. The provers have no
induction over data and no liveness under fairness; where a fact takes an induction over a finite set of rows or over numbers, it
is made with a least counterexample, which is a theorem of the library without an operator as parameter.

## Findings

* `chunk_gap`: from 19 threads on there are row numbers whose last rows are in no
  block. The notebook says every point gets a label.
* `parallel_one_thread`: with one thread the partition divides by zero. It is the default
  of a machine with two hardware threads. (With none, the default of a single one, the caller waits for 2^32 - 1
  workers; and with 2^32 - 1 iterations the initial iteration wraps to 0. Both need such arguments and
  have no run of their own.)
* `taskflow_rounds`: the condition task runs after the round and compares before it
  counts, so the graph runs M + 1 rounds where the notebook, and the two other
  executables, have M.

Beside these, what the runs show and no document denies: the taskflow executable appears in no
benchmark unless somebody makes `data/output/taskflow_cpu`, and a benchmark with more clusters than rows in some file
never ends.

## Not modelled, and why

* Floating-point rounding, overflow and NaN under `-Ofast`: real arithmetic is
  replaced by exact rationals (`UpdateRows` alone has infinite distances).
* Weak memory in taskflow: `Notifier`, `TaskQueue` and `Executor` take atomics as sequentially consistent. Their
  fences are there to make relaxed accesses behave so; that they suffice is not shown. A weak compare-and-swap does not
  fail spuriously here, which would only repeat a loop. The 32-bit epoch of the notifier does not wrap within two steps of a waiter.
* The fixed array of 64 threads, `K > N` in the models of fit and other inputs that only debug assertions reject.
* `setParams` of a `KMeans` between two calls of `fit` (it is an assignment that no executable calls).
* `ArgParser`: a stateless search in argv. It takes the value to follow its name in memory, so an option
  at the very end of the command line is given whatever comes after argv.
* Byte counts of allocations (u64 products), file mapping, and what a reader sees of a file that is being written.
* The build of the binaries and the generation of data: taken as done. An executable that is missing makes `run.py` stop with an exception.
* taskflow beyond what `fit` uses (pipelines, semaphores, sorting, reduction, modules, GPU flows, observers, async tasks with a
  future, cancellation), `fast_io` and `fast_float`: vendored libraries of about 100,000 lines, of which the executables call a
  few functions. They are most of the repository's lines and no part of its own logic.
* The rest of the data scripts: straight-line calls of numpy and scikit-learn.

## Plan

Done: all modules above; a proof of every type invariant, every safety invariant and every action property that a run checks; and of the safety part of every
refinement. Left to TLC for good is what is liveness. What could be added: the fences of the notifier and of the queue, as
`KMeansParallelHB` does it for the spin barrier, and the wrap of the notifier's 32-bit epoch.
