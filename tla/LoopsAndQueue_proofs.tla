--------------------- MODULE LoopsAndQueue_proofs ---------------------
(***************************************************************************)
(* The three pieces the parallel fits are assembled from.                  *)
(*                                                                         *)
(* update_rows labels every row of its block with its nearest centroid,    *)
(* for every block, every number of centroids and every table of           *)
(* distances, and writes nothing else.                                     *)
(*                                                                         *)
(* for_each_index calls its body exactly once with every index, for every  *)
(* number of indices and workers and every chunk size, and no task is left *)
(* when it returns: no claim overlaps another, whether it was made by      *)
(* compare-and-swap or by fetch_add, and the join counts every task.       *)
(*                                                                         *)
(* The work-stealing deque keeps every item and hands it out once, for any *)
(* number of thieves, capacity and number of items: it implements Deque.   *)
(***************************************************************************)
EXTENDS UpdateRows, ForEachIndex, TaskQueue, FiniteSetTheorems, SequenceTheorems, TLAPS

-----------------------------------------------------------------------------
(* update_rows. *)

(* The inductive invariant: types, the scan of the current row and the     *)
(* rows already passed.                                                    *)
ScanIInv == ScanTypeOK /\ ScanInv /\ PassedRowsNearest

LEMMA ScanInitially == ScanInit => ScanIInv
  <1> SUFFICES ASSUME ScanInit PROVE ScanIInv
    OBVIOUS
  <1> USE UpdateRowsAssumption
  <1>1. ScanTypeOK
    BY DEF ScanInit, ScanTypeOK, Clusters
  <1>2. ScanInv
    BY DEF ScanInit, ScanInv, NearestOf
  <1>3. PassedRowsNearest
    BY DEF ScanInit, PassedRowsNearest
  <1> QED BY <1>1, <1>2, <1>3 DEF ScanIInv

LEMMA ScanStep == ScanIInv /\ [ScanNext]_scanVars => ScanIInv'
  <1> SUFFICES ASSUME ScanIInv, [ScanNext]_scanVars PROVE ScanIInv'
    OBVIOUS
  <1> USE UpdateRowsAssumption
  <1>1. CASE Closer
    <2>1. row \in Rows /\ k \in Clusters /\ L2[row][k] \in Nat
      BY <1>1 DEF ScanIInv, ScanTypeOK, Closer, Rows, Clusters
    <2>2. ScanTypeOK'
      BY <1>1, <2>1 DEF ScanIInv, ScanTypeOK, Closer, Clusters
    <2>3. ASSUME NEW c \in 0 .. k - 1 PROVE L2[row][c] \in Nat /\ L2[row][k] < L2[row][c]
      <3>1. c \in Clusters /\ closest \in Clusters /\ row # Last
        BY <1>1, <2>1 DEF ScanIInv, ScanTypeOK, Closer, Clusters
      <3>2. L2[row][c] \in Nat /\ L2[row][closest] \in Nat
        BY <2>1, <3>1
      <3>3. CASE distance = FloatMax /\ FloatMax <= L2[row][c]
        BY <1>1, <2>1, <3>2, <3>3 DEF Closer
      <3>4. CASE distance = L2[row][closest] /\ distance < FloatMax
        <4>1. L2[row][closest] <= L2[row][c]
          BY <2>1, <3>1, <3>2, <3>4 DEF ScanIInv, ScanInv, NearestOf
        <4> QED BY <1>1, <2>1, <3>2, <3>4, <4>1 DEF Closer
      <3> QED BY <3>1, <3>3, <3>4 DEF ScanIInv, ScanInv
    <2>4. L2[row][k] < FloatMax
      BY <1>1, <2>1 DEF ScanIInv, ScanTypeOK, ScanInv, Closer
    <2>5. ScanInv'
      <3>1. NearestOf(row, k, k + 1)
        BY <2>1, <2>3, <2>4 DEF NearestOf, Clusters
      <3> QED BY <1>1, <2>1, <2>4, <3>1 DEF Closer, ScanInv, NearestOf, Clusters
    <2>6. PassedRowsNearest'
      BY <1>1 DEF ScanIInv, PassedRowsNearest, Closer, NearestOf
    <2> QED BY <2>2, <2>5, <2>6 DEF ScanIInv
  <1>2. CASE NotCloser
    <2>1. row \in Rows /\ k \in Clusters /\ L2[row][k] \in Nat
      BY <1>2 DEF ScanIInv, ScanTypeOK, NotCloser, Rows, Clusters
    <2>2. ScanTypeOK'
      BY <1>2, <2>1 DEF ScanIInv, ScanTypeOK, NotCloser, Clusters
    <2>3. distance <= L2[row][k]
      BY <1>2, <2>1 DEF ScanIInv, ScanTypeOK, NotCloser
    <2>4. NearestOf(row, closest, k + 1)
      <3>1. closest \in Clusters /\ row # Last /\ k \in Nat /\ L2[row][closest] \in Nat
        BY <1>2, <2>1 DEF ScanIInv, ScanTypeOK, NotCloser, Clusters
      <3>2. \A c \in 0 .. k : c \in 0 .. k - 1 \/ c = k
        BY <3>1
      <3>3. CASE /\ distance = FloatMax /\ closest = 0
                 /\ \A c \in 0 .. k - 1 : FloatMax <= L2[row][c]
        BY <2>3, <3>1, <3>2, <3>3 DEF NearestOf
      <3>4. CASE distance = L2[row][closest] /\ distance < FloatMax /\ closest < k
        <4>1. /\ closest \in 0 .. k - 1
              /\ \A c \in 0 .. k - 1 : L2[row][closest] <= L2[row][c]
              /\ \A c \in 0 .. closest - 1 : L2[row][closest] < L2[row][c]
          BY <3>1, <3>4 DEF ScanIInv, ScanInv, NearestOf, Clusters
        <4> QED BY <2>3, <3>1, <3>2, <3>4, <4>1 DEF NearestOf
      <3> QED BY <3>1, <3>3, <3>4 DEF ScanIInv, ScanInv
    <2>5. ScanInv'
      BY <1>2, <2>1, <2>3, <2>4 DEF ScanIInv, ScanTypeOK, ScanInv, NearestOf, NotCloser,
         Clusters
    <2>6. PassedRowsNearest'
      BY <1>2 DEF ScanIInv, PassedRowsNearest, NotCloser, NearestOf
    <2> QED BY <2>2, <2>5, <2>6 DEF ScanIInv
  <1>3. CASE StoreLabel
    <2>1. row \in Rows /\ NearestOf(row, closest, K)
      BY <1>3 DEF ScanIInv, ScanTypeOK, ScanInv, StoreLabel, Rows
    <2>2. ScanTypeOK'
      BY <1>3, <2>1 DEF ScanIInv, ScanTypeOK, StoreLabel, Clusters
    <2>3. ScanInv'
      BY <1>3 DEF StoreLabel, ScanInv, NearestOf
    <2>4. ASSUME NEW r \in First .. row' - 1 PROVE NearestOf(r, labels'[r], K)
      <3>1. r \in Rows /\ r <= row
        BY <1>3, <2>1 DEF ScanIInv, ScanTypeOK, StoreLabel, Rows
      <3>2. CASE r = row
        BY <1>3, <2>1, <3>2 DEF ScanIInv, ScanTypeOK, StoreLabel
      <3>3. CASE r # row
        <4>1. r \in First .. row - 1 /\ labels'[r] = labels[r]
          BY <1>3, <3>1, <3>3 DEF ScanIInv, ScanTypeOK, StoreLabel
        <4> QED BY <4>1 DEF ScanIInv, PassedRowsNearest
      <3> QED BY <3>2, <3>3
    <2>5. PassedRowsNearest'
      BY <2>4 DEF PassedRowsNearest, NearestOf
    <2> QED BY <2>2, <2>3, <2>5 DEF ScanIInv
  <1>4. CASE UNCHANGED scanVars
    BY <1>4 DEF scanVars, ScanIInv, ScanTypeOK, ScanInv, PassedRowsNearest, NearestOf
  <1> QED BY <1>1, <1>2, <1>3, <1>4 DEF ScanNext

LEMMA ScanInductive == ScanSpec => []ScanIInv
  BY ScanInitially, ScanStep, PTL DEF ScanSpec

(* The label of every row update_rows has passed is the first of its       *)
(* nearest centroids.                                                      *)
THEOREM RowsNearest == ScanSpec => []PassedRowsNearest
  <1>1. ScanIInv => PassedRowsNearest
    BY DEF ScanIInv
  <1> QED BY <1>1, ScanInductive, PTL

(* update_rows never writes a label of another thread's block. *)
THEOREM WritesBlockOnly == ScanSpec => BlockOnly
  <1> DEFINE Kept == \A r \in Rows \ Block : labels'[r] = labels[r]
  <1>1. ScanIInv /\ [ScanNext]_scanVars => [Kept]_scanVars
    <2> SUFFICES ASSUME ScanIInv, ScanNext PROVE Kept
      BY DEF scanVars
    <2> USE UpdateRowsAssumption
    <2>1. CASE Closer
      BY <2>1 DEF Closer
    <2>2. CASE NotCloser
      BY <2>2 DEF NotCloser
    <2>3. CASE StoreLabel
      BY <2>3 DEF StoreLabel, ScanIInv, ScanTypeOK, Rows, Block
    <2> QED BY <2>1, <2>2, <2>3 DEF ScanNext
  <1> QED BY <1>1, ScanInductive, PTL DEF ScanSpec, BlockOnly

-----------------------------------------------------------------------------
(* for_each_index. *)

Active == {t \in Tasks : stage[t] \notin {"none", "exited"}}

(* The indices that task t has claimed and not called the body with yet. *)
HasChunk(t) == stage[t] \in {"coarse_rows", "fine_rows"}
InChunk(t, i) == HasChunk(t) /\ x[t] <= i /\ i < e0[t]

SpawnInv ==
    /\ parent \in {"enter", "inline"} => spawned = 0 /\ next = 0
    /\ parent \in {"spawn", "join"} => size > 0 /\ spawned <= Width
    /\ parent = "join" => spawned = Width
    /\ \A t \in Tasks : stage[t] = "none" <=> t >= spawned

(* What a task has loaded or claimed lies below the shared index, and two  *)
(* claims are apart.  A task gives up only when all indices are claimed.   *)
ClaimInv ==
    /\ \A t \in Tasks :
          /\ s0[t] <= next
          /\ stage[t] \in {"tear_down", "exited"} => next >= size
          /\ HasChunk(t) => x[t] <= e0[t] /\ e0[t] <= next /\ e0[t] <= size
    /\ \A t, u \in Tasks : HasChunk(t) /\ HasChunk(u) /\ t # u =>
          e0[t] <= x[u] \/ e0[u] <= x[t]

(* An index was called once if it was claimed and is in no task's chunk. *)
CallInv ==
    IF parent = "returned"
    THEN Active = {} /\ \A i \in 0 .. size - 1 : calls[i] = 1
    ELSE \A i \in 0 .. size - 1 :
            calls[i] = IF i >= next \/ \E t \in Tasks : InChunk(t, i) THEN 0 ELSE 1

CountInv == join_counter = Cardinality(Active)

ForEachIInv == ForEachTypeOK /\ SpawnInv /\ ClaimInv /\ CallInv /\ CountInv

-----------------------------------------------------------------------------
LEMMA TaskFacts ==
    /\ NumWorkers \in Nat \ {0} /\ ChunkSize \in Nat \ {0} /\ Sizes \subseteq Nat
    /\ Tasks \subseteq Nat /\ IsFiniteSet(Tasks) /\ Cardinality(Tasks) = NumWorkers
  <1>1. 0 \in Int /\ NumWorkers - 1 \in Int /\ ~ (0 > NumWorkers - 1)
    BY ForEachAssumption
  <1>2. IsFiniteSet(0 .. NumWorkers - 1) /\ Cardinality(0 .. NumWorkers - 1) = NumWorkers - 1 - 0 + 1
    BY <1>1, FS_Interval
  <1> QED BY <1>1, <1>2, ForEachAssumption DEF Tasks

LEMMA ActiveCount ==
    /\ IsFiniteSet(Active) /\ Cardinality(Active) \in 0 .. NumWorkers
  <1>1. Active \in SUBSET Tasks
    BY DEF Active
  <1>2. IsFiniteSet(Active) /\ Cardinality(Active) <= Cardinality(Tasks)
    BY <1>1, TaskFacts, FS_Subset
  <1>3. Cardinality(Active) \in Nat
    BY <1>2, FS_CardinalityType
  <1> QED BY <1>2, <1>3, TaskFacts

(* A coarse claim is not empty and ends at the last index at most. *)
LEMMA CoarseEnd ==
    ASSUME NEW n \in Nat, NEW s \in Nat, s < n, NEW q \in Int, ChunkSize <= q,
           NEW end, end = IF q <= n - s THEN s + q ELSE n
    PROVE  end \in Nat /\ s < end /\ end <= n
  BY TaskFacts

LEMMA WidthType == ASSUME size \in Nat PROVE Width \in Nat /\ Width <= NumWorkers /\ Width <= size
  BY TaskFacts DEF Width

LEMMA CoarseSizesType ==
    ASSUME ForEachTypeOK, SpawnInv, parent \in {"spawn", "join"}, NEW t \in Tasks, s0[t] < size,
           NEW q \in CoarseSizes(t)
    PROVE  q \in Int /\ ChunkSize <= q
  <1>1. size \in Nat /\ size > 0 /\ s0[t] \in Nat
    BY TaskFacts DEF ForEachTypeOK, SpawnInv
  <1>2. Left(t) \in Nat
    BY <1>1 DEF Left
  <1>3. 2 * Width \in Nat \ {0}
    BY <1>1, TaskFacts DEF Width
  <1> DEFINE d == 2 * Width
  <1> HIDE DEF d
  <1>4. Left(t) \div d \in Int
    BY <1>2, <1>3 DEF d
  <1> QED BY <1>4, TaskFacts DEF CoarseSizes, d

-----------------------------------------------------------------------------
LEMMA ForEachInitially == ForEachInit => ForEachIInv
  <1> SUFFICES ASSUME ForEachInit PROVE ForEachIInv
    OBVIOUS
  <1> USE TaskFacts
  <1>1. ForEachTypeOK
    BY DEF ForEachInit, ForEachTypeOK
  <1>2. Active = {} /\ Cardinality(Active) = 0
    BY FS_EmptySet DEF ForEachInit, Active
  <1>3. SpawnInv /\ ClaimInv /\ CallInv
    BY DEF ForEachInit, SpawnInv, ClaimInv, CallInv, HasChunk, Tasks
  <1> QED BY <1>1, <1>2, <1>3 DEF ForEachIInv, CountInv, ForEachInit

-----------------------------------------------------------------------------
(* The spawning task. *)

LEMMA StepEnter == ForEachIInv /\ Enter => ForEachIInv'
  <1> SUFFICES ASSUME ForEachIInv, Enter PROVE ForEachIInv'
    OBVIOUS
  <1>1. Active' = Active
    BY DEF Enter, Active
  <1>2. size \in Nat /\ Width \in Nat /\ Width' = Width
    BY TaskFacts, WidthType DEF Enter, ForEachIInv, ForEachTypeOK, Width
  <1>3. SpawnInv'
    BY <1>2, TaskFacts DEF Enter, ForEachIInv, SpawnInv
  <1> QED BY <1>1, <1>3 DEF Enter, ForEachIInv, ForEachTypeOK, ClaimInv, CallInv,
      CountInv, HasChunk, InChunk, chunk

LEMMA StepRunInline == ForEachIInv /\ RunInline => ForEachIInv'
  <1> SUFFICES ASSUME ForEachIInv, RunInline PROVE ForEachIInv'
    OBVIOUS
  <1>1. Active = {} /\ Active' = Active
    BY TaskFacts DEF RunInline, Active, ForEachIInv, SpawnInv, ForEachTypeOK, Tasks
  <1>2. /\ \A i \in 0 .. size - 1 : calls[i] = 0
        /\ calls \in [0 .. size - 1 -> Nat]
    BY TaskFacts DEF RunInline, ForEachIInv, SpawnInv, CallInv, ForEachTypeOK
  <1>3. calls' = [i \in 0 .. size - 1 |-> calls[i] + 1]
    BY <1>2 DEF RunInline
  <1>4. calls' \in [0 .. size - 1 -> Nat] /\ \A i \in 0 .. size - 1 : calls'[i] = 1
    BY <1>2, <1>3
  <1> QED BY <1>1, <1>4 DEF RunInline, ForEachIInv, ForEachTypeOK, SpawnInv,
      ClaimInv, CallInv, CountInv,
          HasChunk, InChunk, chunk

LEMMA StepSpawnTask == ForEachIInv /\ SpawnTask => ForEachIInv'
  <1> SUFFICES ASSUME ForEachIInv, SpawnTask PROVE ForEachIInv'
    OBVIOUS
  <1> USE TaskFacts
  <1>1. spawned \in Tasks /\ spawned + 1 \in 0 .. NumWorkers /\ spawned + 1 <= Width
    BY WidthType DEF SpawnTask, ForEachIInv, ForEachTypeOK, Tasks
  <1>2. stage[spawned] = "none" /\ stage'[spawned] = "queued"
        /\ \A t \in Tasks \ {spawned} : stage'[t] = stage[t]
    BY <1>1 DEF SpawnTask, ForEachIInv, ForEachTypeOK, SpawnInv
  <1>3. Active' = Active \cup {spawned} /\ spawned \notin Active
    BY <1>1, <1>2 DEF Active
  <1>4. /\ Cardinality(Active') = Cardinality(Active) + 1
        /\ Cardinality(Active') \in 0 .. NumWorkers
    <2>1. Cardinality(Active') = Cardinality(Active) + 1
      BY <1>3, ActiveCount, FS_AddElement
    <2>2. IsFiniteSet(Active') /\ Cardinality(Active') <= Cardinality(Tasks)
      <3>1. Active' \in SUBSET Tasks
        BY DEF Active
      <3> QED BY <3>1, TaskFacts, FS_Subset
    <2> QED BY <2>1, <2>2, ActiveCount, TaskFacts
  <1>5. ForEachTypeOK'
    BY <1>1, <1>4 DEF SpawnTask, ForEachIInv, ForEachTypeOK, CountInv, chunk
  <1>6. SpawnInv'
    BY <1>1, <1>2 DEF SpawnTask, ForEachIInv, SpawnInv, ForEachTypeOK, Width
  <1>7. \A t \in Tasks : HasChunk(t)' <=> HasChunk(t)
    BY <1>2 DEF HasChunk
  <1>8. ClaimInv' /\ CallInv'
    BY <1>2, <1>7 DEF SpawnTask, ForEachIInv, ClaimInv, CallInv, InChunk, chunk
  <1> QED BY <1>4, <1>5, <1>6, <1>8 DEF SpawnTask, ForEachIInv, CountInv

LEMMA StepAllSpawned == ForEachIInv /\ AllSpawned => ForEachIInv'
  <1> SUFFICES ASSUME ForEachIInv, AllSpawned PROVE ForEachIInv'
    OBVIOUS
  <1>1. Active' = Active
    BY DEF AllSpawned, Active
  <1>2. spawned = Width /\ Width' = Width
    BY WidthType, TaskFacts DEF AllSpawned, ForEachIInv, ForEachTypeOK, SpawnInv, Width
  <1> QED BY <1>1, <1>2 DEF AllSpawned, ForEachIInv, ForEachTypeOK, SpawnInv,
      ClaimInv, CallInv, CountInv,
          HasChunk, InChunk, chunk

(* No task is active, and the first of them left when all was claimed. *)
LEMMA StepJoined == ForEachIInv /\ Joined => ForEachIInv'
  <1> SUFFICES ASSUME ForEachIInv, Joined PROVE ForEachIInv'
    OBVIOUS
  <1> USE TaskFacts
  <1>1. Active = {}
    BY ActiveCount, FS_EmptySet DEF Joined, ForEachIInv, CountInv
  <1>2. Active' = Active
    BY DEF Joined, Active
  <1>3. 0 \in Tasks /\ spawned > 0
    BY DEF Joined, ForEachIInv, SpawnInv, ForEachTypeOK, Width, Tasks
  <1>4. next >= size
    BY <1>1, <1>3 DEF Active, ForEachIInv, SpawnInv, ClaimInv, ForEachTypeOK
  <1>5. \A i \in 0 .. size - 1 : calls[i] = 1
    <2>1. \A t \in Tasks : ~ HasChunk(t)
      BY <1>1 DEF Active, HasChunk
    <2>2. next \in Int /\ size \in Int
      BY DEF ForEachIInv, ForEachTypeOK
    <2> QED BY <1>4, <2>1, <2>2 DEF Joined, ForEachIInv, CallInv, InChunk
  <1> QED BY <1>1, <1>2, <1>5 DEF Joined, ForEachIInv, ForEachTypeOK, SpawnInv,
      ClaimInv, CallInv, CountInv,
          HasChunk, InChunk, chunk

-----------------------------------------------------------------------------
(* The tasks. *)

LEMMA ParentWaits ==
    ASSUME ForEachIInv, NEW t \in Tasks, stage[t] \notin {"none", "exited"}
    PROVE  parent \in {"spawn", "join"}
  <1>1. parent # "returned"
    BY DEF ForEachIInv, CallInv, Active
  <1>2. t < spawned /\ t \in Nat /\ spawned \in Nat
    BY TaskFacts DEF ForEachIInv, SpawnInv, ForEachTypeOK
  <1> QED BY <1>1, <1>2 DEF ForEachIInv, SpawnInv, ForEachTypeOK

(* Steps after which t has no chunk and that claim no index: the shared    *)
(* index moves only when it is past the end.                               *)
LEMMA StepMove ==
    ASSUME ForEachIInv, NEW t \in Tasks, stage[t] \notin {"none", "exited"},
           UNCHANGED <<size, parent, spawned, join_counter, calls>>,
           next' \in Nat, next' = next \/ (next >= size /\ next < next'),
           s0' \in [Tasks -> Nat], \A u \in Tasks : s0'[u] <= next',
           e0' \in [Tasks -> Nat], \A u \in Tasks \ {t} : e0'[u] = e0[u],
           x' \in [Tasks -> Nat], \A u \in Tasks \ {t} : x'[u] = x[u],
           NEW place \in {"loop", "tear_down", "fine"},
           stage' = [stage EXCEPT ![t] = place],
           HasChunk(t) => x[t] >= e0[t],
           place = "tear_down" => next >= size
    PROVE  ForEachIInv'
  <1> USE TaskFacts
  <1>1. ForEachTypeOK'
    BY DEF ForEachIInv, ForEachTypeOK
  <1>2. stage'[t] = place /\ \A u \in Tasks \ {t} : stage'[u] = stage[u]
    BY DEF ForEachIInv, ForEachTypeOK
  <1>3. Active' = Active
    BY <1>2 DEF Active
  <1>4. SpawnInv'
    BY <1>2, ParentWaits DEF ForEachIInv, SpawnInv, ForEachTypeOK, Width
  <1>5. \A u \in Tasks : HasChunk(u)' => HasChunk(u) /\ u # t
    BY <1>2 DEF HasChunk
  <1>6. next \in Nat /\ size \in Nat /\ e0 \in [Tasks -> Nat] /\ x \in [Tasks -> Nat]
    BY DEF ForEachIInv, ForEachTypeOK
  <1>7. ClaimInv'
    BY <1>2, <1>5, <1>6 DEF ForEachIInv, ClaimInv
  <1>8. CallInv'
    <2>1. \A u \in Tasks, i \in 0 .. size - 1 : InChunk(u, i)' <=> InChunk(u, i)
      BY <1>2, <1>6 DEF InChunk, HasChunk
    <2>2. \A i \in 0 .. size - 1 : i >= next' <=> i >= next
      BY <1>6
    <2> QED BY <1>3, <2>1, <2>2 DEF ForEachIInv, CallInv
  <1> QED BY <1>1, <1>3, <1>4, <1>7, <1>8 DEF ForEachIInv, CountInv

(* Steps that claim the indices from next on for t. *)
LEMMA StepClaim ==
    ASSUME ForEachIInv, NEW t \in Tasks, stage[t] \in {"loop", "fine"}, next < size,
           UNCHANGED <<size, parent, spawned, join_counter, calls>>,
           next' \in Nat, next < next',
           s0' \in [Tasks -> Nat], \A u \in Tasks : s0'[u] <= next',
           NEW end \in Nat, next < end, end <= next', end <= size,
           end < next' => next' >= size /\ end = size,
           e0' = [e0 EXCEPT ![t] = end],
           x' = [x EXCEPT ![t] = next],
           NEW place \in {"coarse_rows", "fine_rows"},
           stage' = [stage EXCEPT ![t] = place]
    PROVE  ForEachIInv'
  <1> USE TaskFacts
  <1>1. ForEachTypeOK'
    BY DEF ForEachIInv, ForEachTypeOK
  <1>2. /\ stage'[t] = place /\ e0'[t] = end /\ x'[t] = next
        /\ \A u \in Tasks \ {t} : stage'[u] = stage[u] /\ e0'[u] = e0[u] /\ x'[u] = x[u]
    BY DEF ForEachIInv, ForEachTypeOK
  <1>3. Active' = Active /\ t \in Active /\ parent # "returned"
    BY <1>2 DEF Active, ForEachIInv, CallInv
  <1>4. parent \in {"spawn", "join"}
    BY ParentWaits
  <1>5. SpawnInv'
    BY <1>2, <1>4 DEF ForEachIInv, SpawnInv, ForEachTypeOK, Width
  <1>6. \A u \in Tasks \ {t} : HasChunk(u)' <=> HasChunk(u)
    BY <1>2 DEF HasChunk
  <1>7. next \in Nat /\ size \in Nat /\ e0 \in [Tasks -> Nat] /\ x \in [Tasks -> Nat]
    BY DEF ForEachIInv, ForEachTypeOK
  <1>8. ClaimInv'
    <2>1. \A u \in Tasks :
             /\ s0'[u] <= next'
             /\ stage'[u] \in {"tear_down", "exited"} => next' >= size
             /\ HasChunk(u)' => x'[u] <= e0'[u] /\ e0'[u] <= next' /\ e0'[u] <= size
      BY <1>2, <1>6, <1>7 DEF ForEachIInv, ClaimInv
    <2>2. \A u \in Tasks \ {t} : HasChunk(u) => e0'[u] <= x'[t]
      BY <1>2, <1>7 DEF ForEachIInv, ClaimInv
    <2>3. \A u, v \in Tasks : HasChunk(u)' /\ HasChunk(v)' /\ u # v =>
             e0'[u] <= x'[v] \/ e0'[v] <= x'[u]
      BY <1>2, <1>6, <2>2 DEF ForEachIInv, ClaimInv
    <2> QED BY <2>1, <2>3 DEF ClaimInv
  <1>9. CallInv'
    <2>1. ASSUME NEW i \in 0 .. size - 1
          PROVE  (i >= next' \/ \E u \in Tasks : InChunk(u, i)') <=>
                 (i >= next \/ \E u \in Tasks : InChunk(u, i))
      <3>1. InChunk(t, i)' <=> next <= i /\ i < end
        BY <1>2 DEF InChunk, HasChunk
      <3>2. ~ InChunk(t, i)
        BY DEF InChunk, HasChunk
      <3>3. \A u \in Tasks \ {t} : InChunk(u, i)' <=> InChunk(u, i)
        BY <1>2, <1>6 DEF InChunk
      <3>4. i >= next <=> i >= next' \/ (next <= i /\ i < end)
        BY <1>7
      <3> QED BY <3>1, <3>2, <3>3, <3>4
    <2> QED BY <1>3, <2>1 DEF ForEachIInv, CallInv
  <1> QED BY <1>1, <1>3, <1>5, <1>8, <1>9 DEF ForEachIInv, CountInv

LEMMA StepCallNext == ASSUME ForEachIInv, NEW t \in Tasks, CallNext(t) PROVE ForEachIInv'
  <1> USE TaskFacts
  <1>1. HasChunk(t) /\ x[t] < e0[t] /\ x[t] \in Nat /\ e0[t] \in Nat /\ next \in Nat /\ size \in Nat
    BY DEF CallNext, HasChunk, ForEachIInv, ForEachTypeOK
  <1>2. x[t] \in 0 .. size - 1 /\ x[t] < next /\ InChunk(t, x[t])
    BY <1>1 DEF ForEachIInv, ClaimInv, InChunk
  <1>3. Active' = Active /\ t \in Active /\ parent # "returned"
    BY <1>1 DEF CallNext, Active, HasChunk, ForEachIInv, CallInv
  <1>4. ForEachTypeOK'
    <2>1. x' \in [Tasks -> Nat]
      BY <1>1 DEF CallNext, ForEachIInv, ForEachTypeOK
    <2>2. calls' \in [0 .. size - 1 -> Nat]
      BY <1>2 DEF CallNext, CallBody, ForEachIInv, ForEachTypeOK
    <2> QED BY <2>1, <2>2 DEF CallNext, ForEachIInv, ForEachTypeOK
  <1>5. x'[t] = x[t] + 1 /\ \A u \in Tasks \ {t} : x'[u] = x[u]
    BY DEF CallNext, ForEachIInv, ForEachTypeOK
  <1>6. \A u \in Tasks : HasChunk(u)' <=> HasChunk(u)
    BY DEF CallNext, HasChunk
  <1>7. SpawnInv'
    BY DEF CallNext, ForEachIInv, SpawnInv, Width
  <1>8. ClaimInv'
    <2>1. \A u \in Tasks : HasChunk(u) => x'[u] <= e0[u]
      BY <1>1, <1>5 DEF ForEachIInv, ClaimInv
    <2>2. \A u, v \in Tasks : HasChunk(u) /\ HasChunk(v) /\ u # v => e0[u] <= x'[v] \/ e0[v] <= x'[u]
      <3> SUFFICES ASSUME NEW u \in Tasks, NEW v \in Tasks, HasChunk(u), HasChunk(v), u # v
                   PROVE  e0[u] <= x'[v] \/ e0[v] <= x'[u]
        OBVIOUS
      <3>1. e0[u] <= x[v] \/ e0[v] <= x[u]
        BY DEF ForEachIInv, ClaimInv
      <3>2. e0 \in [Tasks -> Nat] /\ x \in [Tasks -> Nat]
        BY DEF ForEachIInv, ForEachTypeOK
      <3>3. x'[u] \in Nat /\ x'[v] \in Nat /\ x[u] <= x'[u] /\ x[v] <= x'[v]
        BY <1>5, <3>2
      <3> QED BY <3>1, <3>2, <3>3
    <2> QED BY <1>6, <2>1, <2>2 DEF CallNext, ForEachIInv, ClaimInv
  <1>9. CallInv'
    <2>1. ASSUME NEW i \in 0 .. size - 1, i # x[t]
          PROVE  \A u \in Tasks : InChunk(u, i)' <=> InChunk(u, i)
      BY <1>1, <1>5, <1>6, <2>1 DEF CallNext, InChunk
    <2>2. ASSUME NEW u \in Tasks, NEW i, i = x[t] PROVE ~ InChunk(u, i)'
      <3>1. CASE u = t
        <4>1. ~ (x'[t] <= x[t])
          BY <1>1, <1>5
        <4> QED BY <2>2, <3>1, <4>1 DEF InChunk
      <3>2. CASE u # t
        <4>1. e0' = e0 /\ e0 \in [Tasks -> Nat] /\ x \in [Tasks -> Nat] /\ x'[u] = x[u]
          BY <1>5, <3>2 DEF CallNext, ForEachIInv, ForEachTypeOK
        <4>2. HasChunk(u) => e0[t] <= x[u] \/ e0[u] <= x[t]
          BY <1>1, <3>2 DEF ForEachIInv, ClaimInv
        <4>3. ~ (HasChunk(u) /\ x[u] <= x[t] /\ x[t] < e0[u])
          BY <1>1, <4>1, <4>2
        <4> QED BY <1>6, <2>2, <4>1, <4>3 DEF InChunk
      <3> QED BY <3>1, <3>2
    <2>3. calls[x[t]] = 0 /\ calls \in [0 .. size - 1 -> Nat]
      BY <1>2, <1>3 DEF ForEachIInv, CallInv, ForEachTypeOK
    <2>4. calls'[x[t]] = 1 /\ \A i \in 0 .. size - 1 : i # x[t] => calls'[i] = calls[i]
      BY <1>2, <2>3 DEF CallNext, CallBody
    <2>5. \A i \in 0 .. size - 1 :
             calls'[i] = IF i >= next \/ \E u \in Tasks : InChunk(u, i)' THEN 0 ELSE 1
      <3> SUFFICES ASSUME NEW i \in 0 .. size - 1
                   PROVE  calls'[i] = IF i >= next \/ \E u \in Tasks : InChunk(u, i)' THEN 0 ELSE 1
        OBVIOUS
      <3>1. CASE i = x[t]
        <4>1. ~ (i >= next)
          BY <1>1, <1>2, <3>1
        <4>2. ~ \E u \in Tasks : InChunk(u, i)'
          BY <2>2, <3>1
        <4> QED BY <2>4, <3>1, <4>1, <4>2
      <3>2. CASE i # x[t]
        BY <1>3, <2>1, <2>4, <3>2 DEF ForEachIInv, CallInv
      <3> QED BY <3>1, <3>2
    <2> QED BY <1>3, <2>5 DEF CallNext, CallInv
  <1> QED BY <1>3, <1>4, <1>7, <1>8, <1>9 DEF CallNext, ForEachIInv, CountInv

LEMMA StepTearDown == ASSUME ForEachIInv, NEW t \in Tasks, TearDown(t) PROVE ForEachIInv'
  <1> USE TaskFacts
  <1>1. stage[t] = "tear_down" /\ stage'[t] = "exited" /\ \A u \in Tasks \ {t} : stage'[u] = stage[u]
    BY DEF TearDown, ForEachIInv, ForEachTypeOK
  <1>2. Active' = Active \ {t} /\ t \in Active
    BY <1>1 DEF Active
  <1>3. Cardinality(Active') = Cardinality(Active) - 1
    BY <1>2, ActiveCount, FS_RemoveElement
  <1>4. Cardinality(Active') \in 0 .. NumWorkers
    <2>1. IsFiniteSet(Active \ {t})
      BY ActiveCount, FS_RemoveElement
    <2>2. Cardinality(Active') \in Nat
      BY <1>2, <2>1, FS_CardinalityType
    <2> QED BY <1>3, <2>2, ActiveCount
  <1>5. ForEachTypeOK'
    BY <1>3, <1>4 DEF TearDown, ForEachIInv, ForEachTypeOK, CountInv, chunk
  <1>6. SpawnInv'
    BY <1>1 DEF TearDown, ForEachIInv, SpawnInv, Width
  <1>7. \A u \in Tasks : HasChunk(u)' <=> HasChunk(u)
    BY <1>1 DEF HasChunk
  <1>8. ClaimInv' /\ parent # "returned"
    BY <1>1, <1>2, <1>7 DEF TearDown, ForEachIInv, ClaimInv, CallInv, chunk
  <1>9. CallInv'
    BY <1>7, <1>8 DEF TearDown, ForEachIInv, CallInv, InChunk, chunk
  <1> QED BY <1>3, <1>5, <1>6, <1>8, <1>9 DEF TearDown, ForEachIInv, CountInv

-----------------------------------------------------------------------------
LEMMA StepTask == ASSUME ForEachIInv, NEW t \in Tasks, Task(t) PROVE ForEachIInv'
  <1> USE TaskFacts
  <1>1. /\ next \in Nat /\ size \in Nat /\ s0 \in [Tasks -> Nat] /\ \A u \in Tasks : s0[u] <= next
        /\ e0 \in [Tasks -> Nat] /\ x \in [Tasks -> Nat]
    BY DEF ForEachIInv, ForEachTypeOK, ClaimInv
  <1>2. CASE LoadNext(t)
    <2>1. s0' \in [Tasks -> Nat] /\ \A u \in Tasks : s0'[u] <= next
      BY <1>1, <1>2 DEF LoadNext
    <2> QED BY <1>1, <1>2, <2>1, StepMove DEF LoadNext, HasChunk
  <1>3. CASE LeaveLoop(t)
    <2>1. next >= size
      BY <1>1, <1>3 DEF LeaveLoop
    <2> QED BY <1>1, <1>3, <2>1, StepMove DEF LeaveLoop, HasChunk, chunk
  <1>4. CASE ClaimCoarse(t)
    <2>1. parent \in {"spawn", "join"}
      BY <1>4, ParentWaits DEF ClaimCoarse
    <2>2. PICK q \in CoarseSizes(t) :
             LET end == IF q <= Left(t) THEN s0[t] + q ELSE size
             IN  next' = end /\ e0' = [e0 EXCEPT ![t] = end]
      BY <1>4 DEF ClaimCoarse
    <2>3. next = s0[t] /\ s0[t] < size /\ s0[t] \in Nat
      BY <1>1, <1>4 DEF ClaimCoarse
    <2>4. q \in Int /\ ChunkSize <= q
      BY <2>1, <2>3, CoarseSizesType DEF ForEachIInv
    <2>5. /\ next' = (IF q <= size - s0[t] THEN s0[t] + q ELSE size)
          /\ e0' = [e0 EXCEPT ![t] = next']
      BY <2>2 DEF Left
    <2>6. next' \in Nat /\ next < next' /\ next' <= size
      BY <1>1, <2>3, <2>4, <2>5, CoarseEnd
    <2>7. s0' = s0 /\ \A u \in Tasks : s0'[u] <= next'
      BY <1>1, <1>4, <2>6 DEF ClaimCoarse
    <2>8. /\ stage[t] = "loop" /\ stage' = [stage EXCEPT ![t] = "coarse_rows"]
          /\ x' = [x EXCEPT ![t] = next]
          /\ UNCHANGED <<size, parent, spawned, join_counter, calls>>
      BY <1>4, <2>3 DEF ClaimCoarse
    <2>9. s0' \in [Tasks -> Nat] /\ next < size
      BY <1>1, <2>3, <2>7
    <2> DEFINE end == next'
    <2>10. /\ end \in Nat /\ next < end /\ end <= next' /\ end <= size
           /\ end < next' => next' >= size /\ end = size
           /\ e0' = [e0 EXCEPT ![t] = end]
      BY <1>1, <2>5, <2>6
    <2> HIDE DEF end
    <2> QED BY <2>6, <2>7, <2>8, <2>9, <2>10, StepClaim
  <1>5. CASE MissCoarse(t)
    <2>1. s0' \in [Tasks -> Nat] /\ \A u \in Tasks : s0'[u] <= next
      BY <1>1, <1>5 DEF MissCoarse
    <2>2. stage' = [stage EXCEPT ![t] = "loop"]
      BY <1>5 DEF MissCoarse, ForEachIInv, ForEachTypeOK
    <2> QED BY <1>1, <1>5, <2>1, <2>2, StepMove DEF MissCoarse, HasChunk
  <1>6. CASE EnterFine(t)
    BY <1>1, <1>6, StepMove DEF EnterFine, HasChunk, chunk
  <1>7. CASE ClaimFine(t) /\ next < size
    <2> DEFINE end == IF ChunkSize <= size - next THEN next + ChunkSize ELSE size
    <2>1. next' = next + ChunkSize /\ e0' = [e0 EXCEPT ![t] = end]
      BY <1>7 DEF ClaimFine
    <2>2. end \in Nat /\ next < end /\ end <= next' /\ end <= size
          /\ (end < next' => next' >= size /\ end = size)
      BY <1>1, <1>7, <2>1
    <2>3. s0' \in [Tasks -> Nat] /\ \A u \in Tasks : s0'[u] <= next'
      BY <1>1, <1>7, <2>1 DEF ClaimFine
    <2>4. stage' = [stage EXCEPT ![t] = "fine_rows"]
      <3>1. ~ (next >= size)
        BY <1>1, <1>7
      <3> QED BY <1>7, <3>1, Zenon DEF ClaimFine
    <2>5. next' \in Nat /\ next < next'
      BY <1>1, <2>1
    <2> HIDE DEF end
    <2> QED BY <2>5, <1>1, <1>7, <2>1, <2>2, <2>3, <2>4, StepClaim DEF ClaimFine
  <1>8. CASE ClaimFine(t) /\ ~ next < size
    <2> DEFINE end == IF ChunkSize <= size - next THEN next + ChunkSize ELSE size
    <2>1. next >= size /\ next' = next + ChunkSize /\ end \in Nat
      BY <1>1, <1>8 DEF ClaimFine
    <2>2. e0' = [e0 EXCEPT ![t] = end]
      BY <1>8 DEF ClaimFine
    <2> HIDE DEF end
    <2>3. stage' = [stage EXCEPT ![t] = "tear_down"]
      BY <1>8, <2>1, Zenon DEF ClaimFine
    <2>4. s0' \in [Tasks -> Nat] /\ \A u \in Tasks : s0'[u] <= next'
      BY <1>1, <1>8, <2>1 DEF ClaimFine
    <2>5. /\ e0' \in [Tasks -> Nat] /\ \A u \in Tasks \ {t} : e0'[u] = e0[u]
          /\ x' \in [Tasks -> Nat] /\ \A u \in Tasks \ {t} : x'[u] = x[u]
      BY <1>1, <1>8, <2>1, <2>2 DEF ClaimFine, ForEachIInv, ForEachTypeOK
    <2>6. stage[t] = "fine" /\ UNCHANGED <<size, parent, spawned, join_counter, calls>>
      BY <1>8 DEF ClaimFine
    <2>7. next' \in Nat /\ (next' = next \/ (next >= size /\ next < next'))
      BY <1>1, <2>1
    <2>8. ~ HasChunk(t) /\ stage[t] \notin {"none", "exited"}
      BY <2>6 DEF HasChunk
    <2> QED BY <2>1, <2>3, <2>4, <2>5, <2>6, <2>7, <2>8, StepMove
  <1>9. CASE CallNext(t)
    BY <1>9, StepCallNext
  <1>10. CASE ChunkDone(t)
    <2>1. s0' \in [Tasks -> Nat] /\ \A u \in Tasks : s0'[u] <= next
      BY <1>1, <1>10 DEF ChunkDone
    <2>2. PICK place \in {"loop", "fine"} : stage' = [stage EXCEPT ![t] = place]
      BY <1>10 DEF ChunkDone
    <2> QED BY <1>1, <1>10, <2>1, <2>2, StepMove DEF ChunkDone
  <1>11. CASE TearDown(t)
    BY <1>11, StepTearDown
  <1> QED BY <1>2, <1>3, <1>4, <1>5, <1>6, <1>7, <1>8, <1>9, <1>10, <1>11 DEF Task

-----------------------------------------------------------------------------
LEMMA ForEachInductive == ForEachSpec => []ForEachIInv
  <1>1. ForEachIInv /\ [ForEachNext]_forEachVars => ForEachIInv'
    <2> SUFFICES ASSUME ForEachIInv, [ForEachNext]_forEachVars PROVE ForEachIInv'
      OBVIOUS
    <2>1. CASE Parent
      BY <2>1, StepEnter, StepRunInline, StepSpawnTask, StepAllSpawned,
         StepJoined DEF Parent
    <2>2. ASSUME NEW t \in Tasks, Task(t) PROVE ForEachIInv'
      BY <2>2, StepTask
    <2>3. CASE UNCHANGED forEachVars
      BY <2>3 DEF forEachVars, chunk, ForEachIInv, ForEachTypeOK, SpawnInv, ClaimInv,
         CallInv, CountInv, Active, HasChunk,
         InChunk, Width
    <2> QED BY <2>1, <2>2, <2>3 DEF ForEachNext
  <1> QED BY <1>1, ForEachInitially, PTL DEF ForEachSpec

(* Every variable keeps its type: the join counter counts no more than     *)
(* num_workers tasks and never goes below zero.                            *)
THEOREM ForEachTypeCorrect == ForEachSpec => []ForEachTypeOK
  <1>1. ForEachIInv => ForEachTypeOK
    BY DEF ForEachIInv
  <1> QED BY <1>1, ForEachInductive, PTL

(* The loop body is never called twice with one index. *)
THEOREM NoIndexTwice == ForEachSpec => []AtMostOnce
  <1>1. ForEachIInv => AtMostOnce
    <2> SUFFICES ASSUME ForEachIInv, NEW i \in 0 .. size - 1 PROVE calls[i] <= 1
      BY DEF AtMostOnce
    <2>1. calls[i] \in {0, 1}
      BY DEF ForEachIInv, CallInv
    <2> QED BY <2>1
  <1> QED BY <1>1, ForEachInductive, PTL

(* When the loop task returns, every index has had its call and no task    *)
(* can touch the shared index on its stack any more.                       *)
THEOREM NothingLeftAtReturn == ForEachSpec => []AllCalledAtReturn
  <1>1. ForEachIInv => AllCalledAtReturn
    BY DEF ForEachIInv, CallInv, Active, AllCalledAtReturn
  <1> QED BY <1>1, ForEachInductive, PTL

-----------------------------------------------------------------------------
(* The work-stealing deque. *)

Arrays == UNION {Array(c) : c \in 1 .. Capacity + 2 * MaxItems}

ArrayInv == arrays \in Seq(Arrays) /\ Current > 0

(* The items in the queue fit into the array. *)
BoundInv == top <= End /\ End <= pushed /\ End - top <= Size(Current)

(* What the owner's local copies are good for, place by place. *)
OwnerInv ==
    /\ at[Owner] \in {"idle", "resize", "store", "publish", "pop", "race", "restore"}
    /\ at[Owner] \in {"resize", "store", "publish"} => pushed < MaxItems
    /\ at[Owner] = "resize" => seen[Owner] <= top /\ bottom - seen[Owner] = Size(Current)
    /\ at[Owner] \in {"store", "publish"} => bottom - top < Size(Current)
    /\ at[Owner] = "publish" => Slot(Current, bottom) = pushed + 1
    /\ at[Owner] = "race" =>
          /\ seen[Owner] = bottom /\ bottom <= top
          /\ item[Owner] = Slot(Current, bottom)
    /\ at[Owner] = "restore" => top = End

(* As long as _top is what the thief saw, it sees the item there: in the   *)
(* array it loaded, replaced or not, and then in its local copy.           *)
ThiefSees(t) ==
    /\ at[t] \in {"idle", "bottom", "array", "slot", "swap"}
    /\ at[t] # "idle" => seen[t] <= top
    /\ at[t] \in {"array", "slot", "swap"} /\ seen[t] = top =>
          /\ top < End
          /\ at[t] = "slot" => Slot(array[t], top) = Slot(Current, top)
          /\ at[t] = "swap" => item[t] = Slot(Current, top)

ThiefInv == \A t \in Thieves : ThiefSees(t)

(* Each item pushed is in the queue once, or was handed out. *)
ContentInv ==
    /\ \A i \in top .. End - 1 :
          Slot(Current, i) \in 1 .. pushed /\ holder[Slot(Current, i)] = Nobody
    /\ \A i, j \in top .. End - 1 : Slot(Current, i) = Slot(Current, j) => i = j
    /\ \A o \in 1 .. pushed : holder[o] = Nobody =>
          \E i \in top .. End - 1 : Slot(Current, i) = o
    /\ \A o \in Items : o > pushed => holder[o] = Nobody

IInv == TypeOK /\ ArrayInv /\ BoundInv /\ OwnerInv /\ ThiefInv /\ ContentInv

-----------------------------------------------------------------------------
(* Indices less than n apart have slots of their own in n slots. *)
LEMMA ModApart ==
    ASSUME NEW n \in Nat \ {0}, NEW i \in Int, NEW j \in Int, i < j, j - i < n
    PROVE  i % n # j % n
  <1> SUFFICES ASSUME i % n = j % n PROVE FALSE
    OBVIOUS
  <1> DEFINE p == i \div n
             q == j \div n
  <1>1. p \in Int /\ q \in Int /\ i = n * p + (i % n) /\ j = n * q + (j % n)
    OBVIOUS
  <1> HIDE DEF p, q
  <1>2. j - i = n * (q - p)
    BY <1>1
  <1>3. q - p <= 0 \/ q - p >= 1
    BY <1>1
  <1>4. n * (q - p) <= 0 \/ n * (q - p) >= n
    BY <1>1, <1>3
  <1> QED BY <1>2, <1>4

LEMMA ModRange == ASSUME NEW n \in Nat \ {0}, NEW i \in Int PROVE i % n \in 0 .. n - 1
  OBVIOUS

LEMMA ArrayType ==
    ASSUME NEW a \in Arrays
    PROVE  /\ a.C \in 1 .. Capacity + 2 * MaxItems /\ a.C \in Nat \ {0} /\ a \in Array(a.C)
           /\ a.S \in [0 .. a.C - 1 -> Items \cup {Nobody}]
  BY TaskQueueAssumption DEF Arrays, Array

LEMMA SlotType ==
    ASSUME ArrayInv, NEW a \in 1 .. Current
    PROVE  /\ arrays[a] \in Arrays /\ Size(a) \in Nat \ {0}
           /\ \A i \in Int : Slot(a, i) \in Items \cup {Nobody}
  <1>1. arrays[a] \in Arrays
    BY DEF ArrayInv, Current
  <1>2. Size(a) \in Nat \ {0} /\ arrays[a].S \in [0 .. Size(a) - 1 -> Items \cup {Nobody}]
    BY <1>1, ArrayType DEF Size
  <1> QED BY <1>1, <1>2, ModRange DEF Slot

LEMMA CurrentType == ASSUME ArrayInv PROVE Current \in Nat /\ Current \in 1 .. Current
  BY DEF ArrayInv, Current

LEMMA Types ==
    ASSUME IInv
    PROVE  /\ Size(Current) \in Nat \ {0} /\ top \in Nat /\ bottom \in Int /\ End \in Nat
           /\ pushed \in Nat /\ MaxItems \in Nat /\ bottom + 1 >= End /\ bottom <= End
           /\ \A i \in Int : Slot(Current, i) \in Items \cup {Nobody}
           /\ Owner \notin Thieves /\ Nobody \notin Threads
  BY CurrentType, SlotType, TaskQueueAssumption DEF IInv, TypeOK, BoundInv, End, Threads

(* What TypeOK says of the arrays follows from ArrayInv. *)
LEMMA ArraysTyped ==
    ArrayInv => \A a \in 1 .. Current :
                   Size(a) \in 1 .. Capacity + 2 * MaxItems /\ arrays[a] \in Array(Size(a))
  BY SlotType, ArrayType DEF Size

LEMMA ArraysTypedNext ==
    ArrayInv' => \A a \in 1 .. Current' :
                    Size(a)' \in 1 .. Capacity + 2 * MaxItems /\ arrays'[a] \in Array(Size(a)')
  BY ArrayType DEF ArrayInv, Current, Size

-----------------------------------------------------------------------------
LEMMA InitIInv == Init => IInv
  <1> SUFFICES ASSUME Init PROVE IInv
    OBVIOUS
  <1> USE TaskQueueAssumption
  <1> DEFINE first == [C |-> Capacity, S |-> [i \in 0 .. Capacity - 1 |-> Nobody]]
  <1>1. first \in Array(Capacity)
    BY DEF Array
  <1>2. Capacity \in 1 .. Capacity + 2 * MaxItems
    OBVIOUS
  <1>3. first \in Arrays
    BY <1>1, <1>2 DEF Arrays
  <1> HIDE DEF first
  <1>4. arrays = <<first>>
    BY DEF Init, first
  <1>5. Len(arrays) = 1 /\ arrays \in Seq(Arrays) /\ arrays[1] = first
    BY <1>3, <1>4
  <1>6. ArrayInv /\ Current = 1 /\ Size(Current) = Capacity
    BY <1>5 DEF ArrayInv, Current, Size, first
  <1>7. top = 0 /\ bottom = 0 /\ at[Owner] = "idle" /\ End = 0
    BY DEF Init, End, Threads
  <1>8. TypeOK
    BY <1>6, ArraysTyped DEF Init, TypeOK, Threads, Current
  <1>9. BoundInv /\ OwnerInv /\ ThiefInv
    BY <1>6, <1>7 DEF Init, BoundInv, OwnerInv, ThiefInv, ThiefSees, Threads
  <1>10. ContentInv
    BY <1>7 DEF Init, ContentInv, Items
  <1> QED BY <1>6, <1>8, <1>9, <1>10 DEF IInv

-----------------------------------------------------------------------------
(* Steps that leave the queue as it is. *)
LEMMA QueueKept ==
    ASSUME IInv, UNCHANGED <<top, arrays, history>>, End' = End
    PROVE  ArrayInv' /\ BoundInv' /\ ContentInv' /\ Content' = Content
  <1>1. ArrayInv' /\ BoundInv'
    BY DEF IInv, ArrayInv, BoundInv, Current, Size, history
  <1>2. ContentInv'
    BY DEF IInv, ContentInv, Current, Size, Slot, history
  <1>3. Content' = Content
    BY DEF Content, Current, Size, Slot
  <1> QED BY <1>1, <1>2, <1>3

(* What a thief that does not move knows stays true while _top stays. *)
LEMMA ThiefKept ==
    ASSUME IInv, NEW t \in Thieves, UNCHANGED <<top, arrays>>, top < End => top < End',
           at'[t] = at[t], seen'[t] = seen[t], item'[t] = item[t], array'[t] = array[t]
    PROVE  ThiefSees(t)'
  <1>1. Current' = Current /\ \A a, i : arrays'[a].S[i % arrays'[a].C] = Slot(a, i)
    BY DEF Current, Slot, Size
  <1>2. top \in Nat /\ End \in Nat
    BY Types
  <1> QED BY <1>1, <1>2 DEF IInv, ThiefInv, ThiefSees, Slot, Size

(* The owner's steps that leave the queue as it is. *)
LEMMA OwnerQuiet ==
    ASSUME IInv, UNCHANGED <<top, arrays, array, history>>, End' = End,
           NEW place \in {"idle", "resize", "store", "publish", "pop", "race", "restore"},
           at' = [at EXCEPT ![Owner] = place],
           bottom' \in -1 .. MaxItems,
           seen' \in [Threads -> 0 .. MaxItems],
           item' \in [Threads -> Items \cup {Nobody}],
           \A t \in Thieves : seen'[t] = seen[t] /\ item'[t] = item[t],
           OwnerInv'
    PROVE  IInv' /\ Content' = Content
  <1>1. ArrayInv' /\ BoundInv' /\ ContentInv' /\ Content' = Content
    BY QueueKept
  <1>2. \A t \in Thieves : at'[t] = at[t] /\ array'[t] = array[t]
    BY Types DEF IInv, TypeOK, Threads
  <1>3. End \in Nat
    BY Types
  <1>4. ThiefInv'
    BY <1>2, <1>3, ThiefKept DEF ThiefInv
  <1>5. TypeOK'
    BY DEF IInv, TypeOK, Current, Size, history
  <1> QED BY <1>1, <1>4, <1>5 DEF IInv

(* The steps of thief t that leave the queue as it is. *)
LEMMA ThiefQuiet ==
    ASSUME IInv, NEW t \in Thieves, UNCHANGED <<shared, history>>,
           NEW place \in {"idle", "bottom", "array", "slot", "swap"},
           at' = [at EXCEPT ![t] = place],
           seen' \in [Threads -> 0 .. MaxItems],
           item' \in [Threads -> Items \cup {Nobody}],
           array' \in [Thieves -> 1 .. Current],
           \A u \in Threads \ {t} : seen'[u] = seen[u] /\ item'[u] = item[u],
           \A u \in Thieves \ {t} : array'[u] = array[u],
           place # "idle" => seen'[t] <= top,
           place \in {"array", "slot", "swap"} /\ seen'[t] = top =>
              /\ top < End
              /\ place = "slot" => Slot(array'[t], top) = Slot(Current, top)
              /\ place = "swap" => item'[t] = Slot(Current, top)
    PROVE  IInv' /\ Content' = Content
  <1>1. /\ Owner \in Threads /\ Owner # t /\ at'[t] = place
        /\ \A u \in Threads \ {t} : at'[u] = at[u]
    BY Types DEF IInv, TypeOK, Threads
  <1>2. End' = End /\ End \in Nat
    BY <1>1, Types DEF End, shared
  <1>3. ArrayInv' /\ BoundInv' /\ ContentInv' /\ Content' = Content
    BY <1>2, QueueKept DEF shared
  <1>4. Current' = Current /\ \A a, i : arrays'[a].S[i % arrays'[a].C] = Slot(a, i)
    BY DEF Current, Slot, Size, shared
  <1>5. ThiefInv'
    <2> SUFFICES ASSUME NEW u \in Thieves PROVE ThiefSees(u)'
      BY DEF ThiefInv
    <2>1. CASE u = t
      BY <1>1, <1>2, <1>4, <2>1 DEF ThiefSees, Slot, Size, shared
    <2>2. CASE u # t
      BY <1>1, <1>2, <2>2, ThiefKept DEF shared, Threads
    <2> QED BY <2>1, <2>2
  <1>6. OwnerInv'
    BY <1>1, <1>2 DEF IInv, OwnerInv, Current, Slot, Size, shared, history
  <1>7. TypeOK'
    BY DEF IInv, TypeOK, Current, Size, shared, history
  <1> QED BY <1>3, <1>5, <1>6, <1>7 DEF IInv
-----------------------------------------------------------------------------
LEMMA OwnerAt ==
    ASSUME IInv
    PROVE  /\ Owner \in Threads /\ DOMAIN at = Threads
           /\ seen \in [Threads -> 0 .. MaxItems] /\ item \in [Threads -> Items \cup {Nobody}]
           /\ \A place : [at EXCEPT ![Owner] = place][Owner] = place
  BY DEF IInv, TypeOK, Threads

LEMMA StepPush == ASSUME IInv, Push PROVE IInv' /\ Content' = Content
  <1> DEFINE place == IF Full(top) THEN "resize" ELSE "store"
  <1>1. /\ at[Owner] = "idle" /\ pushed < MaxItems /\ seen' = [seen EXCEPT ![Owner] = top]
        /\ at' = [at EXCEPT ![Owner] = place] /\ UNCHANGED <<shared, array, item, history>>
    BY DEF Push, Goto
  <1>2. at'[Owner] = place /\ seen'[Owner] = top /\ End = bottom /\ End' = End
    BY <1>1, OwnerAt DEF End, shared
  <1>3. top \in 0 .. MaxItems /\ bottom \in -1 .. MaxItems
    BY DEF IInv, TypeOK
  <1>4. OwnerInv'
    <2>1. top <= bottom /\ bottom - top <= Size(Current)
      BY <1>2 DEF IInv, BoundInv
    <2>2. place = "resize" => bottom - top = Size(Current)
      BY <1>3, <2>1, Types DEF Full
    <2>3. place = "store" => bottom - top < Size(Current)
      BY <1>3, <2>1, Types DEF Full
    <2> QED BY <1>1, <1>2, <1>3, <2>2, <2>3 DEF OwnerInv, Current, Size, shared, history
  <1>5. seen' \in [Threads -> 0 .. MaxItems] /\ \A t \in Thieves : seen'[t] = seen[t]
    BY <1>1, <1>3, OwnerAt, Types DEF Threads
  <1> HIDE DEF place
  <1>6. place \in {"resize", "store"}
    BY DEF place
  <1> QED BY <1>1, <1>2, <1>3, <1>4, <1>5, <1>6, OwnerAt, OwnerQuiet DEF shared

LEMMA StepPop == ASSUME IInv, Pop PROVE IInv' /\ Content' = Content
  <1>1. /\ at[Owner] = "idle" /\ bottom' = bottom - 1 /\ at' = [at EXCEPT ![Owner] = "pop"]
        /\ UNCHANGED <<top, arrays, local, history>>
    BY DEF Pop, Goto
  <1>2. at'[Owner] = "pop" /\ End = bottom
    BY <1>1, OwnerAt DEF End
  <1>3. End' = End /\ bottom' \in -1 .. MaxItems
    BY <1>1, <1>2, Types DEF End, IInv, TypeOK
  <1>4. OwnerInv'
    BY <1>2 DEF OwnerInv
  <1> QED BY <1>1, <1>3, <1>4, OwnerAt, OwnerQuiet DEF local

LEMMA StepPopLast == ASSUME IInv, PopLast PROVE IInv' /\ Content' = Content
  <1>1. /\ at[Owner] = "pop" /\ top = bottom /\ at' = [at EXCEPT ![Owner] = "race"]
        /\ seen' = [seen EXCEPT ![Owner] = top]
        /\ item' = [item EXCEPT ![Owner] = Slot(Current, bottom)]
        /\ UNCHANGED <<shared, array, history>>
    BY DEF PopLast, Goto
  <1>2. /\ at'[Owner] = "race" /\ seen'[Owner] = top /\ item'[Owner] = Slot(Current, bottom)
        /\ top \in 0 .. MaxItems /\ bottom \in -1 .. MaxItems
    BY <1>1, OwnerAt DEF IInv, TypeOK
  <1>3. End' = End
    BY <1>1, <1>2 DEF End, shared
  <1>4. OwnerInv'
    BY <1>1, <1>2 DEF OwnerInv, Slot, Current, Size, shared
  <1>5. /\ seen' \in [Threads -> 0 .. MaxItems] /\ item' \in [Threads -> Items \cup {Nobody}]
        /\ \A t \in Thieves : seen'[t] = seen[t] /\ item'[t] = item[t]
    BY <1>1, <1>2, OwnerAt, Types DEF Threads
  <1> QED BY <1>1, <1>2, <1>3, <1>4, <1>5, OwnerAt, OwnerQuiet DEF shared

LEMMA StepPopNothing == ASSUME IInv, PopNothing PROVE IInv' /\ Content' = Content
  <1>1. /\ at[Owner] = "pop" /\ bottom < top /\ at' = [at EXCEPT ![Owner] = "restore"]
        /\ UNCHANGED <<shared, local, history>>
    BY DEF PopNothing, Goto
  <1>2. at'[Owner] = "restore" /\ bottom \in -1 .. MaxItems
    BY <1>1, OwnerAt DEF IInv, TypeOK
  <1>3. End' = End /\ End = bottom + 1
    BY <1>1, <1>2 DEF End, shared
  <1>4. top = End
    BY <1>1, <1>3, Types DEF IInv, BoundInv
  <1>5. OwnerInv'
    BY <1>1, <1>2, <1>3, <1>4 DEF OwnerInv, shared
  <1> QED BY <1>1, <1>2, <1>3, <1>5, OwnerAt, OwnerQuiet DEF shared, local

LEMMA StepPopRestore == ASSUME IInv, PopRestore PROVE IInv' /\ Content' = Content
  <1>1. /\ at[Owner] = "restore" /\ bottom' = bottom + 1 /\ at' = [at EXCEPT ![Owner] = "idle"]
        /\ seen' = [seen EXCEPT ![Owner] = 0] /\ item' = [item EXCEPT ![Owner] = Nobody]
        /\ UNCHANGED <<top, arrays, array, history>>
    BY DEF PopRestore, Return, Goto
  <1>2. at'[Owner] = "idle"
    BY <1>1, OwnerAt
  <1>3. End' = End /\ bottom' = End
    BY <1>1, <1>2 DEF End
  <1>4. bottom' \in -1 .. MaxItems
    BY <1>3, Types DEF IInv, BoundInv, TypeOK
  <1>5. OwnerInv'
    BY <1>2 DEF OwnerInv
  <1>6. /\ seen' \in [Threads -> 0 .. MaxItems] /\ item' \in [Threads -> Items \cup {Nobody}]
        /\ \A t \in Thieves : seen'[t] = seen[t] /\ item'[t] = item[t]
    BY <1>1, OwnerAt, Types DEF Threads
  <1> QED BY <1>1, <1>3, <1>4, <1>5, <1>6, OwnerAt, OwnerQuiet
(* Steps that only write slots without an item, or move the items over.    *)
LEMMA ItemsKept ==
    ASSUME IInv, ArrayInv', UNCHANGED <<top, history>>, End' = End,
           Size(Current)' \in Nat, Size(Current)' >= Size(Current),
           \A i \in top .. End - 1 : Slot(Current, i)' = Slot(Current, i)
    PROVE  BoundInv' /\ ContentInv' /\ Content' = Content
  <1>1. BoundInv'
    BY Types DEF IInv, BoundInv, history
  <1>2. ContentInv'
    BY DEF IInv, ContentInv, history
  <1>3. Content' = Content
    <2>1. \A n \in 1 .. End - top : Slot(Current, top + n - 1)' = Slot(Current, top + n - 1)
      <3> SUFFICES ASSUME NEW n \in 1 .. End - top
                   PROVE  Slot(Current, top + n - 1)' = Slot(Current, top + n - 1)
        OBVIOUS
      <3>1. top + n - 1 \in top .. End - 1
        BY Types
      <3>2. PICK i : i = top + n - 1
        OBVIOUS
      <3>3. Slot(Current, i)' = Slot(Current, i)
        BY <3>1, <3>2
      <3> QED BY <3>2, <3>3 DEF Slot
    <2> QED BY <2>1 DEF Content
  <1> QED BY <1>1, <1>2, <1>3

LEMMA StepResize == ASSUME IInv, Resize PROVE IInv' /\ Content' = Content
  <1> DEFINE c == 2 * Size(Current)
             new == Resized(c, bottom, seen[Owner])
  <1>1. /\ at[Owner] = "resize" /\ at' = [at EXCEPT ![Owner] = "store"]
        /\ arrays' = Append(arrays, new) /\ UNCHANGED <<top, bottom, local, history>>
    BY DEF Resize, Goto
  <1>2. /\ seen[Owner] \in Nat /\ seen[Owner] <= top /\ bottom - seen[Owner] = Size(Current)
        /\ End = bottom /\ at'[Owner] = "store" /\ End' = End
    BY <1>1, OwnerAt DEF IInv, OwnerInv, End
  <1>3. c \in Nat \ {0} /\ Size(Current) < c /\ c \in 1 .. Capacity + 2 * MaxItems
    <2>1. bottom <= MaxItems /\ bottom \in Int
      BY Types DEF IInv, TypeOK
    <2> QED BY <1>2, <2>1, Types, TaskQueueAssumption
  <1>4. \A i \in seen[Owner] .. bottom - 1 : new.S[i % c] = Slot(Current, i)
    <2> SUFFICES ASSUME NEW i \in seen[Owner] .. bottom - 1
                 PROVE  new.S[i % c] = Slot(Current, i)
      OBVIOUS
    <2>1. \A j \in seen[Owner] .. bottom - 1 : i % c = j % c => j = i
      BY <1>2, <1>3, ModApart, Types
    <2>2. i % c \in 0 .. c - 1
      <3>1. i \in Int
        BY <1>2, Types
      <3> HIDE DEF c
      <3> QED BY <1>3, <3>1, ModRange
    <2>3. (CHOOSE j \in seen[Owner] .. bottom - 1 : i % c = j % c) = i
      BY <2>1
    <2> QED BY <2>2, <2>3 DEF Resized
  <1>5. new \in Arrays
    <2>1. \A j \in Int : Slot(Current, j) \in Items \cup {Nobody}
      BY Types
    <2>2. \A j \in 0 .. c - 1 :
             (IF \E i \in seen[Owner] .. bottom - 1 : j = i % c
              THEN Slot(Current, CHOOSE i \in seen[Owner] .. bottom - 1 : j = i % c)
              ELSE Nobody) \in Items \cup {Nobody}
      BY <1>2, <2>1, Types
    <2>3. new \in Array(c)
      BY <2>2 DEF Array, Resized
    <2> QED BY <1>3, <2>3 DEF Arrays
  <1>6. new.C = c
    BY DEF Resized
  <1> HIDE DEF new, c
  <1>7. /\ arrays' \in Seq(Arrays) /\ Current' = Current + 1 /\ arrays'[Current + 1] = new
        /\ \A a \in 1 .. Current : arrays'[a] = arrays[a]
    BY <1>1, <1>5 DEF IInv, ArrayInv, Current
  <1>8. ArrayInv' /\ Size(Current)' = c
    BY <1>6, <1>7, CurrentType DEF IInv, ArrayInv, Current, Size
  <1>9. ASSUME NEW i \in top .. End - 1 PROVE Slot(Current, i)' = Slot(Current, i)
    <2>1. i \in seen[Owner] .. bottom - 1
      BY <1>2, Types
    <2>2. Slot(Current, i)' = new.S[i % new.C]
      BY <1>7 DEF Slot, Size
    <2> QED BY <1>4, <1>6, <2>1, <2>2
  <1>10. BoundInv' /\ ContentInv' /\ Content' = Content
    BY <1>1, <1>2, <1>3, <1>8, <1>9, ItemsKept, Types
  <1>11. OwnerInv'
    BY <1>1, <1>2, <1>3, <1>8, Types DEF IInv, OwnerInv, BoundInv, local, history
  <1>12. ThiefInv'
    <2> SUFFICES ASSUME NEW t \in Thieves PROVE ThiefSees(t)'
      BY DEF ThiefInv
    <2>1. at'[t] = at[t] /\ UNCHANGED <<top, seen, item, array>>
      BY <1>1, OwnerAt, Types DEF local, Threads
    <2>2. top < End => Slot(Current, top)' = Slot(Current, top)
      <3>1. PICK i : i = top
        OBVIOUS
      <3>2. top < End => Slot(Current, i)' = Slot(Current, i)
        BY <1>9, <3>1, Types
      <3> QED BY <2>1, <3>1, <3>2 DEF Slot
    <2>3. Slot(array[t], top)' = Slot(array[t], top)
      BY <1>7, <2>1 DEF IInv, TypeOK, Slot, Size
    <2> QED BY <1>2, <2>1, <2>2, <2>3 DEF IInv, ThiefInv, ThiefSees
  <1>13. TypeOK'
    <2>1. array' \in [Thieves -> 1 .. Current']
      BY <1>1, <1>7, CurrentType DEF IInv, TypeOK, local
    <2> QED BY <1>1, <1>8, <2>1, ArraysTypedNext DEF IInv, TypeOK, Array, local, history
  <1> QED BY <1>8, <1>10, <1>11, <1>12, <1>13 DEF IInv
LEMMA StepStoreItem == ASSUME IInv, StoreItem PROVE IInv' /\ Content' = Content
  <1> DEFINE slot == bottom % Size(Current)
  <1>1. /\ at[Owner] = "store" /\ at' = [at EXCEPT ![Owner] = "publish"]
        /\ arrays' = [arrays EXCEPT ![Current].S[slot] = pushed + 1]
        /\ UNCHANGED <<top, bottom, local, history>>
    BY DEF StoreItem, Goto
  <1>2. /\ End = bottom /\ at'[Owner] = "publish" /\ End' = End /\ pushed < MaxItems
        /\ bottom - top < Size(Current)
    BY <1>1, OwnerAt DEF IInv, OwnerInv, End
  <1>3. slot \in 0 .. Size(Current) - 1
    BY <1>2, ModRange, Types
  <1> HIDE DEF slot
  <1>4. pushed + 1 \in Items
    BY <1>2, Types DEF Items
  <1> DEFINE new == [arrays[Current] EXCEPT !.S[slot] = pushed + 1]
  <1>5. arrays[Current] \in Arrays /\ new.C = Size(Current)
    BY CurrentType, SlotType DEF IInv, Arrays, Array, Size
  <1>6. /\ new \in Array(Size(Current))
        /\ \A j \in 0 .. Size(Current) - 1 :
              new.S[j] = IF j = slot THEN pushed + 1 ELSE arrays[Current].S[j]
    BY <1>3, <1>4, <1>5, ArrayType DEF Array, Size
  <1>7. new \in Arrays
    BY <1>5, <1>6, ArrayType DEF Arrays, Size
  <1>8. /\ arrays' \in Seq(Arrays) /\ Current' = Current /\ arrays'[Current] = new
        /\ \A a \in 1 .. Current : a # Current => arrays'[a] = arrays[a]
    BY <1>1, <1>7, CurrentType DEF IInv, ArrayInv, Current
  <1> HIDE DEF new
  <1>9. ArrayInv' /\ Size(Current)' = Size(Current)
    BY <1>5, <1>8 DEF IInv, ArrayInv, Current, Size
  <1>10. ASSUME NEW i \in Int
         PROVE  Slot(Current, i)' = IF i % Size(Current) = slot THEN pushed + 1 ELSE Slot(Current, i)
    <2>1. Slot(Current, i)' = new.S[i % Size(Current)]
      BY <1>5, <1>8 DEF Slot, Size
    <2>2. i % Size(Current) \in 0 .. Size(Current) - 1
      BY ModRange, Types
    <2> QED BY <1>6, <2>1, <2>2 DEF Slot
  <1>11. ASSUME NEW i \in top .. End - 1 PROVE Slot(Current, i)' = Slot(Current, i)
    <2>1. i % Size(Current) # slot
      BY <1>2, ModApart, Types DEF slot
    <2> QED BY <1>10, <2>1, Types
  <1>12. Slot(Current, bottom)' = pushed + 1
    <2>1. PICK i \in Int : i = bottom
      BY Types
    <2>2. Slot(Current, i)' = pushed + 1
      BY <1>10, <2>1 DEF slot
    <2> QED BY <1>1, <2>1, <2>2 DEF Slot
  <1>13. BoundInv' /\ ContentInv' /\ Content' = Content
    BY <1>1, <1>2, <1>9, <1>11, ItemsKept, Types
  <1>14. OwnerInv'
    BY <1>1, <1>2, <1>9, <1>12 DEF OwnerInv, history
  <1>15. ThiefInv'
    <2> SUFFICES ASSUME NEW t \in Thieves PROVE ThiefSees(t)'
      BY DEF ThiefInv
    <2>1. at'[t] = at[t] /\ UNCHANGED <<top, seen, item, array>>
      BY <1>1, OwnerAt, Types DEF local, Threads
    <2>2. top < End => Slot(Current, top)' = Slot(Current, top)
      <3>1. PICK i : i = top
        OBVIOUS
      <3>2. top < End => Slot(Current, i)' = Slot(Current, i)
        BY <1>11, <3>1, Types
      <3> QED BY <2>1, <3>1, <3>2 DEF Slot
    <2>3. array[t] \in 1 .. Current
      BY DEF IInv, TypeOK
    <2>4. array[t] # Current => Slot(array[t], top)' = Slot(array[t], top)
      BY <1>8, <2>1, <2>3 DEF Slot, Size
    <2>5. array[t] = Current => Slot(array[t], top)' = Slot(Current, top)'
      BY <1>8, <2>1
    <2> QED BY <1>2, <2>1, <2>2, <2>4, <2>5 DEF IInv, ThiefInv, ThiefSees
  <1>16. TypeOK'
    BY <1>1, <1>8, <1>9, ArraysTypedNext DEF IInv, TypeOK, Array, local, history
  <1> QED BY <1>9, <1>13, <1>14, <1>15, <1>16 DEF IInv
-----------------------------------------------------------------------------
(* The content as a sequence. *)
LEMMA IsSequence ==
    ASSUME NEW S, NEW n \in Nat, NEW f \in [1 .. n -> S]
    PROVE  f \in Seq(S) /\ Len(f) = n
  BY SeqDef, LenProperties

LEMMA ContentFacts ==
    ASSUME IInv
    PROVE  /\ Content \in Seq(Items) /\ Len(Content) = End - top
           /\ \A n \in 1 .. End - top : Content[n] = Slot(Current, top + n - 1)
  <1>1. End - top \in Nat
    BY Types DEF IInv, BoundInv
  <1>2. \A n \in 1 .. End - top : Slot(Current, top + n - 1) \in Items
    <2>1. \A i \in top .. End - 1 : Slot(Current, i) \in Items
      BY Types DEF IInv, ContentInv, BoundInv, TypeOK, Items
    <2>2. \A n \in 1 .. End - top : top + n - 1 \in top .. End - 1
      BY Types
    <2> QED BY <2>1, <2>2
  <1>3. Content \in [1 .. End - top -> Items]
    BY <1>2 DEF Content
  <1> QED BY <1>1, <1>3, IsSequence DEF Content

LEMMA ContentFactsNext ==
    ASSUME IInv'
    PROVE  /\ Content' \in Seq(Items) /\ Len(Content') = End' - top'
           /\ \A n \in 1 .. End' - top' : Content'[n] = Slot(Current, top + n - 1)'
  <1>1. (IInv => /\ Content \in Seq(Items) /\ Len(Content) = End - top
                 /\ \A n \in 1 .. End - top : Content[n] = Slot(Current, top + n - 1))'
    BY ContentFacts, PTL
  <1> QED BY <1>1

LEMMA StepPublish ==
    ASSUME IInv, PublishItem
    PROVE  IInv' /\ pushed + 1 \in Items /\ Content' = Append(Content, pushed + 1)
  <1>1. /\ at[Owner] = "publish" /\ bottom' = bottom + 1 /\ pushed' = pushed + 1
        /\ at' = [at EXCEPT ![Owner] = "idle"]
        /\ seen' = [seen EXCEPT ![Owner] = 0] /\ item' = [item EXCEPT ![Owner] = Nobody]
        /\ UNCHANGED <<top, arrays, array, holder>>
    BY DEF PublishItem, Return, Goto
  <1>2. /\ End = bottom /\ at'[Owner] = "idle" /\ End' = End + 1 /\ pushed < MaxItems
        /\ bottom - top < Size(Current) /\ Slot(Current, bottom) = pushed + 1
    BY <1>1, OwnerAt DEF IInv, OwnerInv, End
  <1>3. Current' = Current /\ \A i : arrays'[Current].S[i % arrays'[Current].C] = Slot(Current, i)
    BY <1>1 DEF Current, Slot, Size
  <1>4. ArrayInv' /\ Size(Current)' = Size(Current)
    BY <1>1 DEF IInv, ArrayInv, Current, Size
  <1>5. BoundInv'
    BY <1>1, <1>2, <1>4, Types DEF IInv, BoundInv
  <1>6. pushed + 1 \in Items
    BY <1>2, Types DEF Items
  <1>7. ContentInv'
    <2>1. \A i \in top .. End' - 1 : i \in top .. End - 1 \/ i = bottom
      BY <1>2, Types
    <2>2. \A i \in top .. End - 1 : Slot(Current, i) \in 1 .. pushed
      BY DEF IInv, ContentInv
    <2>3. holder[pushed + 1] = Nobody
      BY <1>6, Types DEF IInv, ContentInv
    <2>4. \A i \in top .. End' - 1 :
             Slot(Current, i) \in 1 .. pushed' /\ holder[Slot(Current, i)] = Nobody
      BY <1>1, <1>2, <2>1, <2>3, Types DEF IInv, ContentInv
    <2>5. \A i, j \in top .. End' - 1 : Slot(Current, i) = Slot(Current, j) => i = j
      BY <1>2, <2>1, <2>2, Types DEF IInv, ContentInv
    <2>6. \A o \in 1 .. pushed' : holder[o] = Nobody => \E i \in top .. End' - 1 : Slot(Current, i) = o
      <3>1. \A i \in top .. End - 1 : i \in top .. End' - 1
        BY <1>2, Types
      <3>2. bottom \in top .. End' - 1
        BY <1>2, Types DEF IInv, BoundInv
      <3>3. \A o \in 1 .. pushed' : o \in 1 .. pushed \/ o = pushed + 1
        BY <1>1, Types
      <3> QED BY <1>2, <3>1, <3>2, <3>3 DEF IInv, ContentInv
    <2>7. \A o \in Items : o > pushed' => holder[o] = Nobody
      BY <1>1, Types DEF IInv, ContentInv, Items
    <2> QED BY <1>1, <1>3, <2>4, <2>5, <2>6, <2>7 DEF ContentInv, Slot, Size
  <1>8. OwnerInv'
    BY <1>2 DEF OwnerInv
  <1>9. /\ \A t \in Thieves : /\ at'[t] = at[t] /\ seen'[t] = seen[t]
                              /\ item'[t] = item[t] /\ array'[t] = array[t]
    BY <1>1, OwnerAt, Types DEF Threads
  <1>10. ThiefInv'
    BY <1>1, <1>2, <1>9, ThiefKept, Types DEF ThiefInv
  <1>11. TypeOK'
    <2>1. bottom' \in -1 .. MaxItems /\ pushed' \in 0 .. MaxItems
      BY <1>1, <1>2, Types DEF IInv, BoundInv
    <2>2. seen' \in [Threads -> 0 .. MaxItems] /\ item' \in [Threads -> Items \cup {Nobody}]
      BY <1>1, OwnerAt, Types
    <2> QED BY <1>1, <1>4, <2>1, <2>2, ArraysTypedNext DEF IInv, TypeOK, Array, Current
  <1>12. IInv'
    BY <1>4, <1>5, <1>7, <1>8, <1>10, <1>11 DEF IInv
  <1>13. Content' = Append(Content, pushed + 1)
    <2> DEFINE longer == Append(Content, pushed + 1)
    <2>1. /\ longer \in Seq(Items) /\ Len(longer) = Len(Content) + 1
          /\ \A n \in 1 .. Len(Content) + 1 :
                longer[n] = IF n = Len(Content) + 1 THEN pushed + 1 ELSE Content[n]
      BY <1>6, ContentFacts, AppendProperties
    <2>2. Content' \in Seq(Items) /\ Len(Content') = Len(longer)
      BY <1>1, <1>2, <1>12, <2>1, ContentFacts, ContentFactsNext, Types
    <2>3. \A n \in 1 .. Len(Content') : Content'[n] = longer[n]
      <3> SUFFICES ASSUME NEW n \in 1 .. Len(Content') PROVE Content'[n] = longer[n]
        OBVIOUS
      <3>1. n \in 1 .. End' - top' /\ n \in 1 .. End - top + 1
        BY <1>1, <1>2, <1>12, ContentFactsNext, Types
      <3>2. Content'[n] = Slot(Current, top + n - 1)
        BY <1>1, <1>3, <1>12, <3>1, ContentFactsNext DEF Slot, Size
      <3>3. CASE n = End - top + 1
        <4>1. top + n - 1 = bottom /\ n = Len(Content) + 1
          BY <1>2, <3>3, ContentFacts, Types
        <4> QED BY <1>2, <2>1, <3>2, <4>1, ContentFacts, Types
      <3>4. CASE n # End - top + 1
        <4>1. n \in 1 .. End - top
          BY <3>1, <3>4, Types
        <4> QED BY <2>1, <3>1, <3>2, <3>4, <4>1, ContentFacts, Types
      <3> QED BY <3>3, <3>4
    <2> HIDE DEF longer
    <2>4. Content' = longer
      BY <2>1, <2>2, <2>3, SeqEqual
    <2> QED BY <2>4 DEF longer
  <1> QED BY <1>6, <1>12, <1>13
(* The last item is the owner's.                                           *)
LEMMA StepPopTakes ==
    ASSUME IInv, PopTakes
    PROVE  /\ IInv' /\ Content # << >>
           /\ Content' = SubSeq(Content, 1, Len(Content) - 1)
           /\ holder' = [holder EXCEPT ![Content[Len(Content)]] = Owner]
  <1> DEFINE o == Slot(Current, bottom)
  <1>1. /\ at[Owner] = "pop" /\ top < bottom /\ at' = [at EXCEPT ![Owner] = "idle"]
        /\ holder' = [holder EXCEPT ![o] = Owner]
        /\ seen' = [seen EXCEPT ![Owner] = 0] /\ item' = [item EXCEPT ![Owner] = Nobody]
        /\ UNCHANGED <<shared, array, pushed>>
    BY DEF PopTakes, Return, Goto, Hand
  <1>2. /\ End = bottom + 1 /\ at'[Owner] = "idle" /\ End' = bottom /\ bottom' = bottom /\ top' = top
        /\ arrays' = arrays
    BY <1>1, OwnerAt DEF End, shared
  <1>3. Current' = Current /\ \A i : arrays'[Current].S[i % arrays'[Current].C] = Slot(Current, i)
    BY <1>2 DEF Current, Slot, Size
  <1>4. ArrayInv' /\ Size(Current)' = Size(Current)
    BY <1>2 DEF IInv, ArrayInv, Current, Size
  <1>5. BoundInv'
    BY <1>1, <1>2, <1>4, Types DEF IInv, BoundInv
  <1>6. bottom \in top .. End - 1 /\ \A i \in top .. End - 1 : i \in top .. End' - 1 \/ i = bottom
    BY <1>1, <1>2, Types
  <1>7. \A i \in top .. End' - 1 : i \in top .. End - 1 /\ i # bottom
    BY <1>2, Types
  <1>8. o \in 1 .. pushed /\ o \in Items /\ Owner \in Threads /\ Owner # Nobody
    BY <1>6, Types, OwnerAt DEF IInv, ContentInv, TypeOK, Items
  <1>9. holder' \in [Items -> Threads \cup {Nobody}] /\ holder'[o] = Owner
        /\ \A p \in Items \ {o} : holder'[p] = holder[p]
    BY <1>1, <1>8 DEF IInv, TypeOK
  <1>10. \A p \in 1 .. pushed : p \in Items
    BY Types DEF IInv, TypeOK, Items
  <1> HIDE DEF o
  <1>11. ContentInv'
    <2>1. \A i \in top .. End' - 1 : Slot(Current, i) # o
      BY <1>6, <1>7 DEF IInv, ContentInv, o
    <2>2. \A i \in top .. End' - 1 :
             Slot(Current, i) \in 1 .. pushed /\ holder'[Slot(Current, i)] = Nobody
      BY <1>7, <1>9, <1>10, <2>1 DEF IInv, ContentInv
    <2>3. \A i, j \in top .. End' - 1 : Slot(Current, i) = Slot(Current, j) => i = j
      BY <1>7 DEF IInv, ContentInv
    <2>4. \A p \in 1 .. pushed : holder'[p] = Nobody => \E i \in top .. End' - 1 : Slot(Current, i) = p
      BY <1>6, <1>8, <1>9, <1>10 DEF IInv, ContentInv, o
    <2>5. \A p \in Items : p > pushed => holder'[p] = Nobody
      BY <1>8, <1>9, Types DEF IInv, ContentInv, Items
    <2> QED BY <1>1, <1>2, <1>3, <2>2, <2>3, <2>4, <2>5 DEF ContentInv, Slot, Size
  <1>12. OwnerInv'
    BY <1>2 DEF OwnerInv
  <1>13. \A t \in Thieves : /\ at'[t] = at[t] /\ seen'[t] = seen[t]
                            /\ item'[t] = item[t] /\ array'[t] = array[t]
    BY <1>1, OwnerAt, Types DEF Threads
  <1>14. ThiefInv'
    BY <1>1, <1>2, <1>13, ThiefKept, Types DEF ThiefInv
  <1>15. TypeOK'
    <2>1. seen' \in [Threads -> 0 .. MaxItems] /\ item' \in [Threads -> Items \cup {Nobody}]
      BY <1>1, OwnerAt, Types
    <2> QED BY <1>1, <1>2, <1>4, <1>9, <2>1, ArraysTypedNext DEF IInv, TypeOK, Array,
        Current
  <1>16. IInv'
    BY <1>4, <1>5, <1>11, <1>12, <1>14, <1>15 DEF IInv
  <1>17. Len(Content) = End - top /\ End - top \in Nat \ {0} /\ Content # << >>
    BY <1>1, <1>2, ContentFacts, Types, EmptySeq
  <1>18. Content[Len(Content)] = o
    <2>1. Len(Content) \in 1 .. End - top /\ top + Len(Content) - 1 = bottom
      BY <1>2, <1>17, Types
    <2> QED BY <2>1, ContentFacts DEF o
  <1>19. Content' = SubSeq(Content, 1, Len(Content) - 1)
    <2> DEFINE m == Len(Content) - 1
               shorter == SubSeq(Content, 1, m)
    <2>1. m \in Nat /\ m = End' - top' /\ \A n \in 1 .. m : Content[n] \in Items
      BY <1>2, <1>17, ContentFacts, Types, ElementOfSeq
    <2>2. shorter \in Seq(Items) /\ Len(shorter) = m /\ \A n \in 1 .. m : shorter[n] = Content[n]
      <3> HIDE DEF m
      <3>1. /\ SubSeq(Content, 1, m) \in Seq(Items)
            /\ Len(SubSeq(Content, 1, m)) = IF 1 <= m THEN m - 1 + 1 ELSE 0
            /\ \A n \in 1 .. m - 1 + 1 : SubSeq(Content, 1, m)[n] = Content[1 + n - 1]
        BY <2>1, SubSeqProperties
      <3> QED BY <2>1, <3>1
    <2>3. \A n \in 1 .. m : Content'[n] = Content[n]
      BY <1>2, <1>3, <1>16, <1>17, <2>1, ContentFacts, ContentFactsNext DEF Slot, Size
    <2> HIDE DEF m, shorter
    <2>4. Content' = shorter
      BY <1>16, <2>1, <2>2, <2>3, ContentFactsNext, SeqEqual
    <2> QED BY <2>4 DEF shorter, m
  <1> QED BY <1>1, <1>16, <1>17, <1>18, <1>19
-----------------------------------------------------------------------------
(* Whoever moves _top takes the first item. *)
LEMMA FirstTaken ==
    ASSUME IInv, top < End, End' = End, top' = top + 1, UNCHANGED <<arrays, pushed>>,
           NEW t \in Threads, holder' = [holder EXCEPT ![Slot(Current, top)] = t]
    PROVE  /\ ArrayInv' /\ BoundInv' /\ ContentInv' /\ top' \in 0 .. MaxItems
           /\ holder' \in [Items -> Threads \cup {Nobody}]
  <1> DEFINE o == Slot(Current, top)
  <1>1. Current' = Current /\ \A i : arrays'[Current].S[i % arrays'[Current].C] = Slot(Current, i)
    BY DEF Current, Slot, Size
  <1>2. ArrayInv' /\ Size(Current)' = Size(Current)
    BY DEF IInv, ArrayInv, Current, Size
  <1>3. BoundInv' /\ top' \in 0 .. MaxItems
    BY <1>2, Types DEF IInv, BoundInv, TypeOK
  <1>4. top \in top .. End - 1 /\ \A i \in top .. End - 1 : i \in top' .. End - 1 \/ i = top
    BY Types
  <1>5. \A i \in top' .. End - 1 : i \in top .. End - 1 /\ i # top
    BY Types
  <1>6. o \in 1 .. pushed /\ o \in Items /\ t # Nobody
    BY <1>4, Types DEF IInv, ContentInv, TypeOK, Items
  <1>7. holder' \in [Items -> Threads \cup {Nobody}] /\ holder'[o] = t
        /\ \A p \in Items \ {o} : holder'[p] = holder[p]
    BY <1>6 DEF IInv, TypeOK
  <1>8. \A p \in 1 .. pushed : p \in Items
    BY Types DEF IInv, TypeOK, Items
  <1> HIDE DEF o
  <1>9. ContentInv'
    <2>1. \A i \in top' .. End - 1 : Slot(Current, i) # o
      BY <1>4, <1>5 DEF IInv, ContentInv, o
    <2>2. \A i \in top' .. End - 1 :
             Slot(Current, i) \in 1 .. pushed /\ holder'[Slot(Current, i)] = Nobody
      BY <1>5, <1>7, <1>8, <2>1 DEF IInv, ContentInv
    <2>3. \A i, j \in top' .. End - 1 : Slot(Current, i) = Slot(Current, j) => i = j
      BY <1>5 DEF IInv, ContentInv
    <2>4. \A p \in 1 .. pushed : holder'[p] = Nobody => \E i \in top' .. End - 1 : Slot(Current, i) = p
      BY <1>4, <1>6, <1>7, <1>8 DEF IInv, ContentInv, o
    <2>5. \A p \in Items : p > pushed => holder'[p] = Nobody
      BY <1>6, <1>7, Types DEF IInv, ContentInv, Items
    <2> QED BY <1>1, <2>2, <2>3, <2>4, <2>5 DEF ContentInv, Slot, Size
  <1> QED BY <1>2, <1>3, <1>7, <1>9

LEMMA TailLeft ==
    ASSUME IInv, IInv', top < End, End' = End, top' = top + 1, arrays' = arrays
    PROVE  /\ Content # << >> /\ Head(Content) = Slot(Current, top)
           /\ Content' = Tail(Content)
  <1>1. Current' = Current /\ \A i : arrays'[Current].S[i % arrays'[Current].C] = Slot(Current, i)
    BY DEF Current, Slot, Size
  <1>2. Len(Content) = End - top /\ End - top \in Nat \ {0} /\ Content # << >>
    BY ContentFacts, Types, EmptySeq
  <1>3. Head(Content) = Slot(Current, top)
    <2>1. 1 \in 1 .. End - top /\ top + 1 - 1 = top
      BY <1>2, Types
    <2>2. Content[1] = Slot(Current, top)
      BY <2>1, ContentFacts
    <2> QED BY <1>2, <2>2, ContentFacts
  <1>4. /\ Tail(Content) \in Seq(Items) /\ Len(Tail(Content)) = End - top - 1
        /\ \A n \in 1 .. End - top - 1 : Tail(Content)[n] = Content[n + 1]
    BY <1>2, ContentFacts, HeadTailProperties
  <1>5. Content' \in Seq(Items) /\ Len(Content') = End - top - 1
    BY ContentFactsNext, Types
  <1>6. ASSUME NEW n \in 1 .. End - top - 1 PROVE Content'[n] = Tail(Content)[n]
    <2>1. n \in 1 .. End' - top' /\ n + 1 \in 1 .. End - top /\ top + 1 + n - 1 = top + (n + 1) - 1
      BY Types
    <2>2. Content'[n] = Slot(Current, top + 1 + n - 1)
      BY <1>1, <2>1, ContentFactsNext DEF Slot, Size
    <2>3. Content[n + 1] = Slot(Current, top + (n + 1) - 1)
      BY <2>1, ContentFacts
    <2> QED BY <1>4, <2>1, <2>2, <2>3
  <1>7. Content' = Tail(Content)
    BY <1>4, <1>5, <1>6, SeqEqual
  <1> QED BY <1>2, <1>3, <1>7

(* The race for the last item, won or lost. *)
LEMMA StepPopRace ==
    ASSUME IInv, PopRace
    PROVE  /\ IInv'
           /\ \/ Content' = Content /\ holder' = holder
              \/ /\ Content # << >> /\ Content' = SubSeq(Content, 1, Len(Content) - 1)
                 /\ holder' = [holder EXCEPT ![Content[Len(Content)]] = Owner]
  <1>1. /\ at[Owner] = "race" /\ at' = [at EXCEPT ![Owner] = "restore"]
        /\ UNCHANGED <<bottom, arrays, local, pushed>>
    BY DEF PopRace, Goto
  <1>2. at'[Owner] = "restore" /\ End = bottom + 1 /\ End' = End
    BY <1>1, OwnerAt DEF End
  <1>3. /\ seen[Owner] = bottom /\ bottom <= top /\ top <= End
        /\ item[Owner] = Slot(Current, bottom)
    BY <1>1 DEF IInv, OwnerInv, BoundInv
  <1>4. \A t \in Thieves : /\ at'[t] = at[t] /\ seen'[t] = seen[t]
                           /\ item'[t] = item[t] /\ array'[t] = array[t]
    BY <1>1, OwnerAt, Types DEF Threads, local
  <1>5. CASE top = seen[Owner]
    <2>1. top' = top + 1 /\ top = bottom /\ holder' = [holder EXCEPT ![Slot(Current, top)] = Owner]
      BY <1>3, <1>5 DEF PopRace, Hand
    <2>2. top < End /\ Len(Content) = 1 /\ Content[1] = Slot(Current, top)
      <3>1. top < End /\ End - top = 1 /\ 1 \in 1 .. End - top /\ top + 1 - 1 = top
        BY <1>2, <2>1, Types
      <3> QED BY <3>1, ContentFacts
    <2>3. /\ ArrayInv' /\ BoundInv' /\ ContentInv' /\ top' \in 0 .. MaxItems
          /\ holder' \in [Items -> Threads \cup {Nobody}]
      BY <1>1, <1>2, <2>1, <2>2, FirstTaken, OwnerAt
    <2>4. ThiefInv'
      <3>1. \A t \in Thieves : seen[t] \in Nat
        BY DEF IInv, TypeOK, Threads
      <3>2. \A t \in Thieves : at[t] # "idle" => ~ (seen[t] = top + 1) /\ seen[t] <= top + 1
        BY <3>1, Types DEF IInv, ThiefInv, ThiefSees
      <3>3. \A t \in Thieves : at[t] \in {"idle", "bottom", "array", "slot", "swap"}
        BY DEF IInv, ThiefInv, ThiefSees
      <3> QED BY <1>4, <2>1, <3>2, <3>3 DEF ThiefInv, ThiefSees
    <2>5. OwnerInv'
      BY <1>1, <1>2, <2>1 DEF OwnerInv
    <2>6. TypeOK'
      BY <1>1, <2>3, ArraysTypedNext DEF IInv, TypeOK, Array, Current, local
    <2>7. IInv'
      BY <2>3, <2>4, <2>5, <2>6 DEF IInv
    <2>8. Content # << >> /\ Content' = Tail(Content)
      BY <1>1, <1>2, <2>1, <2>2, <2>7, TailLeft
    <2>9. Content' = << >>
      <3>1. End' - top' = 0
        BY <1>2, <2>1, Types
      <3>2. Content' \in Seq(Items) /\ Len(Content') = 0
        BY <2>7, <3>1, ContentFactsNext
      <3> QED BY <3>2, EmptySeq
    <2>10. SubSeq(Content, 1, Len(Content) - 1) = << >>
      BY <2>2, SubSeqEmpty
    <2> QED BY <2>1, <2>2, <2>7, <2>8, <2>9, <2>10
  <1>6. CASE top # seen[Owner]
    <2>1. UNCHANGED <<top, holder>>
      BY <1>6 DEF PopRace
    <2>2. OwnerInv'
      BY <1>1, <1>2, <1>3, <1>6, <2>1, Types DEF OwnerInv
    <2>3. bottom' \in -1 .. MaxItems
      BY <1>1 DEF IInv, TypeOK
    <2> QED BY <1>1, <1>2, <2>1, <2>2, <2>3, OwnerAt, OwnerQuiet DEF local, history
  <1> QED BY <1>5, <1>6
-----------------------------------------------------------------------------
LEMMA ThiefAt ==
    ASSUME IInv, NEW t \in Thieves
    PROVE  /\ t \in Threads /\ t # Owner /\ DOMAIN at = Threads
           /\ seen \in [Threads -> 0 .. MaxItems] /\ item \in [Threads -> Items \cup {Nobody}]
           /\ array \in [Thieves -> 1 .. Current] /\ array[t] \in 1 .. Current
           /\ top \in 0 .. MaxItems /\ ThiefSees(t) /\ 1 \in 1 .. Current
  BY Types, CurrentType DEF IInv, TypeOK, ThiefInv, Threads

(* The steps of a thief that only looks. *)
LEMMA StepSteal ==
    ASSUME IInv, NEW t \in Thieves,
           Steal(t) \/ StealBottom(t) \/ StealArray(t) \/ StealItem(t)
    PROVE  IInv' /\ Content' = Content
  <1>1. CASE Steal(t)
    <2>1. /\ UNCHANGED <<shared, history, array, item>> /\ at' = [at EXCEPT ![t] = "bottom"]
          /\ seen' = [seen EXCEPT ![t] = top]
      BY <1>1 DEF Steal, Goto
    <2>2. seen' \in [Threads -> 0 .. MaxItems] /\ seen'[t] = top
          /\ \A u \in Threads \ {t} : seen'[u] = seen[u]
      BY <2>1, ThiefAt
    <2>3. seen'[t] <= top
      BY <2>2, Types
    <2> QED BY <2>1, <2>2, <2>3, ThiefAt, ThiefQuiet
  <1>2. CASE StealBottom(t) /\ seen[t] < bottom
    <2>1. /\ UNCHANGED <<shared, history, local>> /\ at' = [at EXCEPT ![t] = "array"]
          /\ at[t] = "bottom"
      BY <1>2 DEF StealBottom, Goto, local
    <2>2. seen[t] <= top /\ (seen[t] = top => top < End)
      BY <1>2, <2>1, ThiefAt, Types DEF ThiefSees
    <2> QED BY <2>1, <2>2, ThiefAt, ThiefQuiet DEF local
  <1>3. CASE StealBottom(t) /\ ~ (seen[t] < bottom)
    <2>1. /\ UNCHANGED <<shared, history, array>> /\ at' = [at EXCEPT ![t] = "idle"]
          /\ seen' = [seen EXCEPT ![t] = 0] /\ item' = [item EXCEPT ![t] = Nobody]
      BY <1>3 DEF StealBottom, Goto, Return
    <2>2. /\ seen' \in [Threads -> 0 .. MaxItems] /\ item' \in [Threads -> Items \cup {Nobody}]
          /\ \A u \in Threads \ {t} : seen'[u] = seen[u] /\ item'[u] = item[u]
      BY <2>1, ThiefAt, Types
    <2> QED BY <2>1, <2>2, ThiefAt, ThiefQuiet
  <1>4. CASE StealArray(t)
    <2>1. /\ UNCHANGED <<shared, history, seen, item>> /\ at' = [at EXCEPT ![t] = "slot"]
          /\ at[t] = "array" /\ array' = [array EXCEPT ![t] = Current]
      BY <1>4 DEF StealArray, Goto
    <2>2. /\ array' \in [Thieves -> 1 .. Current] /\ array'[t] = Current
          /\ \A u \in Thieves \ {t} : array'[u] = array[u]
      BY <2>1, ThiefAt, CurrentType DEF IInv
    <2>3. seen[t] <= top /\ (seen[t] = top => top < End)
      BY <2>1, ThiefAt DEF ThiefSees
    <2> QED BY <2>1, <2>2, <2>3, ThiefAt, ThiefQuiet
  <1>5. CASE StealItem(t)
    <2>1. /\ UNCHANGED <<shared, history, seen>> /\ at' = [at EXCEPT ![t] = "swap"]
          /\ at[t] = "slot" /\ array' = [array EXCEPT ![t] = 1]
          /\ item' = [item EXCEPT ![t] = Slot(array[t], seen[t])]
      BY <1>5 DEF StealItem, Goto
    <2>2. array' \in [Thieves -> 1 .. Current] /\ \A u \in Thieves \ {t} : array'[u] = array[u]
      BY <2>1, ThiefAt
    <2>3. Slot(array[t], seen[t]) \in Items \cup {Nobody}
      BY ThiefAt, SlotType DEF IInv
    <2>4. /\ item' \in [Threads -> Items \cup {Nobody}] /\ item'[t] = Slot(array[t], seen[t])
          /\ \A u \in Threads \ {t} : item'[u] = item[u]
      BY <2>1, <2>3, ThiefAt
    <2>5. seen[t] <= top /\ (seen[t] = top => top < End /\ item'[t] = Slot(Current, top))
      BY <2>1, <2>4, ThiefAt DEF ThiefSees
    <2> QED BY <2>1, <2>2, <2>4, <2>5, ThiefAt, ThiefQuiet
  <1> QED BY <1>1, <1>2, <1>3, <1>4, <1>5

(* The compare-and-swap of a thief, that succeeds or not. *)
LEMMA StepStealSwap ==
    ASSUME IInv, NEW t \in Thieves, StealSwap(t)
    PROVE  /\ IInv'
           /\ \/ Content' = Content /\ holder' = holder
              \/ /\ Content # << >> /\ Content' = Tail(Content)
                 /\ holder' = [holder EXCEPT ![Head(Content)] = t]
  <1>1. /\ at[t] = "swap" /\ at' = [at EXCEPT ![t] = "idle"]
        /\ seen' = [seen EXCEPT ![t] = 0] /\ item' = [item EXCEPT ![t] = Nobody]
        /\ UNCHANGED <<bottom, arrays, array, pushed>>
    BY DEF StealSwap, Return, Goto
  <1>2. /\ seen' \in [Threads -> 0 .. MaxItems] /\ item' \in [Threads -> Items \cup {Nobody}]
        /\ at'[t] = "idle" /\ \A u \in Threads \ {t} :
              at'[u] = at[u] /\ seen'[u] = seen[u] /\ item'[u] = item[u]
    BY <1>1, ThiefAt, Types
  <1>3. CASE top # seen[t]
    <2>1. UNCHANGED <<shared, history>>
      BY <1>1, <1>3 DEF StealSwap, shared, history
    <2> QED BY <1>1, <1>2, <2>1, ThiefAt, ThiefQuiet DEF history
  <1>4. CASE top = seen[t]
    <2>1. top < End /\ item[t] = Slot(Current, top)
      BY <1>1, <1>4, ThiefAt DEF ThiefSees
    <2>2. top' = top + 1 /\ holder' = [holder EXCEPT ![Slot(Current, top)] = t]
      BY <1>4, <2>1 DEF StealSwap, Hand
    <2>3. at'[Owner] = at[Owner] /\ seen'[Owner] = seen[Owner] /\ item'[Owner] = item[Owner]
      BY <1>2, ThiefAt, OwnerAt
    <2>4. End' = End
      BY <1>1, <2>3 DEF End
    <2>5. /\ ArrayInv' /\ BoundInv' /\ ContentInv' /\ top' \in 0 .. MaxItems
          /\ holder' \in [Items -> Threads \cup {Nobody}]
      BY <1>1, <2>1, <2>2, <2>4, FirstTaken, ThiefAt
    <2>6. ThiefInv'
      <3>1. \A u \in Thieves : seen[u] \in Nat
        BY DEF IInv, TypeOK, Threads
      <3>2. \A u \in Thieves : at[u] # "idle" => ~ (seen[u] = top + 1) /\ seen[u] <= top + 1
        BY <3>1, Types DEF IInv, ThiefInv, ThiefSees
      <3>3. \A u \in Thieves : at[u] \in {"idle", "bottom", "array", "slot", "swap"}
        BY DEF IInv, ThiefInv, ThiefSees
      <3> QED BY <1>2, <2>2, <3>2, <3>3 DEF ThiefInv, ThiefSees, Threads
    <2>7. OwnerInv'
      <3>1. Current' = Current /\ Size(Current)' = Size(Current)
            /\ Slot(Current, bottom)' = Slot(Current, bottom)
        BY <1>1 DEF Current, Size, Slot
      <3>2. at[Owner] # "restore"
        BY <2>1, Types DEF IInv, OwnerInv
      <3>3. at[Owner] \in {"store", "publish"} => bottom - top' < Size(Current)
        BY <2>2, Types DEF IInv, OwnerInv
      <3>4. at[Owner] = "resize" => seen[Owner] <= top'
        BY <2>2, OwnerAt, Types DEF IInv, OwnerInv
      <3>5. at[Owner] = "race" => bottom <= top'
        BY <2>2, Types DEF IInv, OwnerInv
      <3> QED BY <1>1, <2>3, <3>1, <3>2, <3>3, <3>4, <3>5 DEF IInv, OwnerInv
    <2>8. TypeOK'
      BY <1>1, <1>2, <2>5, ArraysTypedNext DEF IInv, TypeOK, Array, Current
    <2>9. IInv'
      BY <2>5, <2>6, <2>7, <2>8 DEF IInv
    <2>10. /\ Content # << >> /\ Head(Content) = Slot(Current, top)
           /\ Content' = Tail(Content)
      BY <1>1, <2>1, <2>2, <2>4, <2>9, TailLeft
    <2> QED BY <2>2, <2>9, <2>10
  <1> QED BY <1>3, <1>4

-----------------------------------------------------------------------------
LEMMA StepOwn ==
    ASSUME IInv, Own
    PROVE  IInv' /\ [Promise!Next]_(Promise!vars)
  <1>1. CASE Push \/ Resize \/ StoreItem \/ Pop \/ PopLast \/ PopNothing \/ PopRestore
    <2>1. IInv' /\ Content' = Content
      BY <1>1, StepPush, StepResize, StepStoreItem, StepPop, StepPopLast, StepPopNothing,
         StepPopRestore
    <2>2. holder' = holder
      BY <1>1 DEF Push, Resize, StoreItem, Pop, PopLast, PopNothing, PopRestore, history
    <2> QED BY <2>1, <2>2 DEF Promise!vars
  <1>2. CASE PublishItem
    BY <1>2, StepPublish DEF PublishItem, Promise!Next, Promise!Push
  <1>3. CASE PopTakes
    BY <1>3, StepPopTakes DEF Promise!Next, Promise!Pop, Promise!Give
  <1>4. CASE PopRace
    BY <1>4, StepPopRace DEF Promise!Next, Promise!Pop, Promise!Give, Promise!vars
  <1> QED BY <1>1, <1>2, <1>3, <1>4 DEF Own

LEMMA StepThief ==
    ASSUME IInv, NEW t \in Thieves, Thief(t)
    PROVE  IInv' /\ [Promise!Next]_(Promise!vars)
  <1>1. CASE Steal(t) \/ StealBottom(t) \/ StealArray(t) \/ StealItem(t)
    <2>1. IInv' /\ Content' = Content
      BY <1>1, StepSteal
    <2>2. holder' = holder
      BY <1>1 DEF Steal, StealBottom, StealArray, StealItem, history
    <2> QED BY <2>1, <2>2 DEF Promise!vars
  <1>2. CASE StealSwap(t)
    BY <1>2, StepStealSwap DEF Promise!Next, Promise!Steal, Promise!Give, Promise!vars
  <1> QED BY <1>1, <1>2 DEF Thief

LEMMA StepAny ==
    ASSUME IInv, [Next]_vars
    PROVE  IInv' /\ [Promise!Next]_(Promise!vars)
  <1>1. CASE UNCHANGED vars
    <2>1. UNCHANGED <<top, bottom, arrays, at, seen, array, item, pushed, holder>>
      BY <1>1 DEF vars, shared, local, history
    <2>2. IInv'
      BY <2>1 DEF IInv, TypeOK, ArrayInv, BoundInv, OwnerInv, ThiefInv, ThiefSees,
         ContentInv,
         Current, Size, Slot, End
    <2>3. Content' = Content
      BY <2>1 DEF Content, End, Current, Size, Slot
    <2> QED BY <2>1, <2>2, <2>3 DEF Promise!vars
  <1> QED BY <1>1, StepOwn, StepThief DEF Next

LEMMA Inductive == Spec => []IInv
  BY InitIInv, StepAny, PTL DEF Spec

(* The indices, the arrays and the local copies keep their types: no       *)
(* array is larger than the items ever pushed call for.                    *)
THEOREM TypeCorrect == Spec => []TypeOK
  <1>1. IInv => TypeOK
    BY DEF IInv
  <1> QED BY <1>1, Inductive, PTL

(* An item that was pushed is in the queue or was handed to one thread:    *)
(* neither a race for the last item nor a replaced array loses one.        *)
THEOREM ItemsNeverLost == Spec => []NothingLost
  <1>1. IInv => NothingLost
    <2> SUFFICES ASSUME IInv, NEW o \in 1 .. pushed
                 PROVE  (holder[o] = Nobody) <=> \E n \in DOMAIN Content : Content[n] = o
      BY DEF NothingLost
    <2>1. DOMAIN Content = 1 .. End - top
      BY DEF Content
    <2>2. ASSUME holder[o] = Nobody PROVE \E n \in DOMAIN Content : Content[n] = o
      <3>1. PICK i \in top .. End - 1 : Slot(Current, i) = o
        BY <2>2 DEF IInv, ContentInv
      <3>2. i - top + 1 \in 1 .. End - top /\ top + (i - top + 1) - 1 = i
        BY Types
      <3>3. Content[i - top + 1] = o
        BY <3>1, <3>2, ContentFacts
      <3> QED BY <2>1, <3>2, <3>3
    <2>3. ASSUME NEW n \in DOMAIN Content, Content[n] = o PROVE holder[o] = Nobody
      <3>1. n \in 1 .. End - top /\ top + n - 1 \in top .. End - 1
        BY <2>1, Types
      <3>2. Slot(Current, top + n - 1) = o
        BY <2>3, <3>1, ContentFacts
      <3> QED BY <3>1, <3>2 DEF IInv, ContentInv
    <2> QED BY <2>2, <2>3
  <1> QED BY <1>1, Inductive, PTL

(* Push, pop and steal take effect in one step each, as in Deque: every    *)
(* item goes to one thread, from the end that thread may take from.        *)
THEOREM Refinement == Spec => ImplementsDeque
  <1>1. Init => Promise!Init
    <2> SUFFICES ASSUME Init PROVE Promise!Init
      OBVIOUS
    <2>1. IInv /\ End - top = 0
      BY InitIInv DEF Init, End, Threads
    <2>2. Content = << >>
      BY <2>1, ContentFacts, EmptySeq
    <2> QED BY <2>2 DEF Init, Promise!Init
  <1>2. IInv /\ [Next]_vars => [Promise!Next]_(Promise!vars)
    BY StepAny
  <1> QED BY <1>1, <1>2, Inductive, PTL DEF Spec, ImplementsDeque, Promise!Spec
=============================================================================
