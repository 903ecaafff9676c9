-------------------------- MODULE KMeansParallelHB --------------------------
(***************************************************************************)
(* The happens-before relation of the parallel fit.  Labels and centroids  *)
(* are plain memory: what orders the accesses of two threads to them is    *)
(* the spin barrier's release and acquire operations, the start of a       *)
(* thread and its join, and nothing else.                                  *)
(*                                                                         *)
(* An event stands for the last access of its kind.  known[t] holds the    *)
(* events that happen before whatever thread t does next, and released[a]  *)
(* those a thread learns of when it reads the present value of atomic a    *)
(* with acquire.  A new access takes the place of the one before: whoever  *)
(* knew that one does not know the new one.                                *)
(*                                                                         *)
(* A load may return an older value than the last one stored.  By the      *)
(* coherence of one atomic it only means a later turn of the same spin:    *)
(* each value a thread waits for is stored once after the thread starts.   *)
(***************************************************************************)
EXTENDS KMeansParallel

VARIABLES known, released

hb == <<known, released>>
hbvars == <<vars, hb>>

LabelWrite(i) == <<"label", i>>         \* labels[i] is written
CentroidRead(t) == <<"scan", t>>        \* thread t reads centroids
CentroidWrite == <<"centroids", 0>>     \* the caller writes centroids
LabelRead == <<"count", 0>>             \* the caller reads labels

Events ==
    {LabelWrite(i) : i \in Rows} \cup {CentroidRead(t) : t \in Threads}
        \cup {CentroidWrite, LabelRead}

HBTypeOK ==
    /\ known \in [Threads -> SUBSET Events]
    /\ released \in [{"current_iteration", "finished"} -> SUBSET Events]

HBInit ==
    /\ Init
    /\ known = [t \in Threads |-> Events]
    /\ released = [a \in {"current_iteration", "finished"} |-> {}]

(* Thread t makes the accesses in es. *)
Access(t, es) ==
    /\ known' = [u \in Threads |-> IF u = t THEN known[u] \cup es ELSE known[u] \ es]
    /\ released' = [a \in DOMAIN released |-> released[a] \ es]

(* A store with release leaves what thread t knows with the value.  A      *)
(* relaxed store leaves nothing, and a read-modify-write adds to what the  *)
(* earlier ones left, which it continues as a release sequence.            *)
StoreRelease(t, a) == released' = [released EXCEPT ![a] = known[t]]
StoreRelaxed(a) == released' = [released EXCEPT ![a] = {}]
UpdateRelease(t, a) == released' = [released EXCEPT ![a] = @ \cup known[t]]
LoadAcquire(t, a) == known' = [known EXCEPT ![t] = @ \cup released[a]]

-----------------------------------------------------------------------------
(* The centroids are written first; the store of M + 1 is sequentially     *)
(* consistent, hence also a release.                                       *)
HBCopySampled ==
    /\ CopySampled
    /\ known' = [t \in Threads |->
                    IF t = 0 THEN known[t] \cup {CentroidWrite}
                    ELSE known[t] \ {CentroidWrite}]
    /\ released' = [a \in DOMAIN released |->
                       IF a = "current_iteration" THEN known'[0]
                       ELSE released[a] \ {CentroidWrite}]

(* What the caller did happens before the first step of the new thread. *)
HBSpawn ==
    /\ Spawn
    /\ known' = [known EXCEPT ![loop] = known[0]]
    /\ UNCHANGED released

HBResetRound == ResetRound /\ StoreRelaxed("finished") /\ UNCHANGED known

(* Mutant: the iteration is published with a relaxed store. *)
HBPublish_relaxed == Publish /\ StoreRelaxed("current_iteration") /\ UNCHANGED known

HBPublish == Publish /\ StoreRelease(0, "current_iteration") /\ UNCHANGED known

HBLabelRow(t) ==
    /\ IF t = 0 THEN CallerRow ELSE WorkerRow(t)
    /\ Access(t, {CentroidRead(t), LabelWrite(row[t])})

HBAllFinished == AllFinished /\ LoadAcquire(0, "finished") /\ UNCHANGED released

HBAccumulate == Accumulate /\ Access(0, {LabelRead})
HBDivide == Divide /\ Access(0, {CentroidWrite})

(* The last step of a thread happens before the return of its join. *)
HBJoin ==
    /\ Join
    /\ known' = [known EXCEPT ![0] = @ \cup known[loop]]
    /\ UNCHANGED released

HBCaller ==
    \/ HBCopySampled \/ HBSpawn \/ HBResetRound \/ HBPublish \/ HBLabelRow(0)
    \/ HBAllFinished \/ HBAccumulate \/ HBDivide \/ HBJoin
    \/ /\ \/ SampleRow \/ AllSpawned \/ ComputeChunk \/ CallerRowsDone
          \/ SpinOnCounter \/ Accumulated \/ NextRound \/ SetFitted \/ Return
       /\ UNCHANGED hb

HBSeeIteration(t) ==
    SeeIteration(t) /\ LoadAcquire(t, "current_iteration") /\ UNCHANGED released

HBFinishRows(t) ==
    FinishRows(t) /\ UpdateRelease(t, "finished") /\ UNCHANGED known

HBWorker(t) ==
    \/ HBSeeIteration(t) \/ HBLabelRow(t) \/ HBFinishRows(t)
    \/ SpinOnIteration(t) /\ UNCHANGED hb

HBRefit == Refit /\ UNCHANGED hb

HBNext == HBCaller \/ HBRefit \/ \E t \in Workers : HBWorker(t)

HBSpec == HBInit /\ [][HBNext]_hbvars

HBFairness == WF_hbvars(HBCaller) /\ \A t \in Workers : WF_hbvars(HBWorker(t))
HBFairSpec == HBSpec /\ HBFairness

-----------------------------------------------------------------------------
CentroidsDue ==
    \/ pc = "sample" /\ Len(indices) = K
    \/ pc = "divide" /\ loop < K

(* No data race in the sense of C++: whenever a thread is about to access  *)
(* a label or the centroids, every earlier conflicting access of another   *)
(* thread happens before it.  The labels are conflicting between their     *)
(* writer, the writer of an earlier round or call, and the caller that     *)
(* counts them; the centroids between the caller that writes and all that  *)
(* scan.  A relaxed operation where the code has release or acquire breaks *)
(* it in a schedule that no test on x86 would show.                        *)
NoDataRace ==
    /\ \A t \in Threads : Labelling(t) =>
          {LabelWrite(row[t]), LabelRead, CentroidWrite} \subseteq known[t]
    /\ pc = "accumulate" /\ loop < N => LabelWrite(loop) \in known[0]
    /\ CentroidsDue => \A t \in Threads : CentroidRead(t) \in known[0]
=============================================================================
