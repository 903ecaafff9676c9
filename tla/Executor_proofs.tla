---------------------------- MODULE Executor_proofs ----------------------------
(***************************************************************************)
(* The workers of the executor, for any number of them and of tasks: the   *)
(* counters are exact, nobody sleeps away a task or the shutdown, work     *)
(* that is running is watched, and a join waits for its subflow.           *)
(***************************************************************************)
EXTENDS Executor, Integers, FiniteSetTheorems, WellFoundedInduction, TLAPS

Places ==
    {"wait", "explore", "found", "wake_thief", "exploit", "no_thieves", "wake_one", "invoke",
     "fork", "join", "join_pop", "join_steal", "release", "pop", "inactive", "check_wsq",
     "cancel_steal", "steal", "check_done", "leave", "check_actives", "check_queues",
     "cancel_retry", "commit", "asleep", "wake_all", "exit", "gone"}

(* Where a worker is counted as a thief, as active, and where it has a task. *)
ThiefPlaces ==
    {"explore", "found", "check_wsq", "cancel_steal", "steal", "check_done", "leave",
     "wake_all", "exit"}
ActivePlaces ==
    {"no_thieves", "wake_one", "invoke", "fork", "join", "join_pop", "join_steal", "release",
     "pop", "inactive"}
TaskPlaces ==
    {"found", "wake_thief", "exploit", "no_thieves", "wake_one", "invoke", "fork", "join",
     "join_pop", "join_steal", "release"}

(* Where its queue may hold tasks, and where its innermost task has forked *)
(* none that is not finished.                                              *)
OwnPlaces == {"invoke", "fork", "join", "join_pop", "join_steal", "release", "pop"}
ChildlessPlaces ==
    {"found", "wake_thief", "exploit", "no_thieves", "wake_one", "invoke", "release"}

At(f, P) == {w \in Workers : f[w] \in P}

CountInv ==
    /\ num_thieves = Cardinality(At(at, ThiefPlaces))
    /\ num_actives = Cardinality(At(at, ActivePlaces))

Running == UNION {Inside(w) : w \in Workers}
Unfinished == Queued \cup Running
Joined == UNION {Waits(w) : w \in Workers}
Kids(p) == {t \in Unfinished : parent[t] = p}

Distinct(s) == \A i, j \in DOMAIN s : s[i] = s[j] => i = j

(* A worker leaves its queue when empty. *)
PlaceInv ==
    /\ \A w \in Workers : at[w] \in TaskPlaces <=> stack[w] # <<>>
    /\ \A w \in Workers : worker_wsq[w] # {} => at[w] \in OwnPlaces

(* No task is in two queues, or is started twice. *)
ApartInv ==
    /\ \A w \in Workers : \A t \in worker_wsq[w] : t \notin wsq
    /\ \A w \in Workers : \A t \in worker_wsq[w] :
          \A v \in Workers \ {w} : t \notin worker_wsq[v]
    /\ \A w \in Workers : \A t \in Inside(w) : t \notin Queued
    /\ \A w \in Workers : \A t \in Inside(w) : \A v \in Workers \ {w} : t \notin Inside(v)
    /\ \A w \in Workers : Distinct(stack[w])

MadeInv ==
    /\ \A t \in Unfinished : t <= made
    /\ \A t \in Tasks : t > made => parent[t] = 0
    /\ made + sources <= MaxTasks

(* The task that forked an unfinished one is older, and has not ended. *)
KinInv ==
    \A t \in Unfinished : parent[t] = 0 \/ (parent[t] \in Running /\ parent[t] < t)

JoinInv ==
    /\ \A p \in 0 .. MaxTasks :
          join_counter[p] = Cardinality(Kids(p)) + (IF p = 0 THEN sources ELSE 0)
    /\ num_topologies = IF join_counter[0] = 0 THEN 0 ELSE 1

ChildlessInv ==
    \A w \in Workers : at[w] \in ChildlessPlaces => Kids(Head(stack[w])) = {}

TaskInv == PlaceInv /\ ApartInv /\ MadeInv /\ KinInv /\ JoinInv /\ ChildlessInv

CallInv ==
    /\ caller = "push" <=> sources > 0
    /\ caller \in {"push", "notify"} => wakeups > 0
    /\ caller \in {"ready", "stop", "join", "destroyed"} => join_counter[0] = 0
    /\ done <=> caller \in {"stop", "join", "destroyed"}

(* Where a worker is when it is registered, and when done is final. *)
PreparedPlaces ==
    {"check_wsq", "cancel_steal", "check_done", "leave", "check_actives", "check_queues",
     "cancel_retry", "commit", "wake_all"}

NotifierInv ==
    /\ \A w \in registered : at[w] \in PreparedPlaces
    /\ \A w \in sleeping : at[w] = "asleep"
    /\ \A w \in Workers : at[w] \in {"wake_all", "exit", "gone"} => done
    /\ caller \in {"join", "destroyed"} \/ (\E w \in Workers : at[w] \in {"exit", "gone"}) =>
          /\ sleeping = {}
          /\ \A w \in registered : at[w] \in {"check_wsq", "cancel_steal", "check_done", "wake_all"}

Waiting == registered \cup sleeping

(* w will look at the shared queue before it sleeps, or has been notified. *)
Attentive(w) ==
    \/ at[w] \in {"wait", "explore", "found", "wake_thief", "exploit", "no_thieves", "wake_one",
                  "invoke", "fork", "join", "join_pop", "join_steal", "release", "pop",
                  "inactive", "check_wsq", "cancel_steal", "steal", "cancel_retry"}
    \/ at[w] \in {"check_done", "leave", "check_actives", "check_queues", "commit", "asleep"}
       /\ w \notin Waiting

SharedInv ==
    wsq # {} /\ caller \notin {"push", "notify"} => \E w \in Workers : Attentive(w)

(* w will steal, wake a thief, or see that somebody is active. *)
Watcher(w) ==
    \/ at[w] \in {"wait", "wake_thief", "no_thieves", "wake_one", "check_actives", "cancel_retry"}
    \/ at[w] \in {"check_queues", "commit", "asleep"} /\ w \notin Waiting

WatchInv ==
    num_actives > 0 => num_thieves > 0 \/ Waiting = {} \/ \E w \in Workers : Watcher(w)

IInv == TypeOK /\ CountInv /\ TaskInv /\ CallInv /\ NotifierInv /\ SharedInv /\ WatchInv
-----------------------------------------------------------------------------
(* Counting. *)
LEMMA WorkersFinite ==
    IsFiniteSet(Workers) /\ Cardinality(Workers) = NumWorkers /\ NumWorkers \in Nat
  <1>1. NumWorkers \in Nat /\ NumWorkers > 0
    BY ExecutorAssumption
  <1> QED BY <1>1, FS_Interval DEF Workers

LEMMA AtType ==
    ASSUME NEW f, NEW P
    PROVE  /\ At(f, P) \subseteq Workers /\ IsFiniteSet(At(f, P))
           /\ Cardinality(At(f, P)) \in 0 .. NumWorkers
  <1>1. At(f, P) \in SUBSET Workers
    BY DEF At
  <1>2. IsFiniteSet(At(f, P)) /\ Cardinality(At(f, P)) <= NumWorkers
    BY <1>1, WorkersFinite, FS_Subset
  <1>3. Cardinality(At(f, P)) \in Nat
    BY <1>2, FS_CardinalityType
  <1> QED BY <1>1, <1>2, <1>3, WorkersFinite

LEMMA AtSome ==
    ASSUME NEW f, NEW P
    PROVE  /\ Cardinality(At(f, P)) = 0 <=> At(f, P) = {}
           /\ \A w \in Workers : f[w] \in P => Cardinality(At(f, P)) > 0
  <1>1. Cardinality(At(f, P)) = 0 <=> At(f, P) = {}
    BY AtType, FS_EmptySet
  <1>2. \A w \in Workers : f[w] \in P => At(f, P) # {}
    BY DEF At
  <1>3. Cardinality(At(f, P)) \in Nat
    BY AtType, WorkersFinite
  <1> QED BY <1>1, <1>2, <1>3

One(b) == IF b THEN 1 ELSE 0

LEMMA AtMoved ==
    ASSUME NEW f \in [Workers -> Places], NEW w \in Workers, NEW to, NEW P
    PROVE  Cardinality(At([f EXCEPT ![w] = to], P))
              = Cardinality(At(f, P)) + One(to \in P) - One(f[w] \in P)
  <1> DEFINE g == [f EXCEPT ![w] = to]
  <1>1. g[w] = to /\ \A v \in Workers \ {w} : g[v] = f[v]
    OBVIOUS
  <1> HIDE DEF g
  <1>2. IsFiniteSet(At(f, P)) /\ Cardinality(At(f, P)) \in Nat
    BY AtType, WorkersFinite
  <1>3. CASE to \in P /\ f[w] \notin P
    <2>1. At(g, P) = At(f, P) \cup {w} /\ w \notin At(f, P)
      BY <1>1, <1>3 DEF At
    <2>2. Cardinality(At(g, P)) = Cardinality(At(f, P)) + 1
      BY <1>2, <2>1, FS_AddElement
    <2> QED BY <1>2, <1>3, <2>2 DEF One, g
  <1>4. CASE to \notin P /\ f[w] \in P
    <2>1. At(g, P) = At(f, P) \ {w} /\ w \in At(f, P)
      BY <1>1, <1>4 DEF At
    <2>2. Cardinality(At(g, P)) = Cardinality(At(f, P)) - 1
      BY <1>2, <2>1, FS_RemoveElement
    <2> QED BY <1>2, <1>4, <2>2 DEF One, g
  <1>5. CASE to \in P <=> f[w] \in P
    <2>1. At(g, P) = At(f, P)
      BY <1>1, <1>5 DEF At
    <2> QED BY <1>2, <1>5, <2>1 DEF One, g
  <1> QED BY <1>3, <1>4, <1>5

(* Stacks. *)
Elements(s) == {s[i] : i \in DOMAIN s}

LEMMA Stacked ==
    ASSUME NEW T, NEW s \in Seq(T), NEW t \in T
    PROVE  /\ <<t>> \o s \in Seq(T) /\ <<t>> \o s # <<>> /\ Head(<<t>> \o s) = t
           /\ Elements(<<t>> \o s) = Elements(s) \cup {t}
           /\ Distinct(s) /\ t \notin Elements(s) => Distinct(<<t>> \o s)
  <1> DEFINE r == <<t>> \o s
  <1>1. r \in Seq(T) /\ Len(r) = Len(s) + 1 /\ Len(s) \in Nat
    OBVIOUS
  <1>2. r[1] = t /\ \A i \in 1 .. Len(s) : r[i + 1] = s[i]
    OBVIOUS
  <1>3. DOMAIN r = 1 .. Len(s) + 1 /\ DOMAIN s = 1 .. Len(s)
    BY <1>1
  <1>4. Head(r) = t /\ r # <<>>
    BY <1>1, <1>2
  <1> HIDE DEF r
  <1>5. \A i \in 1 .. Len(s) + 1 : i = 1 \/ (i - 1 \in 1 .. Len(s) /\ r[i] = s[i - 1])
    <2> TAKE i \in 1 .. Len(s) + 1
    <2>1. SUFFICES ASSUME i # 1 PROVE i - 1 \in 1 .. Len(s) /\ r[i] = s[i - 1]
      OBVIOUS
    <2>2. i - 1 \in 1 .. Len(s) /\ (i - 1) + 1 = i
      BY <1>1, <2>1
    <2> QED BY <1>2, <2>2
  <1>6. \A i \in 1 .. Len(s) : i + 1 \in 1 .. Len(s) + 1
    BY <1>1
  <1>7. 1 \in 1 .. Len(s) + 1
    BY <1>1
  <1>8. Elements(r) = Elements(s) \cup {t}
    <2>1. \A x \in Elements(r) : x \in Elements(s) \cup {t}
      BY <1>2, <1>3, <1>5 DEF Elements
    <2>2. \A x \in Elements(s) \cup {t} : x \in Elements(r)
      BY <1>2, <1>3, <1>6, <1>7 DEF Elements
    <2> QED BY <2>1, <2>2
  <1>9. ASSUME Distinct(s), t \notin Elements(s) PROVE Distinct(r)
    <2> SUFFICES ASSUME NEW i \in 1 .. Len(s) + 1, NEW j \in 1 .. Len(s) + 1, r[i] = r[j]
                 PROVE  i = j
      BY <1>3 DEF Distinct
    <2>1. \A k \in 1 .. Len(s) : s[k] # t
      BY <1>3, <1>9 DEF Elements
    <2>2. CASE i = 1 \/ j = 1
      BY <1>2, <1>5, <2>1, <2>2
    <2>3. CASE i # 1 /\ j # 1
      <3>1. i - 1 \in 1 .. Len(s) /\ j - 1 \in 1 .. Len(s) /\ s[i - 1] = s[j - 1]
        BY <1>5, <2>3
      <3>2. i - 1 = j - 1
        BY <1>3, <1>9, <3>1 DEF Distinct
      <3> QED BY <1>1, <3>2
    <2> QED BY <2>2, <2>3
  <1> QED BY <1>1, <1>4, <1>8, <1>9 DEF r

LEMMA Unstacked ==
    ASSUME NEW T, NEW s \in Seq(T), s # <<>>
    PROVE  /\ Head(s) \in T /\ Head(s) \in Elements(s)
           /\ Tail(s) \in Seq(T) /\ (Len(s) = 1 <=> Tail(s) = <<>>)
           /\ Distinct(s) => Distinct(Tail(s)) /\ Elements(Tail(s)) = Elements(s) \ {Head(s)}
  <1>1. Len(s) \in Nat /\ Len(s) > 0 /\ DOMAIN s = 1 .. Len(s) /\ Head(s) = s[1]
    OBVIOUS
  <1>2. Head(s) \in T /\ Head(s) \in Elements(s)
    <2>1. 1 \in 1 .. Len(s)
      BY <1>1
    <2> QED BY <1>1, <2>1 DEF Elements
  <1> DEFINE r == Tail(s)
  <1>3. /\ r \in Seq(T) /\ Len(r) = Len(s) - 1
        /\ \A i \in 1 .. Len(s) - 1 : r[i] = s[i + 1]
    OBVIOUS
  <1>4. DOMAIN r = 1 .. Len(s) - 1 /\ (Len(s) = 1 <=> r = <<>>)
    BY <1>1, <1>3
  <1> HIDE DEF r
  <1>5. \A i \in 1 .. Len(s) - 1 : i + 1 \in 1 .. Len(s) /\ i + 1 # 1
    BY <1>1
  <1>6. \A i \in 1 .. Len(s) : i = 1 \/ (i - 1 \in 1 .. Len(s) - 1 /\ r[i - 1] = s[i])
    <2> TAKE i \in 1 .. Len(s)
    <2>1. SUFFICES ASSUME i # 1 PROVE i - 1 \in 1 .. Len(s) - 1 /\ r[i - 1] = s[i]
      OBVIOUS
    <2>2. i - 1 \in 1 .. Len(s) - 1 /\ (i - 1) + 1 = i
      BY <1>1, <2>1
    <2> QED BY <1>3, <2>2
  <1>7. ASSUME Distinct(s) PROVE Distinct(r) /\ Elements(r) = Elements(s) \ {Head(s)}
    <2>1. Distinct(r)
      <3> SUFFICES ASSUME NEW i \in 1 .. Len(s) - 1, NEW j \in 1 .. Len(s) - 1, r[i] = r[j]
                   PROVE  i = j
        BY <1>4 DEF Distinct
      <3>1. s[i + 1] = s[j + 1]
        BY <1>3
      <3>2. i + 1 = j + 1
        BY <1>1, <1>5, <1>7, <3>1 DEF Distinct
      <3> QED BY <1>1, <3>2
    <2>2. \A x \in Elements(r) : x \in Elements(s) /\ x # Head(s)
      <3> SUFFICES ASSUME NEW i \in 1 .. Len(s) - 1
                   PROVE  r[i] \in Elements(s) /\ r[i] # Head(s)
        BY <1>4 DEF Elements
      <3>1. r[i] = s[i + 1] /\ i + 1 \in 1 .. Len(s) /\ i + 1 # 1 /\ 1 \in 1 .. Len(s)
        BY <1>1, <1>3, <1>5
      <3> QED BY <1>1, <1>7, <3>1 DEF Distinct, Elements
    <2>3. \A x \in Elements(s) : x = Head(s) \/ x \in Elements(r)
      BY <1>1, <1>4, <1>6 DEF Elements
    <2> QED BY <2>1, <2>2, <2>3
  <1> QED BY <1>2, <1>3, <1>4, <1>7 DEF r
-----------------------------------------------------------------------------
(* What a step does to the tasks, and that it is one of the pool. *)
PoolStep == [Pool!Next]_(Pool!vars)

LEMMA TaskTypes ==
    ASSUME TypeOK
    PROVE  /\ at \in [Workers -> Places] /\ stack \in [Workers -> Seq(Tasks)]
           /\ num_actives \in Nat /\ num_thieves \in Nat /\ sources \in Nat /\ wakeups \in Nat
           /\ made \in Nat /\ MaxTasks \in Nat /\ NumWorkers \in Nat /\ NumWorkers > 0
           /\ \A w \in Workers : Inside(w) = Elements(stack[w]) /\ Inside(w) \subseteq Tasks
           /\ Queued \subseteq Tasks /\ Running \subseteq Tasks /\ Unfinished \subseteq Tasks
           /\ \A t \in Tasks : t \in Nat /\ t # 0
  <1> USE ExecutorAssumption DEF TypeOK
  <1>1. /\ at \in [Workers -> Places] /\ stack \in [Workers -> Seq(Tasks)]
        /\ num_actives \in Nat /\ num_thieves \in Nat /\ sources \in Nat /\ wakeups \in Nat
        /\ made \in Nat /\ MaxTasks \in Nat /\ NumWorkers \in Nat /\ NumWorkers > 0
    BY DEF Places
  <1>2. ASSUME NEW w \in Workers
        PROVE  Inside(w) = Elements(stack[w]) /\ Inside(w) \subseteq Tasks
    <2>1. stack[w] \in Seq(Tasks)
      BY <1>1
    <2>2. \A i \in DOMAIN stack[w] : stack[w][i] \in Tasks
      BY <2>1
    <2> QED BY <2>2 DEF Inside, Elements
  <1>3. Queued \subseteq Tasks
    BY DEF Queued
  <1>4. Running \subseteq Tasks
    BY <1>2 DEF Running
  <1>5. \A t \in Tasks : t \in Nat /\ t # 0
    BY <1>1 DEF Tasks
  <1> QED BY <1>1, <1>2, <1>3, <1>4, <1>5 DEF Unfinished

(* The task a worker is in. *)
LEMMA Innermost ==
    ASSUME TypeOK, PlaceInv, NEW w \in Workers, at[w] \in TaskPlaces
    PROVE  /\ stack[w] \in Seq(Tasks) /\ stack[w] # <<>>
           /\ Head(stack[w]) \in Tasks /\ Head(stack[w]) \in Inside(w)
           /\ Head(stack[w]) \in Running /\ Head(stack[w]) \in Unfinished
  <1>1. stack[w] \in Seq(Tasks) /\ stack[w] # <<>> /\ Inside(w) = Elements(stack[w])
    BY TaskTypes DEF PlaceInv
  <1>2. Head(stack[w]) \in Tasks /\ Head(stack[w]) \in Inside(w)
    BY <1>1, Unstacked
  <1> QED BY <1>1, <1>2 DEF Running, Unfinished

LEMMA KidsFinite ==
    ASSUME TypeOK, MadeInv, NEW p
    PROVE  /\ IsFiniteSet(Kids(p)) /\ Cardinality(Kids(p)) \in Nat
           /\ Cardinality(Kids(p)) <= made
           /\ Cardinality(Kids(p)) = 0 <=> Kids(p) = {}
  <1>1. \A t \in Kids(p) : t \in 1 .. made
    BY TaskTypes DEF Kids, MadeInv, Tasks
  <1>2. Kids(p) \in SUBSET (1 .. made)
    BY <1>1
  <1>3. IsFiniteSet(1 .. made) /\ Cardinality(1 .. made) = made
    BY TaskTypes, FS_Interval
  <1>4. IsFiniteSet(Kids(p)) /\ Cardinality(Kids(p)) <= made
    BY <1>2, <1>3, FS_Subset
  <1> QED BY <1>4, FS_CardinalityType, FS_EmptySet

(* When no task without a parent is left, none is: the oldest has no parent. *)
LEMMA NoneLeft ==
    ASSUME TypeOK, TaskInv, join_counter[0] = 0
    PROVE  Unfinished = {} /\ sources = 0 /\ num_topologies = 0
  <1>1. Kids(0) = {} /\ sources = 0
    <2>1. 0 \in 0 .. MaxTasks
      BY TaskTypes
    <2>2. join_counter[0] = Cardinality(Kids(0)) + sources
      BY <2>1 DEF TaskInv, JoinInv
    <2>3. Cardinality(Kids(0)) \in Nat /\ sources \in Nat
      BY KidsFinite, TaskTypes DEF TaskInv
    <2> QED BY <2>2, <2>3, KidsFinite DEF TaskInv
  <1>2. ASSUME Unfinished # {} PROVE FALSE
    <2>1. Unfinished \subseteq Nat
      BY TaskTypes
    <2>2. PICK t \in Unfinished : \A u \in Unfinished : ~ (<<u, t>> \in OpToRel(<, Nat))
      BY <1>2, <2>1, NatLessThanWellFounded, WFMin
    <2>3. parent[t] # 0
      BY <1>1 DEF Kids
    <2>4. parent[t] \in Running /\ parent[t] < t
      BY <2>3 DEF TaskInv, KinInv
    <2>5. parent[t] \in Unfinished
      BY <2>4 DEF Unfinished
    <2>6. <<parent[t], t>> \in OpToRel(<, Nat)
      BY <2>1, <2>4, <2>5 DEF OpToRel
    <2> QED BY <2>2, <2>5, <2>6
  <1>3. num_topologies = 0
    BY DEF TaskInv, JoinInv
  <1> QED BY <1>1, <1>2, <1>3

(* The executor's state as one of the pool. *)
LEMMA AsPool ==
    /\ Pool!Running = Running
    /\ \A p : Pool!Children(p) = Kids(p)
    /\ Pool!Tasks = Tasks
  <1>1. Pool!Running = Running
    BY DEF Pool!Running, Running
  <1>2. \A p : Pool!Children(p) = Kids(p)
    BY <1>1 DEF Pool!Children, Kids, Unfinished
  <1> QED BY <1>1, <1>2 DEF Pool!Tasks, Tasks

(* What waits on a worker, and the part of it that is not the innermost.   *)
LEMMA WaitsIs ==
    ASSUME TypeOK, TaskInv, NEW w \in Workers
    PROVE  /\ at[w] \in JoinPlaces => Waits(w) = Inside(w)
           /\ at[w] \notin TaskPlaces => Waits(w) = {} /\ Inside(w) = {}
           /\ at[w] \in TaskPlaces \ JoinPlaces => Waits(w) = Inside(w) \ {Head(stack[w])}
           /\ Waits(w) \subseteq Inside(w)
  <1>1. at[w] \notin TaskPlaces => Inside(w) = {}
    BY DEF TaskInv, PlaceInv, Inside
  <1> QED BY <1>1 DEF Waits

(* A task waits in a join only on the worker that is in it. *)
LEMMA JoinedIs ==
    ASSUME TypeOK, TaskInv, NEW w \in Workers, NEW t \in Inside(w)
    PROVE  t \in Joined <=> t \in Waits(w)
  <1>1. \A v \in Workers \ {w} : t \notin Waits(v)
    BY WaitsIs DEF TaskInv, ApartInv
  <1> QED BY <1>1 DEF Joined

(* Nothing changes for the others when one worker's stack does. *)
LEMMA OthersStay ==
    ASSUME NEW w \in Workers,
           \A v \in Workers \ {w} : at'[v] = at[v] /\ stack'[v] = stack[v]
    PROVE  \A v \in Workers \ {w} : Inside(v)' = Inside(v) /\ Waits(v)' = Waits(v)
  BY DEF Inside, Waits

LEMMA TasksStay ==
    ASSUME UNCHANGED <<wsq, worker_wsq, stack, parent>>
    PROVE  /\ Queued' = Queued /\ Running' = Running /\ Unfinished' = Unfinished
           /\ \A v \in Workers : Inside(v)' = Inside(v)
           /\ \A p : Kids(p)' = Kids(p)
  <1>1. Queued' = Queued /\ \A v \in Workers : Inside(v)' = Inside(v)
    BY DEF Queued, Inside
  <1>2. Running' = Running /\ Unfinished' = Unfinished
    BY <1>1 DEF Running, Unfinished
  <1> QED BY <1>1, <1>2 DEF Kids

(* A worker goes on, or stays, and no task is made, taken or finished. *)
LEMMA MoveTasks ==
    ASSUME TypeOK, TaskInv, NEW w \in Workers, UNCHANGED <<queues, stack, topology, sources>>,
           \A v \in Workers \ {w} : at'[v] = at[v],
           at[w] \in TaskPlaces <=> at'[w] \in TaskPlaces,
           worker_wsq[w] # {} => at'[w] \in OwnPlaces,
           at'[w] \in ChildlessPlaces => at[w] \in ChildlessPlaces \/ Kids(Head(stack[w])) = {}
    PROVE  TaskInv'
  <1> USE DEF queues, topology
  <1>1. /\ Queued' = Queued /\ Running' = Running /\ Unfinished' = Unfinished
        /\ \A v \in Workers : Inside(v)' = Inside(v)
        /\ \A p : Kids(p)' = Kids(p)
    BY TasksStay
  <1>2. PlaceInv'
    BY DEF TaskInv, PlaceInv
  <1>3. ApartInv'
    BY <1>1 DEF TaskInv, ApartInv
  <1>4. MadeInv' /\ KinInv'
    BY <1>1 DEF TaskInv, MadeInv, KinInv
  <1>5. JoinInv'
    BY <1>1 DEF TaskInv, JoinInv
  <1>6. ChildlessInv'
    BY <1>1 DEF TaskInv, ChildlessInv
  <1> QED BY <1>2, <1>3, <1>4, <1>5, <1>6 DEF TaskInv

(* The pool does not see a worker that neither enters nor leaves a join. *)
LEMMA PoolStays ==
    ASSUME TypeOK, TaskInv, NEW w \in Workers, UNCHANGED <<queues, stack, topology, done>>,
           \A v \in Workers \ {w} : at'[v] = at[v],
           at[w] \in JoinPlaces <=> at'[w] \in JoinPlaces
    PROVE  UNCHANGED Pool!vars
  <1> USE DEF queues, topology
  <1>1. Queued' = Queued /\ \A v \in Workers : Inside(v)' = Inside(v)
    BY TasksStay
  <1>2. \A v \in Workers : Waits(v)' = Waits(v)
    BY <1>1 DEF Waits
  <1> QED BY <1>1, <1>2 DEF Pool!vars

(* A task comes off a queue. *)
Dequeue(t) == StealShared(t) \/ \E v \in Workers : StealFrom(v, t)

LEMMA Dequeued ==
    ASSUME TypeOK, TaskInv, NEW t, Dequeue(t)
    PROVE  /\ t \in Queued /\ t \in Tasks /\ Queued' = Queued \ {t}
           /\ wsq' \subseteq wsq /\ \A v \in Workers : worker_wsq'[v] \subseteq worker_wsq[v]
           /\ worker_wsq' \in [Workers -> SUBSET Tasks]
  <1> USE DEF TypeOK
  <1>1. CASE StealShared(t)
    <2>1. /\ t \in wsq /\ wsq' = wsq \ {t} /\ worker_wsq' = worker_wsq
          /\ \A v \in Workers : t \notin worker_wsq[v]
      BY <1>1 DEF StealShared, TaskInv, ApartInv
    <2>2. t \in Queued /\ Queued' = Queued \ {t}
      BY <2>1 DEF Queued
    <2> QED BY <2>1, <2>2
  <1>2. ASSUME NEW v \in Workers, StealFrom(v, t)
        PROVE  /\ t \in Queued /\ t \in Tasks /\ Queued' = Queued \ {t}
               /\ wsq' \subseteq wsq /\ \A u \in Workers : worker_wsq'[u] \subseteq worker_wsq[u]
               /\ worker_wsq' \in [Workers -> SUBSET Tasks]
    <2>1. /\ t \in worker_wsq[v] /\ wsq' = wsq
          /\ worker_wsq' = [worker_wsq EXCEPT ![v] = worker_wsq[v] \ {t}]
      BY <1>2 DEF StealFrom
    <2>2. /\ worker_wsq'[v] = worker_wsq[v] \ {t}
          /\ \A u \in Workers \ {v} : worker_wsq'[u] = worker_wsq[u]
          /\ worker_wsq' \in [Workers -> SUBSET Tasks]
      BY <2>1
    <2>3. t \notin wsq /\ \A u \in Workers \ {v} : t \notin worker_wsq[u]
      BY <2>1 DEF TaskInv, ApartInv
    <2>4. t \in Queued /\ Queued' = Queued \ {t}
      BY <2>1, <2>2, <2>3 DEF Queued
    <2> QED BY <2>1, <2>2, <2>4
  <1> QED BY <1>1, <1>2 DEF Dequeue

(* A worker starts a task that comes off a queue. *)
LEMMA TakeTask ==
    ASSUME TypeOK, TaskInv, NEW w \in Workers, NEW t, Dequeue(t), NEW from, NEW to,
           from \in JoinPlaces \/ from \notin TaskPlaces,
           to \in TaskPlaces \ JoinPlaces, worker_wsq[w] # {} => to \in OwnPlaces,
           Take(w, t, from, to), UNCHANGED <<topology, sources, done>>
    PROVE  TaskInv' /\ Pool!Start(w) /\ stack' \in [Workers -> Seq(Tasks)]
  <1> USE DEF topology
  <1>1. /\ t \in Queued /\ t \in Tasks /\ Queued' = Queued \ {t}
        /\ wsq' \subseteq wsq /\ \A v \in Workers : worker_wsq'[v] \subseteq worker_wsq[v]
    BY Dequeued
  <1>2. /\ at[w] = from /\ at'[w] = to /\ \A v \in Workers \ {w} : at'[v] = at[v]
        /\ stack'[w] = <<t>> \o stack[w] /\ \A v \in Workers \ {w} : stack'[v] = stack[v]
        /\ stack' = [stack EXCEPT ![w] = <<t>> \o stack[w]] /\ stack[w] \in Seq(Tasks)
    BY TaskTypes DEF Take, Move
  <1>3. /\ stack'[w] \in Seq(Tasks) /\ stack'[w] # <<>> /\ Head(stack'[w]) = t
        /\ Inside(w)' = Inside(w) \cup {t}
        /\ Distinct(stack[w]) /\ t \notin Inside(w) => Distinct(stack'[w])
    <2>1. Inside(w)' = Elements(stack'[w])
      BY DEF Inside, Elements
    <2>2. Inside(w) = Elements(stack[w])
      BY TaskTypes
    <2> QED BY <1>1, <1>2, <2>1, <2>2, Stacked
  <1>4. /\ \A v \in Workers : t \notin Inside(v)
        /\ \A v \in Workers \ {w} : Inside(v)' = Inside(v) /\ Waits(v)' = Waits(v)
    BY <1>1, <1>2, OthersStay DEF TaskInv, ApartInv
  <1>5. Running' = Running \cup {t} /\ Unfinished' = Unfinished
    <2>1. Running' = Running \cup {t}
      BY <1>3, <1>4 DEF Running
    <2> QED BY <1>1, <2>1 DEF Unfinished
  <1>6. \A p : Kids(p)' = Kids(p)
    BY <1>5 DEF Kids
  <1>7. PlaceInv'
    BY <1>1, <1>2, <1>3 DEF TaskInv, PlaceInv
  <1>8. ApartInv'
    <2>1. /\ \A v \in Workers : \A u \in worker_wsq'[v] : u \notin wsq'
          /\ \A v \in Workers : \A u \in worker_wsq'[v] :
                \A x \in Workers \ {v} : u \notin worker_wsq'[x]
      BY <1>1 DEF TaskInv, ApartInv
    <2>2. \A v \in Workers : \A u \in Inside(v)' : u \notin Queued'
      BY <1>1, <1>3, <1>4 DEF TaskInv, ApartInv
    <2>3. \A v \in Workers : \A u \in Inside(v)' : \A x \in Workers \ {v} : u \notin Inside(x)'
      BY <1>3, <1>4 DEF TaskInv, ApartInv
    <2>4. \A v \in Workers : Distinct(stack'[v])
      BY <1>2, <1>3, <1>4 DEF TaskInv, ApartInv
    <2> QED BY <2>1, <2>2, <2>3, <2>4 DEF ApartInv, Distinct
  <1>9. MadeInv' /\ KinInv'
    BY <1>5 DEF TaskInv, MadeInv, KinInv
  <1>10. JoinInv'
    BY <1>6 DEF TaskInv, JoinInv
  <1>11. ChildlessInv'
    <2>1. Kids(t) = {}
      <3>1. t \notin Running /\ t # 0
        BY <1>1, <1>4, TaskTypes DEF Running
      <3> QED BY <3>1 DEF Kids, TaskInv, KinInv
    <2> QED BY <1>2, <1>3, <1>6, <2>1 DEF TaskInv, ChildlessInv
  <1>12. Pool!Start(w)
    <2>1. Inside(w) \subseteq Joined
      BY <1>2, WaitsIs DEF Joined
    <2>2. Waits(w)' = Waits(w)
      <3>1. Waits(w)' = Inside(w)' \ {t}
        BY <1>2, <1>3 DEF Waits
      <3>2. Waits(w) = Inside(w)
        BY <1>2, WaitsIs
      <3> QED BY <1>3, <1>4, <3>1, <3>2
    <2>3. Joined' = Joined
      BY <1>4, <2>2 DEF Joined
    <2>4. [v \in Workers |-> Inside(v)]' = [[v \in Workers |-> Inside(v)] EXCEPT ![w] = @ \cup {t}]
      BY <1>3, <1>4
    <2> QED BY <1>1, <2>1, <2>3, <2>4 DEF Pool!Start, Joined
  <1>13. stack' \in [Workers -> Seq(Tasks)]
    BY <1>2, <1>3, TaskTypes
  <1> QED BY <1>7, <1>8, <1>9, <1>10, <1>11, <1>12, <1>13 DEF TaskInv

(* A new task has no children, and one parent or none. *)
LEMMA NewTask ==
    ASSUME TypeOK, TaskInv, made + sources <= MaxTasks, made < MaxTasks,
           NEW p, p = 0 \/ p \in Running,
           made' = made + 1, parent' = [parent EXCEPT ![made + 1] = p],
           Queued' = Queued \cup {made + 1}, stack' = stack
    PROVE  /\ made + 1 \in Tasks /\ made + 1 \notin Unfinished /\ p \in 0 .. MaxTasks
           /\ Running' = Running /\ Unfinished' = Unfinished \cup {made + 1}
           /\ \A v \in Workers : Inside(v)' = Inside(v)
           /\ \A q : q # p => Kids(q)' = Kids(q)
           /\ Cardinality(Kids(p)') = Cardinality(Kids(p)) + 1
           /\ parent' \in [Tasks -> 0 .. MaxTasks] /\ made' \in 0 .. MaxTasks
           /\ KinInv'
           /\ \A t \in Unfinished' : t <= made'
           /\ \A t \in Tasks : t > made' => parent'[t] = 0
  <1> DEFINE n == made + 1
  <1>1. n \in Tasks /\ made \in Nat /\ MaxTasks \in Nat /\ n = made + 1
    BY TaskTypes DEF Tasks
  <1>2. n \notin Unfinished
    <2>1. ~ (n <= made)
      BY <1>1
    <2> QED BY <2>1 DEF TaskInv, MadeInv
  <1>3. p \in 0 .. MaxTasks /\ (p # 0 => p \in Unfinished /\ p < n)
    <2>1. CASE p = 0
      BY <1>1, <2>1
    <2>2. CASE p \in Running
      <3>1. p \in Unfinished /\ p \in Tasks
        BY <2>2, TaskTypes DEF Unfinished
      <3>2. p <= made
        BY <3>1 DEF TaskInv, MadeInv
      <3> QED BY <1>1, <3>1, <3>2 DEF Tasks
    <2> QED BY <2>1, <2>2
  <1>4. Running' = Running /\ \A v \in Workers : Inside(v)' = Inside(v)
    BY DEF Running, Inside
  <1>5. Unfinished' = Unfinished \cup {n}
    BY <1>4 DEF Unfinished
  <1>6. /\ parent \in [Tasks -> 0 .. MaxTasks] /\ parent' \in [Tasks -> 0 .. MaxTasks]
        /\ parent'[n] = p /\ \A t \in Tasks : t # n => parent'[t] = parent[t]
    BY <1>1, <1>3 DEF TypeOK
  <1>7. Unfinished \subseteq Tasks
    BY TaskTypes
  <1> HIDE DEF n
  <1>8. \A q : q # p => Kids(q)' = Kids(q)
    BY <1>2, <1>5, <1>6, <1>7 DEF Kids
  <1>9. Kids(p)' = Kids(p) \cup {n} /\ n \notin Kids(p)
    BY <1>2, <1>5, <1>6, <1>7 DEF Kids
  <1>10. Cardinality(Kids(p)') = Cardinality(Kids(p)) + 1
    BY <1>9, KidsFinite, FS_AddElement DEF TaskInv
  <1>11. KinInv'
    <2>1. \A t \in Unfinished :
             parent'[t] = 0 \/ (parent'[t] \in Running /\ parent'[t] < t)
      BY <1>2, <1>6, <1>7 DEF TaskInv, KinInv
    <2>2. parent'[n] = 0 \/ (parent'[n] \in Running /\ parent'[n] < n)
      BY <1>3, <1>6
    <2> QED BY <1>4, <1>5, <2>1, <2>2 DEF KinInv
  <1>12. \A t \in Unfinished' : t <= made'
    <2>1. \A t \in Unfinished : t \in Nat /\ t <= made
      BY <1>7, TaskTypes DEF TaskInv, MadeInv
    <2>2. \A t \in Unfinished : t <= made'
      BY <1>1, <2>1
    <2>3. n <= made'
      BY <1>1
    <2> QED BY <1>5, <2>2, <2>3
  <1>13. \A t \in Tasks : t > made' => parent'[t] = 0
    <2>1. \A t \in Tasks : t \in Nat /\ (t > made' => t > made /\ t # n)
      BY <1>1, TaskTypes
    <2> QED BY <1>6, <2>1 DEF TaskInv, MadeInv
  <1>14. made' \in 0 .. MaxTasks
    BY <1>1
  <1> QED BY <1>1, <1>2, <1>3, <1>4, <1>5, <1>6, <1>8, <1>10, <1>11, <1>12, <1>13, <1>14 DEF n

(* A running task queues one on its worker. *)
LEMMA PushTask ==
    ASSUME TypeOK, TaskInv, ~ done, NEW w \in Workers, NEW p, p = 0 \/ p \in Running, Push(w, p),
           at[w] \in TaskPlaces \ JoinPlaces, at'[w] \in {"fork", "release"},
           \A v \in Workers \ {w} : at'[v] = at[v],
           \A v \in Workers : at'[v] \in ChildlessPlaces =>
              Kids(Head(stack[v])) = {} /\ Head(stack[v]) # p
    PROVE  /\ TaskInv' /\ Pool!Submit(p)
           /\ worker_wsq' \in [Workers -> SUBSET Tasks] /\ made' \in 0 .. MaxTasks
           /\ parent' \in [Tasks -> 0 .. MaxTasks]
           /\ join_counter' \in [0 .. MaxTasks -> 0 .. MaxTasks]
  <1> DEFINE n == made + 1
  <1>1. /\ made + sources < MaxTasks /\ made' = n /\ parent' = [parent EXCEPT ![n] = p]
        /\ join_counter' = [join_counter EXCEPT ![p] = join_counter[p] + 1]
        /\ worker_wsq' = [worker_wsq EXCEPT ![w] = worker_wsq[w] \cup {n}]
        /\ UNCHANGED <<wsq, done, stack, sources, num_topologies>>
    BY DEF Push, call
  <1>2. made \in Nat /\ sources \in Nat /\ MaxTasks \in Nat
    BY TaskTypes
  <1>3. made < MaxTasks /\ made' + sources <= MaxTasks /\ made + sources <= MaxTasks
    BY <1>1, <1>2
  <1>4. /\ worker_wsq'[w] = worker_wsq[w] \cup {n}
        /\ \A v \in Workers \ {w} : worker_wsq'[v] = worker_wsq[v]
    BY <1>1 DEF TypeOK
  <1>5. Queued' = Queued \cup {n}
    BY <1>1, <1>4 DEF Queued
  <1>6. /\ n \in Tasks /\ n \notin Unfinished /\ p \in 0 .. MaxTasks
        /\ Running' = Running /\ Unfinished' = Unfinished \cup {n}
        /\ \A v \in Workers : Inside(v)' = Inside(v)
        /\ \A q : q # p => Kids(q)' = Kids(q)
        /\ Cardinality(Kids(p)') = Cardinality(Kids(p)) + 1
        /\ parent' \in [Tasks -> 0 .. MaxTasks] /\ made' \in 0 .. MaxTasks
        /\ KinInv' /\ \A t \in Unfinished' : t <= made'
        /\ \A t \in Tasks : t > made' => parent'[t] = 0
    BY <1>1, <1>3, <1>5, NewTask
  <1> HIDE DEF n
  <1>7. worker_wsq' \in [Workers -> SUBSET Tasks]
    BY <1>1, <1>6 DEF TypeOK
  <1>8. PlaceInv'
    <2>1. at'[w] \in TaskPlaces \cap OwnPlaces
      BY DEF TaskPlaces, OwnPlaces
    <2> QED BY <1>1, <1>4, <2>1 DEF TaskInv, PlaceInv
  <1>9. ApartInv'
    <2>1. /\ \A v \in Workers : n \notin Inside(v) /\ n \notin worker_wsq[v]
          /\ n \notin wsq
      BY <1>6 DEF Unfinished, Queued, Running
    <2>2. /\ \A v \in Workers : \A u \in worker_wsq'[v] : u \notin wsq'
          /\ \A v \in Workers : \A u \in worker_wsq'[v] :
                \A x \in Workers \ {v} : u \notin worker_wsq'[x]
      BY <1>1, <1>4, <2>1 DEF TaskInv, ApartInv
    <2>3. /\ \A v \in Workers : \A u \in Inside(v)' : u \notin Queued'
          /\ \A v \in Workers : \A u \in Inside(v)' : \A x \in Workers \ {v} : u \notin Inside(x)'
      BY <1>5, <1>6, <2>1 DEF TaskInv, ApartInv
    <2> QED BY <1>1, <2>2, <2>3 DEF TaskInv, ApartInv, Distinct
  <1>10. MadeInv'
    BY <1>1, <1>3, <1>6 DEF MadeInv
  <1>11. /\ \A q \in 0 .. MaxTasks : q # p => join_counter'[q] = join_counter[q]
         /\ join_counter'[p] = join_counter[p] + 1
         /\ \A q \in 0 .. MaxTasks : join_counter[q] \in Nat
    <2>1. join_counter \in [0 .. MaxTasks -> 0 .. MaxTasks]
      BY DEF TypeOK
    <2>2. \A q \in 0 .. MaxTasks : join_counter[q] \in Nat
      BY <1>2, <2>1
    <2> QED BY <1>1, <1>6, <2>1, <2>2
  <1>12. JoinInv'
    <2>1. ASSUME NEW q \in 0 .. MaxTasks
          PROVE  join_counter'[q] = Cardinality(Kids(q)') + (IF q = 0 THEN sources' ELSE 0)
      <3>1. join_counter[q] = Cardinality(Kids(q)) + (IF q = 0 THEN sources ELSE 0)
        BY DEF TaskInv, JoinInv
      <3>2. Cardinality(Kids(q)) \in Nat
        BY KidsFinite DEF TaskInv
      <3> QED BY <1>1, <1>2, <1>6, <1>11, <3>1, <3>2
    <2>2. num_topologies = 1
      <3>1. join_counter[0] # 0
        BY Innermost, NoneLeft DEF TaskInv
      <3> QED BY <3>1 DEF TaskInv, JoinInv
    <2>3. join_counter'[0] # 0
      <3>1. join_counter[0] # 0 /\ 0 \in 0 .. MaxTasks
        BY <1>2, <2>2 DEF TaskInv, JoinInv
      <3> QED BY <1>11, <3>1
    <2> QED BY <1>1, <2>1, <2>2, <2>3 DEF JoinInv
  <1>13. ChildlessInv'
    BY <1>1, <1>6 DEF ChildlessInv
  <1>14. TaskInv'
    BY <1>6, <1>8, <1>9, <1>10, <1>12, <1>13 DEF TaskInv
  <1>15. join_counter' \in [0 .. MaxTasks -> 0 .. MaxTasks]
    <2>1. \A q \in 0 .. MaxTasks : join_counter'[q] \in 0 .. MaxTasks
      <3> TAKE q \in 0 .. MaxTasks
      <3>1. join_counter'[q] = Cardinality(Kids(q)') + (IF q = 0 THEN sources ELSE 0)
        BY <1>1, <1>12 DEF JoinInv, Kids, Unfinished, Queued, Running
      <3>2. Cardinality(Kids(q)') \in Nat /\ Cardinality(Kids(q)') <= made'
        <4>1. Cardinality(Kids(q)) \in Nat /\ Cardinality(Kids(q)) <= made
          BY KidsFinite DEF TaskInv
        <4> QED BY <1>1, <1>2, <1>6, <4>1 DEF n
      <3> QED BY <1>1, <1>2, <1>3, <3>1, <3>2 DEF n
    <2> QED BY <1>1, <1>6, <2>1 DEF TypeOK
  <1>16. Pool!Submit(p)
    <2>1. \A v \in Workers : Waits(v)' = Waits(v)
      <3>1. at[w] \notin JoinPlaces /\ at'[w] \notin JoinPlaces
        BY DEF JoinPlaces
      <3> QED BY <1>1, <1>6, <3>1 DEF Waits
    <2>2. p = 0 \/ p \in Pool!Running
      BY AsPool
    <2> QED BY <1>1, <1>3, <1>5, <1>6, <2>1, <2>2 DEF Pool!Submit, n
  <1> QED BY <1>6, <1>7, <1>14, <1>15, <1>16

(* The innermost task of a worker ends, and none is its child. *)
LEMMA FinishTask ==
    ASSUME TypeOK, TaskInv, NEW w \in Workers, Finish(w),
           NEW t, t = Head(stack[w]), NEW p, p = parent[t]
    PROVE  /\ TaskInv' /\ Pool!Finish(w, t) /\ at'[w] \in {"join", "pop"}
           /\ stack' \in [Workers -> Seq(Tasks)] /\ parent' \in [Tasks -> 0 .. MaxTasks]
           /\ join_counter' \in [0 .. MaxTasks -> 0 .. MaxTasks]
           /\ num_topologies' \in 0 .. 1
  <1> DEFINE next == IF Len(stack[w]) = 1 THEN "pop" ELSE "join"
  <1>1. /\ at[w] \in {"invoke", "release"} /\ at' = [at EXCEPT ![w] = next]
        /\ stack' = [stack EXCEPT ![w] = Tail(stack[w])]
        /\ parent' = [parent EXCEPT ![t] = 0]
        /\ join_counter' = [join_counter EXCEPT ![p] = join_counter[p] - 1]
        /\ num_topologies' = num_topologies - (IF p = 0 /\ join_counter[0] = 1 THEN 1 ELSE 0)
        /\ UNCHANGED <<wsq, worker_wsq, done, made, sources>>
    BY DEF Finish, Move, queues, call
  <1>2. /\ stack[w] \in Seq(Tasks) /\ stack[w] # <<>> /\ t \in Tasks /\ t \in Inside(w)
        /\ t \in Running /\ t \in Unfinished
    BY <1>1, Innermost DEF TaskInv, TaskPlaces
  <1>3. /\ Tail(stack[w]) \in Seq(Tasks) /\ (Len(stack[w]) = 1 <=> Tail(stack[w]) = <<>>)
        /\ Distinct(Tail(stack[w])) /\ Elements(Tail(stack[w])) = Elements(stack[w]) \ {t}
    BY <1>2, Unstacked DEF TaskInv, ApartInv
  <1>4. p \in 0 .. MaxTasks /\ p # t /\ Kids(t) = {} /\ t \in Kids(p)
    <2>1. p \in 0 .. MaxTasks
      BY <1>2 DEF TypeOK
    <2>2. p # t
      BY <1>2, TaskTypes DEF TaskInv, KinInv
    <2>3. Kids(t) = {}
      BY <1>1 DEF TaskInv, ChildlessInv, ChildlessPlaces
    <2> QED BY <1>2, <2>1, <2>2, <2>3 DEF Kids
  <1>5. /\ at'[w] = next /\ stack'[w] = Tail(stack[w])
        /\ \A v \in Workers \ {w} : at'[v] = at[v] /\ stack'[v] = stack[v]
        /\ stack' \in [Workers -> Seq(Tasks)]
    BY <1>1, <1>3, TaskTypes
  <1>6. /\ Inside(w)' = Inside(w) \ {t}
        /\ \A v \in Workers \ {w} : Inside(v)' = Inside(v) /\ Waits(v)' = Waits(v)
        /\ \A v \in Workers \ {w} : t \notin Inside(v)
        /\ t \notin Queued /\ Queued' = Queued
    <2>1. Inside(w)' = Elements(Tail(stack[w])) /\ Inside(w) = Elements(stack[w])
      BY <1>5 DEF Inside, Elements
    <2>2. Queued' = Queued
      BY <1>1 DEF Queued
    <2>3. t \notin Queued /\ \A v \in Workers \ {w} : t \notin Inside(v)
      BY <1>2 DEF TaskInv, ApartInv
    <2> QED BY <1>3, <1>5, <2>1, <2>2, <2>3, OthersStay
  <1>7. Running' = Running \ {t} /\ Unfinished' = Unfinished \ {t}
    <2>1. Running' = Running \ {t}
      BY <1>6 DEF Running
    <2> QED BY <1>6, <2>1 DEF Unfinished
  <1>8. /\ parent' \in [Tasks -> 0 .. MaxTasks] /\ parent'[t] = 0
        /\ \A u \in Tasks \ {t} : parent'[u] = parent[u]
        /\ Unfinished \subseteq Tasks
    <2>1. parent \in [Tasks -> 0 .. MaxTasks] /\ 0 \in 0 .. MaxTasks
      BY TaskTypes DEF TypeOK
    <2> QED BY <1>1, <1>2, <2>1, TaskTypes
  <1>9. /\ \A q : q # p => Kids(q)' = Kids(q)
        /\ Kids(p)' = Kids(p) \ {t}
    <2>1. \A q : Kids(q)' = Kids(q) \ {t}
      BY <1>7, <1>8 DEF Kids
    <2>2. \A q : q # p => t \notin Kids(q)
      BY DEF Kids
    <2> QED BY <2>1, <2>2
  <1>10. /\ Cardinality(Kids(p)') = Cardinality(Kids(p)) - 1 /\ Cardinality(Kids(p)) \in Nat
         /\ Cardinality(Kids(p)) # 0
    <2>1. /\ IsFiniteSet(Kids(p)) /\ Cardinality(Kids(p)) \in Nat
          /\ Cardinality(Kids(p)) = 0 <=> Kids(p) = {}
      BY <1>4, KidsFinite DEF TaskInv
    <2>2. Cardinality(Kids(p) \ {t}) = Cardinality(Kids(p)) - 1
      BY <1>4, <2>1, FS_RemoveElement
    <2> QED BY <1>4, <1>9, <2>1, <2>2
  <1>11. PlaceInv'
    <2>1. at'[w] \in TaskPlaces <=> stack'[w] # <<>>
      BY <1>3, <1>5 DEF TaskPlaces
    <2>2. at'[w] \in OwnPlaces
      BY <1>5 DEF OwnPlaces
    <2> QED BY <1>1, <1>5, <2>1, <2>2 DEF TaskInv, PlaceInv
  <1>12. ApartInv'
    <2>1. /\ \A v \in Workers : \A u \in Inside(v)' : u \notin Queued'
          /\ \A v \in Workers : \A u \in Inside(v)' : \A x \in Workers \ {v} : u \notin Inside(x)'
      BY <1>6 DEF TaskInv, ApartInv
    <2>2. \A v \in Workers : Distinct(stack'[v])
      BY <1>3, <1>5 DEF TaskInv, ApartInv
    <2> QED BY <1>1, <2>1, <2>2 DEF TaskInv, ApartInv, Distinct
  <1>13. MadeInv'
    BY <1>1, <1>2, <1>7, <1>8 DEF TaskInv, MadeInv
  <1>14. KinInv'
    <2> SUFFICES ASSUME NEW u \in Unfinished, u # t
                 PROVE  parent'[u] = 0 \/ (parent'[u] \in Running' /\ parent'[u] < u)
      BY <1>7 DEF KinInv
    <2>1. parent'[u] = parent[u] /\ parent[u] # t
      BY <1>4, <1>8 DEF Kids
    <2> QED BY <1>7, <2>1 DEF TaskInv, KinInv
  <1>15. /\ join_counter[0] \in Nat /\ join_counter[0] # 0 /\ num_topologies = 1
         /\ join_counter[p] \in Nat /\ join_counter[p] # 0
    <2>1. join_counter[0] # 0
      BY <1>2, NoneLeft
    <2>2. 0 \in 0 .. MaxTasks /\ MaxTasks \in Nat /\ sources \in Nat
      BY TaskTypes
    <2>3. join_counter[p] = Cardinality(Kids(p)) + (IF p = 0 THEN sources ELSE 0)
      BY <1>4 DEF TaskInv, JoinInv
    <2>4. join_counter \in [0 .. MaxTasks -> 0 .. MaxTasks]
      BY DEF TypeOK
    <2>5. join_counter[0] \in Nat /\ join_counter[p] \in Nat
      BY <1>4, <2>2, <2>4
    <2>6. num_topologies = 1
      BY <2>1 DEF TaskInv, JoinInv
    <2> QED BY <1>10, <2>1, <2>2, <2>3, <2>5, <2>6
  <1> HIDE DEF next
  <1>16. /\ join_counter'[p] = join_counter[p] - 1
         /\ \A q \in 0 .. MaxTasks : q # p => join_counter'[q] = join_counter[q]
         /\ join_counter' \in [0 .. MaxTasks -> 0 .. MaxTasks]
    <2>1. join_counter \in [0 .. MaxTasks -> 0 .. MaxTasks] /\ MaxTasks \in Nat
      BY TaskTypes DEF TypeOK
    <2>2. join_counter[p] \in 0 .. MaxTasks
      BY <1>4, <2>1
    <2>3. join_counter[p] - 1 \in 0 .. MaxTasks
      <3>1. \A i \in 0 .. MaxTasks : i # 0 => i - 1 \in 0 .. MaxTasks
        BY <2>1
      <3> QED BY <1>15, <2>2, <3>1
    <2> QED BY <1>1, <1>4, <2>1, <2>3
  <1>17. JoinInv'
    <2>1. ASSUME NEW q \in 0 .. MaxTasks
          PROVE  join_counter'[q] = Cardinality(Kids(q)') + (IF q = 0 THEN sources' ELSE 0)
      <3>1. join_counter[q] = Cardinality(Kids(q)) + (IF q = 0 THEN sources ELSE 0)
        BY DEF TaskInv, JoinInv
      <3>2. sources' = sources /\ sources \in Nat
        BY <1>1, TaskTypes
      <3>3. CASE q = p
        BY <1>10, <1>16, <3>1, <3>2, <3>3
      <3>4. CASE q # p
        <4>1. Kids(q)' = Kids(q) /\ join_counter'[q] = join_counter[q]
          BY <1>9, <1>16, <3>4
        <4> QED BY <3>1, <3>2, <4>1
      <3> QED BY <3>3, <3>4
    <2>2. num_topologies' = IF join_counter'[0] = 0 THEN 0 ELSE 1
      <3>1. 0 \in 0 .. MaxTasks
        BY TaskTypes
      <3>2. CASE p = 0
        BY <1>1, <1>15, <1>16, <3>2
      <3>3. CASE p # 0
        BY <1>1, <1>15, <1>16, <3>1, <3>3
      <3> QED BY <3>2, <3>3
    <2> QED BY <2>1, <2>2 DEF JoinInv
  <1>18. num_topologies' \in 0 .. 1
    BY <1>17 DEF JoinInv
  <1>19. ChildlessInv'
    <2>1. at'[w] \notin ChildlessPlaces
      BY <1>5 DEF ChildlessPlaces, next
    <2>2. ASSUME NEW v \in Workers \ {w}, at[v] \in ChildlessPlaces
          PROVE  Kids(Head(stack[v]))' = {}
      <3>1. Kids(Head(stack[v])) = {}
        BY <2>2 DEF TaskInv, ChildlessInv
      <3>2. Head(stack[v]) # p
        BY <1>4, <3>1
      <3> QED BY <1>5, <1>9, <3>1, <3>2
    <2> QED BY <1>5, <2>1, <2>2 DEF ChildlessInv
  <1>20. at'[w] \in {"join", "pop"}
    BY <1>5 DEF next
  <1>21. Pool!Finish(w, t)
    <2>1. Waits(w) = Inside(w) \ {t}
      BY <1>1, WaitsIs DEF TaskPlaces, JoinPlaces
    <2>2. Waits(w)' = Waits(w)
      <3>1. CASE at'[w] = "join"
        <4>1. Waits(w)' = Inside(w)'
          BY <3>1 DEF Waits, JoinPlaces
        <4> QED BY <1>6, <2>1, <4>1
      <3>2. CASE at'[w] = "pop"
        <4>1. stack'[w] = <<>>
          BY <1>3, <1>5, <3>2 DEF next
        <4>2. Inside(w)' = {}
          BY <4>1 DEF Inside
        <4>3. Waits(w)' = {}
          BY <4>2 DEF Waits
        <4> QED BY <1>6, <2>1, <4>2, <4>3
      <3> QED BY <1>20, <3>1, <3>2
    <2>3. Joined' = Joined
      BY <1>6, <2>2 DEF Joined
    <2>4. t \notin Joined
      BY <1>2, <2>1, JoinedIs
    <2>5. Pool!Children(t) = {}
      BY <1>4, AsPool
    <2>6. [v \in Workers |-> Inside(v)]' = [[v \in Workers |-> Inside(v)] EXCEPT ![w] = @ \ {t}]
      BY <1>6
    <2> QED BY <1>1, <1>2, <1>6, <2>3, <2>4, <2>5, <2>6 DEF Pool!Finish, Joined
  <1> QED BY <1>5, <1>8, <1>11, <1>12, <1>13, <1>14, <1>16, <1>17, <1>18, <1>19, <1>20, <1>21
         DEF TaskInv

(* A task that has forked begins to join. *)
LEMMA JoinTask ==
    ASSUME TypeOK, TaskInv, NEW w \in Workers, Join(w)
    PROVE  TaskInv' /\ \E t \in Tasks : Pool!Join(t)
  <1>1. /\ at[w] = "fork" /\ at'[w] = "join" /\ \A v \in Workers \ {w} : at'[v] = at[v]
        /\ UNCHANGED <<queues, stack, topology, done, sources>>
    BY TaskTypes DEF Join, Move, call
  <1>2. TaskInv'
    BY <1>1, MoveTasks DEF TaskPlaces, OwnPlaces, ChildlessPlaces
  <1>3. PICK t \in Tasks : t = Head(stack[w]) /\ t \in Inside(w) /\ t \in Running
    BY <1>1, Innermost DEF TaskInv, TaskPlaces
  <1>4. Queued' = Queued /\ \A v \in Workers : Inside(v)' = Inside(v)
    BY <1>1, TasksStay DEF queues, topology
  <1>5. Waits(w) = Inside(w) \ {t} /\ Waits(w)' = Inside(w)
    <2>1. Waits(w)' = Inside(w)'
      BY <1>1 DEF Waits, JoinPlaces
    <2> QED BY <1>1, <1>3, <1>4, <2>1, WaitsIs DEF TaskPlaces, JoinPlaces
  <1>6. \A v \in Workers \ {w} : Waits(v)' = Waits(v)
    BY <1>1, OthersStay
  <1>7. Joined' = Joined \cup {t}
    <2>1. Waits(w)' = Waits(w) \cup {t}
      BY <1>3, <1>5
    <2> QED BY <1>6, <2>1 DEF Joined
  <1>8. t \in Running \ Joined
    BY <1>3, <1>5, JoinedIs
  <1>9. t \in Pool!Running
    BY <1>3, AsPool
  <1>10. Pool!Join(t)
    BY <1>1, <1>4, <1>7, <1>8, <1>9 DEF Pool!Join, Joined, topology
  <1> QED BY <1>2, <1>10

(* A join returns when the counter of its task is 0. *)
LEMMA ReturnTask ==
    ASSUME TypeOK, TaskInv, NEW w \in Workers, at[w] \in JoinPlaces, at'[w] = "release",
           \A v \in Workers \ {w} : at'[v] = at[v], join_counter[Head(stack[w])] = 0,
           UNCHANGED <<queues, stack, topology, done, sources>>
    PROVE  TaskInv' /\ \E t \in Tasks : Pool!Return(w, t)
  <1>1. PICK t \in Tasks : t = Head(stack[w]) /\ t \in Inside(w) /\ t \in Running
    BY Innermost DEF TaskInv, TaskPlaces, JoinPlaces
  <1>2. Kids(t) = {}
    <2>1. t \in 0 .. MaxTasks /\ t # 0
      BY TaskTypes DEF Tasks
    <2>2. Cardinality(Kids(t)) = 0
      <3>1. join_counter[t] = Cardinality(Kids(t)) + 0
        BY <2>1 DEF TaskInv, JoinInv
      <3>2. Cardinality(Kids(t)) \in Nat
        BY KidsFinite DEF TaskInv
      <3> QED BY <1>1, <3>1, <3>2
    <2> QED BY <2>2, KidsFinite DEF TaskInv
  <1>3. TaskInv'
    BY <1>1, <1>2, MoveTasks DEF TaskPlaces, JoinPlaces, OwnPlaces
  <1>4. Queued' = Queued /\ \A v \in Workers : Inside(v)' = Inside(v)
    BY TasksStay DEF queues, topology
  <1>5. Waits(w) = Inside(w) /\ Waits(w)' = Inside(w) \ {t}
    <2>1. Waits(w)' = Inside(w)' \ {t}
      BY <1>1 DEF Waits, JoinPlaces
    <2> QED BY <1>4, <2>1, WaitsIs
  <1>6. \A v \in Workers \ {w} : Waits(v)' = Waits(v) /\ t \notin Waits(v)
    BY <1>1, OthersStay, WaitsIs DEF TaskInv, ApartInv
  <1>7. Joined' = Joined \ {t}
    BY <1>1, <1>5, <1>6 DEF Joined
  <1>8. Inside(w) \subseteq Joined
    BY <1>5 DEF Joined
  <1>9. Pool!Children(t) = {}
    BY <1>2, AsPool
  <1>10. Pool!Return(w, t)
    BY <1>1, <1>4, <1>7, <1>8, <1>9 DEF Pool!Return, Joined, topology
  <1> QED BY <1>3, <1>10

(* The caller sets up a topology, and queues its sources. *)
LEMMA SameTasks ==
    ASSUME TypeOK, TaskInv, UNCHANGED <<queues, at, stack, topology, sources>>
    PROVE  TaskInv'
  <1>1. 1 \in Workers
    BY TaskTypes DEF Workers
  <1> QED BY <1>1, MoveTasks DEF TaskInv, PlaceInv

LEMMA RunTasks ==
    ASSUME TypeOK, TaskInv, NEW n \in 1 .. MaxTasks - made, Run(n), join_counter[0] = 0
    PROVE  /\ TaskInv' /\ join_counter' \in [0 .. MaxTasks -> 0 .. MaxTasks]
           /\ num_topologies' \in 0 .. 1
  <1>1. /\ num_topologies' = num_topologies + 1 /\ sources' = n
        /\ join_counter' = [join_counter EXCEPT ![0] = n]
        /\ UNCHANGED <<wsq, worker_wsq, at, stack, made, parent>>
    BY DEF Run, queues
  <1>2. Unfinished = {} /\ sources = 0 /\ num_topologies = 0
    BY NoneLeft
  <1>3. n \in Nat /\ n # 0 /\ made \in Nat /\ MaxTasks \in Nat /\ made + n <= MaxTasks
    BY TaskTypes
  <1>4. /\ Queued' = Queued /\ Running' = Running /\ Unfinished' = Unfinished
        /\ \A v \in Workers : Inside(v)' = Inside(v)
        /\ \A p : Kids(p)' = Kids(p)
    BY <1>1, TasksStay
  <1>5. PlaceInv' /\ ApartInv' /\ KinInv' /\ ChildlessInv'
    <2>1. PlaceInv'
      BY <1>1 DEF TaskInv, PlaceInv
    <2>2. ApartInv'
      BY <1>1, <1>4 DEF TaskInv, ApartInv, Distinct
    <2>3. KinInv' /\ ChildlessInv'
      BY <1>1, <1>4 DEF TaskInv, KinInv, ChildlessInv
    <2> QED BY <2>1, <2>2, <2>3
  <1>6. MadeInv'
    BY <1>1, <1>3, <1>4 DEF TaskInv, MadeInv
  <1>7. /\ join_counter' \in [0 .. MaxTasks -> 0 .. MaxTasks]
        /\ join_counter'[0] = n /\ \A p \in 1 .. MaxTasks : join_counter'[p] = join_counter[p]
    <2>1. join_counter \in [0 .. MaxTasks -> 0 .. MaxTasks] /\ n \in 0 .. MaxTasks
          /\ 0 \in 0 .. MaxTasks
      BY <1>3 DEF TypeOK
    <2>2. \A p \in 1 .. MaxTasks : p \in 0 .. MaxTasks /\ p # 0
      BY <1>3
    <2> QED BY <1>1, <2>1, <2>2
  <1>8. JoinInv'
    <2>1. \A p : Kids(p) = {} /\ Cardinality({}) = 0
      BY <1>2, FS_EmptySet DEF Kids
    <2>2. ASSUME NEW p \in 0 .. MaxTasks
          PROVE  join_counter'[p] = Cardinality(Kids(p)') + (IF p = 0 THEN sources' ELSE 0)
      <3>0. Cardinality(Kids(p)') = 0
        BY <1>4, <2>1
      <3>1. CASE p = 0
        BY <1>1, <1>3, <1>7, <3>0, <3>1
      <3>2. CASE p # 0
        <4>1. p \in 1 .. MaxTasks
          BY <1>3, <3>2
        <4>2. join_counter[p] = 0
          <5>1. join_counter[p] = Cardinality(Kids(p)) + 0
            BY <3>2 DEF TaskInv, JoinInv
          <5> QED BY <2>1, <5>1
        <4> QED BY <1>7, <3>0, <3>2, <4>1, <4>2
      <3> QED BY <3>1, <3>2
    <2>3. num_topologies' = IF join_counter'[0] = 0 THEN 0 ELSE 1
      BY <1>1, <1>2, <1>3, <1>7
    <2> QED BY <2>2, <2>3 DEF JoinInv
  <1>9. num_topologies' \in 0 .. 1
    BY <1>1, <1>2
  <1> QED BY <1>5, <1>6, <1>7, <1>8, <1>9 DEF TaskInv

LEMMA SourceTask ==
    ASSUME TypeOK, TaskInv, PushSource, ~ done
    PROVE  /\ TaskInv' /\ Pool!Submit(0)
           /\ wsq' \subseteq Tasks /\ made' \in 0 .. MaxTasks /\ sources' \in 0 .. MaxTasks
  <1> DEFINE n == made + 1
  <1>1. /\ sources > 0 /\ made' = n /\ wsq' = wsq \cup {n} /\ sources' = sources - 1
        /\ UNCHANGED <<worker_wsq, done, at, stack, parent, join_counter, num_topologies>>
    BY DEF PushSource
  <1>2. made \in Nat /\ sources \in Nat /\ MaxTasks \in Nat /\ made + sources <= MaxTasks
    BY TaskTypes DEF TaskInv, MadeInv
  <1>3. made < MaxTasks /\ sources' \in 0 .. MaxTasks /\ made' + sources' <= MaxTasks
    BY <1>1, <1>2
  <1>4. parent' = [parent EXCEPT ![n] = 0]
    <2>1. n \in Tasks /\ n > made
      BY <1>2, <1>3 DEF Tasks
    <2>2. parent[n] = 0
      BY <2>1 DEF TaskInv, MadeInv
    <2> QED BY <1>1, <2>2 DEF TypeOK
  <1>5. Queued' = Queued \cup {n}
    BY <1>1 DEF Queued
  <1>6. /\ n \in Tasks /\ n \notin Unfinished
        /\ Running' = Running /\ Unfinished' = Unfinished \cup {n}
        /\ \A v \in Workers : Inside(v)' = Inside(v)
        /\ \A q : q # 0 => Kids(q)' = Kids(q)
        /\ Cardinality(Kids(0)') = Cardinality(Kids(0)) + 1
        /\ made' \in 0 .. MaxTasks
        /\ KinInv' /\ \A t \in Unfinished' : t <= made'
        /\ \A t \in Tasks : t > made' => parent'[t] = 0
    BY <1>1, <1>2, <1>3, <1>4, <1>5, NewTask
  <1> HIDE DEF n
  <1>7. wsq' \subseteq Tasks
    BY <1>1, <1>6 DEF TypeOK
  <1>8. PlaceInv'
    BY <1>1 DEF TaskInv, PlaceInv
  <1>9. ApartInv'
    <2>1. \A v \in Workers : n \notin Inside(v) /\ n \notin worker_wsq[v]
      BY <1>6 DEF Unfinished, Queued, Running
    <2>2. /\ \A v \in Workers : \A u \in worker_wsq'[v] : u \notin wsq'
          /\ \A v \in Workers : \A u \in worker_wsq'[v] :
                \A x \in Workers \ {v} : u \notin worker_wsq'[x]
      BY <1>1, <2>1 DEF TaskInv, ApartInv
    <2>3. /\ \A v \in Workers : \A u \in Inside(v)' : u \notin Queued'
          /\ \A v \in Workers : \A u \in Inside(v)' : \A x \in Workers \ {v} : u \notin Inside(x)'
      BY <1>5, <1>6, <2>1 DEF TaskInv, ApartInv
    <2> QED BY <1>1, <2>2, <2>3 DEF TaskInv, ApartInv, Distinct
  <1>10. MadeInv'
    BY <1>1, <1>3, <1>6 DEF MadeInv
  <1>11. JoinInv'
    <2>1. ASSUME NEW q \in 0 .. MaxTasks
          PROVE  join_counter'[q] = Cardinality(Kids(q)') + (IF q = 0 THEN sources' ELSE 0)
      <3>1. join_counter[q] = Cardinality(Kids(q)) + (IF q = 0 THEN sources ELSE 0)
        BY DEF TaskInv, JoinInv
      <3>2. Cardinality(Kids(0)) \in Nat
        BY KidsFinite DEF TaskInv
      <3> QED BY <1>1, <1>2, <1>6, <3>1, <3>2
    <2> QED BY <1>1, <2>1 DEF TaskInv, JoinInv
  <1>12. ChildlessInv'
    <2> SUFFICES ASSUME NEW v \in Workers, at[v] \in ChildlessPlaces
                 PROVE  Kids(Head(stack[v]))' = {}
      BY <1>1 DEF ChildlessInv
    <2>1. Head(stack[v]) # 0
      BY Innermost, TaskTypes DEF TaskInv, ChildlessPlaces, TaskPlaces
    <2> QED BY <1>1, <1>6, <2>1 DEF TaskInv, ChildlessInv
  <1>13. Pool!Submit(0)
    <2>1. \A v \in Workers : Waits(v)' = Waits(v)
      BY <1>1, <1>6 DEF Waits
    <2> QED BY <1>1, <1>3, <1>4, <1>5, <1>6, <2>1 DEF Pool!Submit, n
  <1> QED BY <1>3, <1>6, <1>7, <1>8, <1>9, <1>10, <1>11, <1>12, <1>13 DEF TaskInv
-----------------------------------------------------------------------------
(* Steps of a worker from one place to the next. *)
LEMMA Types ==
    ASSUME IInv
    PROVE  /\ TypeOK /\ at \in [Workers -> Places]
           /\ num_actives \in Nat /\ num_thieves \in Nat /\ sources \in Nat /\ wakeups \in Nat
           /\ MaxTasks \in Nat /\ NumWorkers \in Nat /\ NumWorkers > 0
           /\ registered \subseteq Workers /\ sleeping \subseteq Workers \ registered
           /\ index \in [Workers -> 1 .. NumWorkers + 1]
  BY TaskTypes DEF IInv, TypeOK

(* What a worker that moves does to the counts. *)
LEMMA Moved ==
    ASSUME IInv, NEW w \in Workers, NEW from, NEW to \in Places, Move(w, from, to)
    PROVE  /\ at[w] = from /\ at'[w] = to /\ \A v \in Workers \ {w} : at'[v] = at[v]
           /\ at' \in [Workers -> Places]
           /\ \A P : Cardinality(At(at', P))
                       = Cardinality(At(at, P)) + One(to \in P) - One(from \in P)
  <1>1. at \in [Workers -> Places] /\ at[w] = from /\ at' = [at EXCEPT ![w] = to]
    BY Types DEF Move
  <1>2. ASSUME NEW P
        PROVE  Cardinality(At(at', P)) = Cardinality(At(at, P)) + One(to \in P) - One(from \in P)
    BY <1>1, AtMoved
  <1> QED BY <1>1, <1>2

(* The counters are as many workers as there are places where they count. *)
LEMMA Counted ==
    ASSUME IInv, NEW w \in Workers, NEW from, NEW to \in Places, Move(w, from, to),
           num_thieves' = num_thieves + One(to \in ThiefPlaces) - One(from \in ThiefPlaces),
           num_actives' = num_actives + One(to \in ActivePlaces)
               - One(from \in ActivePlaces)
    PROVE  CountInv' /\ num_thieves' \in 0 .. NumWorkers /\ num_actives' \in 0 .. NumWorkers
  <1>1. /\ num_thieves' = Cardinality(At(at', ThiefPlaces))
        /\ num_actives' = Cardinality(At(at', ActivePlaces))
    BY Moved DEF IInv, CountInv
  <1>2. CountInv'
    BY <1>1 DEF CountInv, At
  <1> QED BY <1>1, <1>2, AtType

LEMMA SomeCounted ==
    ASSUME IInv, NEW w \in Workers
    PROVE  /\ at[w] \in ThiefPlaces => num_thieves > 0
           /\ at[w] \in ActivePlaces => num_actives > 0
  BY AtSome DEF IInv, CountInv

(* For the tasks it is in and the queue it has, a worker may go on so. *)
Alike(from, to) ==
    /\ from \in TaskPlaces <=> to \in TaskPlaces
    /\ from \in JoinPlaces <=> to \in JoinPlaces
    /\ from \in OwnPlaces => to \in OwnPlaces
    /\ to \in ChildlessPlaces => from \in ChildlessPlaces

(* Steps of a worker that neither take, make nor end a task, nor a join. *)
LEMMA Walk ==
    ASSUME IInv, NEW w \in Workers, NEW from, NEW to \in Places, Move(w, from, to),
           UNCHANGED <<queues, done, stack, call, topology>>,
           Alike(from, to),
           num_thieves' = num_thieves + One(to \in ThiefPlaces) - One(from \in ThiefPlaces),
           num_actives' = num_actives + One(to \in ActivePlaces)
               - One(from \in ActivePlaces),
           index' \in [Workers -> 1 .. NumWorkers + 1],
           registered' \subseteq Workers, sleeping' \subseteq Workers \ registered',
           NotifierInv', SharedInv', WatchInv'
    PROVE  IInv' /\ PoolStep
  <1>1. CountInv' /\ num_thieves' \in 0 .. NumWorkers /\ num_actives' \in 0 .. NumWorkers
    BY Counted
  <1>2. /\ at'[w] = to /\ at[w] = from /\ \A v \in Workers \ {w} : at'[v] = at[v]
        /\ at' \in [Workers -> Places]
    BY Moved
  <1>3. TypeOK'
    BY <1>1, <1>2, Types DEF TypeOK, Places, queues, call, topology
  <1>4. worker_wsq[w] # {} => to \in OwnPlaces
    BY <1>2 DEF IInv, TaskInv, PlaceInv, Alike
  <1>5. TaskInv'
    BY <1>2, <1>4, Types, MoveTasks DEF IInv, Alike, call
  <1>6. CallInv'
    BY DEF IInv, CallInv, call, topology
  <1>7. UNCHANGED Pool!vars
    BY <1>2, Types, PoolStays DEF IInv, Alike
  <1> QED BY <1>1, <1>3, <1>5, <1>6, <1>7 DEF IInv, PoolStep

FinalPlaces == {"check_wsq", "cancel_steal", "check_done", "wake_all"}

(* Such steps that leave the notifier alone. *)
Quiet(w, from, to) ==
    /\ Move(w, from, to) /\ to \in Places
    /\ UNCHANGED <<queues, done, notifier, stack, call, topology>>
    /\ index' \in [Workers -> 1 .. NumWorkers + 1]
    /\ Alike(from, to)
    /\ num_thieves' = num_thieves + One(to \in ThiefPlaces) - One(from \in ThiefPlaces)
    /\ num_actives' = num_actives + One(to \in ActivePlaces) - One(from \in ActivePlaces)
    /\ w \in registered => to \in PreparedPlaces
    /\ w \in registered /\ from \in FinalPlaces => to \in FinalPlaces \/ ~ done
    /\ w \in sleeping => to = "asleep"
    /\ to \in {"wake_all", "exit", "gone"} => done
    /\ to \in {"exit", "gone"} => from = "exit"
    /\ Attentive(w) => Attentive(w)' \/ wsq = {}
    /\ num_actives' > 0 =>
          num_thieves' > 0 \/ Watcher(w)' \/ (num_actives > 0 /\ num_thieves = 0 /\ ~ Watcher(w))

LEMMA WalkQuiet ==
    ASSUME IInv, NEW w \in Workers, NEW from, NEW to, Quiet(w, from, to)
    PROVE  IInv' /\ PoolStep
  <1> USE Types DEF Quiet, queues, call, topology, notifier
  <1>1. /\ at'[w] = to /\ at[w] = from /\ \A v \in Workers \ {w} : at'[v] = at[v]
        /\ at' \in [Workers -> Places]
    BY Moved
  <1>2. registered \subseteq Workers /\ sleeping \subseteq Workers \ registered
    BY DEF TypeOK
  <1>3. NotifierInv'
    <2>1. \A v \in registered : at'[v] \in PreparedPlaces
      BY <1>1, <1>2 DEF IInv, NotifierInv
    <2>2. \A v \in sleeping : at'[v] = "asleep"
      BY <1>1, <1>2 DEF IInv, NotifierInv
    <2>3. \A v \in Workers : at'[v] \in {"wake_all", "exit", "gone"} => done
      BY <1>1 DEF IInv, NotifierInv
    <2>4. ASSUME caller \in {"join", "destroyed"} \/ \E v \in Workers : at'[v] \in {"exit", "gone"}
          PROVE  sleeping = {} /\ \A v \in registered : at'[v] \in FinalPlaces
      <3>1. caller \in {"join", "destroyed"} \/ \E v \in Workers : at[v] \in {"exit", "gone"}
        BY <1>1, <2>4
      <3>2. sleeping = {} /\ \A v \in registered : at[v] \in FinalPlaces
        BY <3>1 DEF IInv, NotifierInv, FinalPlaces
      <3>3. done
        BY <3>1 DEF IInv, CallInv, NotifierInv
      <3> QED BY <1>1, <1>2, <3>2, <3>3
    <2> QED BY <2>1, <2>2, <2>3, <2>4 DEF NotifierInv, FinalPlaces
  <1>4. \A v \in Workers \ {w} : (Attentive(v)' <=> Attentive(v)) /\ (Watcher(v)' <=> Watcher(v))
    BY <1>1 DEF Attentive, Watcher, Waiting
  <1>5. SharedInv'
    BY <1>4 DEF IInv, SharedInv
  <1>6. WatchInv'
    <2>1. SUFFICES ASSUME num_actives > 0, num_thieves = 0, ~ Watcher(w)
                   PROVE  Waiting' = {} \/ \E v \in Workers : Watcher(v)'
      BY DEF WatchInv
    <2>2. Waiting = {} \/ \E v \in Workers : Watcher(v)
      BY <2>1 DEF IInv, WatchInv
    <2> QED BY <1>4, <2>1, <2>2 DEF Waiting
  <1> QED BY <1>2, <1>3, <1>5, <1>6, Walk

(* Where w stands before and after it moves. *)
LEMMA Stand ==
    ASSUME IInv, NEW w \in Workers, NEW from, NEW to \in Places, Move(w, from, to)
    PROVE  /\ at[w] = from /\ at'[w] = to
           /\ w \in registered => from \in PreparedPlaces
           /\ w \in sleeping => from = "asleep"
           /\ index \in [Workers -> 1 .. NumWorkers + 1]
  BY Moved, Types DEF IInv, NotifierInv, TypeOK

(* The executor is stopped when no task is left. *)
LEMMA DoneIdle ==
    ASSUME IInv, done \/ caller = "ready"
    PROVE  /\ join_counter[0] = 0 /\ num_topologies = 0 /\ sources = 0
           /\ wsq = {} /\ Queued = {} /\ Running = {}
  <1>1. join_counter[0] = 0
    <2>1. caller \in {"ready", "stop", "join", "destroyed"}
      BY DEF IInv, CallInv
    <2> QED BY <2>1 DEF IInv, CallInv
  <1>2. Unfinished = {} /\ sources = 0 /\ num_topologies = 0
    BY <1>1, NoneLeft DEF IInv
  <1> QED BY <1>1, <1>2 DEF Unfinished, Queued

LEMMA StepBecomeActive ==
    ASSUME IInv, NEW w \in Workers, BecomeActive(w)
    PROVE  IInv' /\ PoolStep
  <1> USE Types DEF BecomeActive, counters, notifier
  <1>1. CASE num_actives = 0
    <2>1. Move(w, "exploit", "no_thieves") /\ "no_thieves" \in Places
      BY <1>1 DEF Places
    <2>2. /\ at[w] = "exploit" /\ at'[w] = "no_thieves" /\ index \in [Workers -> 1 .. NumWorkers + 1]
          /\ w \in registered => "exploit" \in PreparedPlaces
          /\ w \in sleeping => "exploit" = "asleep"
      BY <2>1, Stand
    <2>3. /\ Attentive(w) => Attentive(w)' \/ wsq = {}
          /\ w \in registered => "no_thieves" \in PreparedPlaces
          /\ w \in registered /\ "exploit" \in FinalPlaces => "no_thieves" \in FinalPlaces \/ ~ done
      BY <1>1, <2>2 DEF Attentive, Waiting, PreparedPlaces, FinalPlaces
    <2>4. /\ Alike("exploit", "no_thieves")
          /\ num_thieves' = num_thieves + One("no_thieves" \in ThiefPlaces)
                 - One("exploit" \in ThiefPlaces)
          /\ num_actives' = num_actives + One("no_thieves" \in ActivePlaces)
                 - One("exploit" \in ActivePlaces)
      BY <1>1 DEF Alike, TaskPlaces, JoinPlaces, OwnPlaces, ChildlessPlaces, ThiefPlaces,
         ActivePlaces, One
    <2>5. num_actives' > 0 =>
            num_thieves' > 0 \/ Watcher(w)' \/ (num_actives > 0 /\ num_thieves = 0 /\ ~ Watcher(w))
      BY <1>1, <2>2 DEF Watcher, Waiting
    <2>6. Quiet(w, "exploit", "no_thieves")
      BY <1>1, <2>1, <2>2, <2>3, <2>4, <2>5 DEF Quiet
    <2> QED BY <2>6, WalkQuiet
  <1>2. CASE ~ (num_actives = 0)
    <2>1. Move(w, "exploit", "invoke") /\ "invoke" \in Places
      BY <1>2 DEF Places
    <2>2. /\ at[w] = "exploit" /\ at'[w] = "invoke" /\ index \in [Workers -> 1 .. NumWorkers + 1]
          /\ w \in registered => "exploit" \in PreparedPlaces
          /\ w \in sleeping => "exploit" = "asleep"
      BY <2>1, Stand
    <2>3. /\ Attentive(w) => Attentive(w)' \/ wsq = {}
          /\ w \in registered => "invoke" \in PreparedPlaces
          /\ w \in registered /\ "exploit" \in FinalPlaces => "invoke" \in FinalPlaces \/ ~ done
      BY <1>2, <2>2 DEF Attentive, Waiting, PreparedPlaces, FinalPlaces
    <2>4. /\ Alike("exploit", "invoke")
          /\ num_thieves' = num_thieves + One("invoke" \in ThiefPlaces)
                 - One("exploit" \in ThiefPlaces)
          /\ num_actives' = num_actives + One("invoke" \in ActivePlaces)
                 - One("exploit" \in ActivePlaces)
      BY <1>2 DEF Alike, TaskPlaces, JoinPlaces, OwnPlaces, ChildlessPlaces, ThiefPlaces,
         ActivePlaces, One
    <2>5. num_actives' > 0 =>
            num_thieves' > 0 \/ Watcher(w)' \/ (num_actives > 0 /\ num_thieves = 0 /\ ~ Watcher(w))
      BY <1>2, <2>2 DEF Watcher, Waiting
    <2>6. Quiet(w, "exploit", "invoke")
      BY <1>2, <2>1, <2>2, <2>3, <2>4, <2>5 DEF Quiet
    <2> QED BY <2>6, WalkQuiet
  <1> QED BY <1>1, <1>2

LEMMA StepNoThieves ==
    ASSUME IInv, NEW w \in Workers, NoThieves(w)
    PROVE  IInv' /\ PoolStep
  <1> USE Types DEF NoThieves, counters, notifier
  <1>1. CASE num_thieves = 0
    <2>1. Move(w, "no_thieves", "wake_one") /\ "wake_one" \in Places
      BY <1>1 DEF Places
    <2>2. /\ at[w] = "no_thieves" /\ at'[w] = "wake_one" /\ index \in [Workers -> 1 .. NumWorkers + 1]
          /\ w \in registered => "no_thieves" \in PreparedPlaces
          /\ w \in sleeping => "no_thieves" = "asleep"
      BY <2>1, Stand
    <2>3. /\ Attentive(w) => Attentive(w)' \/ wsq = {}
          /\ w \in registered => "wake_one" \in PreparedPlaces
          /\ w \in registered /\ "no_thieves" \in FinalPlaces => "wake_one" \in FinalPlaces \/ ~ done
      BY <1>1, <2>2 DEF Attentive, Waiting, PreparedPlaces, FinalPlaces
    <2>4. /\ Alike("no_thieves", "wake_one")
          /\ num_thieves' = num_thieves + One("wake_one" \in ThiefPlaces)
                 - One("no_thieves" \in ThiefPlaces)
          /\ num_actives' = num_actives + One("wake_one" \in ActivePlaces)
                 - One("no_thieves" \in ActivePlaces)
      BY <1>1 DEF Alike, TaskPlaces, JoinPlaces, OwnPlaces, ChildlessPlaces, ThiefPlaces,
         ActivePlaces, One
    <2>5. num_actives' > 0 =>
            num_thieves' > 0 \/ Watcher(w)' \/ (num_actives > 0 /\ num_thieves = 0 /\ ~ Watcher(w))
      BY <1>1, <2>2 DEF Watcher, Waiting
    <2>6. Quiet(w, "no_thieves", "wake_one")
      BY <1>1, <2>1, <2>2, <2>3, <2>4, <2>5 DEF Quiet
    <2> QED BY <2>6, WalkQuiet
  <1>2. CASE ~ (num_thieves = 0)
    <2>1. Move(w, "no_thieves", "invoke") /\ "invoke" \in Places
      BY <1>2 DEF Places
    <2>2. /\ at[w] = "no_thieves" /\ at'[w] = "invoke" /\ index \in [Workers -> 1 .. NumWorkers + 1]
          /\ w \in registered => "no_thieves" \in PreparedPlaces
          /\ w \in sleeping => "no_thieves" = "asleep"
      BY <2>1, Stand
    <2>3. /\ Attentive(w) => Attentive(w)' \/ wsq = {}
          /\ w \in registered => "invoke" \in PreparedPlaces
          /\ w \in registered /\ "no_thieves" \in FinalPlaces => "invoke" \in FinalPlaces \/ ~ done
      BY <1>2, <2>2 DEF Attentive, Waiting, PreparedPlaces, FinalPlaces
    <2>4. /\ Alike("no_thieves", "invoke")
          /\ num_thieves' = num_thieves + One("invoke" \in ThiefPlaces)
                 - One("no_thieves" \in ThiefPlaces)
          /\ num_actives' = num_actives + One("invoke" \in ActivePlaces)
                 - One("no_thieves" \in ActivePlaces)
      BY <1>2 DEF Alike, TaskPlaces, JoinPlaces, OwnPlaces, ChildlessPlaces, ThiefPlaces,
         ActivePlaces, One
    <2>5. num_actives' > 0 =>
            num_thieves' > 0 \/ Watcher(w)' \/ (num_actives > 0 /\ num_thieves = 0 /\ ~ Watcher(w))
      BY <1>2, <2>2 DEF Watcher, Waiting
    <2>6. Quiet(w, "no_thieves", "invoke")
      BY <1>2, <2>1, <2>2, <2>3, <2>4, <2>5 DEF Quiet
    <2> QED BY <2>6, WalkQuiet
  <1> QED BY <1>1, <1>2

LEMMA StepBecomeInactive ==
    ASSUME IInv, NEW w \in Workers, BecomeInactive(w)
    PROVE  IInv' /\ PoolStep
  <1> USE Types DEF BecomeInactive, counters, notifier
  <1>1. Move(w, "inactive", "wait") /\ "wait" \in Places
    BY DEF Places
  <1>2. /\ at[w] = "inactive" /\ at'[w] = "wait" /\ index \in [Workers -> 1 .. NumWorkers + 1]
        /\ w \in registered => "inactive" \in PreparedPlaces
        /\ w \in sleeping => "inactive" = "asleep"
    BY <1>1, Stand
  <1>3. /\ Attentive(w) => Attentive(w)' \/ wsq = {}
        /\ w \in registered => "wait" \in PreparedPlaces
        /\ w \in registered /\ "inactive" \in FinalPlaces => "wait" \in FinalPlaces \/ ~ done
    BY <1>2 DEF Attentive, Waiting, PreparedPlaces, FinalPlaces
  <1>4. /\ Alike("inactive", "wait")
        /\ num_thieves' = num_thieves + One("wait" \in ThiefPlaces)
               - One("inactive" \in ThiefPlaces)
        /\ num_actives' = num_actives + One("wait" \in ActivePlaces)
               - One("inactive" \in ActivePlaces)
    BY DEF Alike, TaskPlaces, JoinPlaces, OwnPlaces, ChildlessPlaces, ThiefPlaces,
       ActivePlaces, One
  <1>5. num_actives' > 0 =>
          num_thieves' > 0 \/ Watcher(w)' \/ (num_actives > 0 /\ num_thieves = 0 /\ ~ Watcher(w))
    BY <1>2 DEF Watcher, Waiting
  <1>6. Quiet(w, "inactive", "wait")
    BY <1>1, <1>2, <1>3, <1>4, <1>5 DEF Quiet
  <1> QED BY <1>6, WalkQuiet

LEMMA StepBecomeThief ==
    ASSUME IInv, NEW w \in Workers, BecomeThief(w)
    PROVE  IInv' /\ PoolStep
  <1> USE Types DEF BecomeThief, counters, notifier
  <1>1. Move(w, "wait", "explore") /\ "explore" \in Places
    BY DEF Places
  <1>2. /\ at[w] = "wait" /\ at'[w] = "explore" /\ index \in [Workers -> 1 .. NumWorkers + 1]
        /\ w \in registered => "wait" \in PreparedPlaces
        /\ w \in sleeping => "wait" = "asleep"
    BY <1>1, Stand
  <1>3. /\ Attentive(w) => Attentive(w)' \/ wsq = {}
        /\ w \in registered => "explore" \in PreparedPlaces
        /\ w \in registered /\ "wait" \in FinalPlaces => "explore" \in FinalPlaces \/ ~ done
    BY <1>2 DEF Attentive, Waiting, PreparedPlaces, FinalPlaces
  <1>4. /\ Alike("wait", "explore")
        /\ num_thieves' = num_thieves + One("explore" \in ThiefPlaces)
               - One("wait" \in ThiefPlaces)
        /\ num_actives' = num_actives + One("explore" \in ActivePlaces)
               - One("wait" \in ActivePlaces)
    BY DEF Alike, TaskPlaces, JoinPlaces, OwnPlaces, ChildlessPlaces, ThiefPlaces,
       ActivePlaces, One
  <1>5. num_actives' > 0 =>
          num_thieves' > 0 \/ Watcher(w)' \/ (num_actives > 0 /\ num_thieves = 0 /\ ~ Watcher(w))
    BY <1>2 DEF Watcher, Waiting
  <1>6. Quiet(w, "wait", "explore")
    BY <1>1, <1>2, <1>3, <1>4, <1>5 DEF Quiet
  <1> QED BY <1>6, WalkQuiet

LEMMA StepStopStealing ==
    ASSUME IInv, NEW w \in Workers, StopStealing(w)
    PROVE  IInv' /\ PoolStep
  <1> USE Types DEF StopStealing, counters, notifier
  <1>0. num_thieves > 0
    BY SomeCounted DEF Move, ThiefPlaces
  <1>1. CASE num_thieves = 1
    <2>1. Move(w, "found", "wake_thief") /\ "wake_thief" \in Places
      BY <1>1 DEF Places
    <2>2. /\ at[w] = "found" /\ at'[w] = "wake_thief" /\ index \in [Workers -> 1 .. NumWorkers + 1]
          /\ w \in registered => "found" \in PreparedPlaces
          /\ w \in sleeping => "found" = "asleep"
      BY <2>1, Stand
    <2>3. /\ Attentive(w) => Attentive(w)' \/ wsq = {}
          /\ w \in registered => "wake_thief" \in PreparedPlaces
          /\ w \in registered /\ "found" \in FinalPlaces => "wake_thief" \in FinalPlaces \/ ~ done
      BY <1>1, <2>2, <1>0 DEF Attentive, Waiting, PreparedPlaces, FinalPlaces
    <2>4. /\ Alike("found", "wake_thief")
          /\ num_thieves' = num_thieves + One("wake_thief" \in ThiefPlaces)
                 - One("found" \in ThiefPlaces)
          /\ num_actives' = num_actives + One("wake_thief" \in ActivePlaces)
                 - One("found" \in ActivePlaces)
      BY <1>1 DEF Alike, TaskPlaces, JoinPlaces, OwnPlaces, ChildlessPlaces, ThiefPlaces,
         ActivePlaces, One
    <2>5. num_actives' > 0 =>
            num_thieves' > 0 \/ Watcher(w)' \/ (num_actives > 0 /\ num_thieves = 0 /\ ~ Watcher(w))
      BY <1>1, <2>2, <1>0 DEF Watcher, Waiting
    <2>6. Quiet(w, "found", "wake_thief")
      BY <1>1, <2>1, <2>2, <2>3, <2>4, <2>5 DEF Quiet
    <2> QED BY <2>6, WalkQuiet
  <1>2. CASE ~ (num_thieves = 1)
    <2>1. Move(w, "found", "exploit") /\ "exploit" \in Places
      BY <1>2 DEF Places
    <2>2. /\ at[w] = "found" /\ at'[w] = "exploit" /\ index \in [Workers -> 1 .. NumWorkers + 1]
          /\ w \in registered => "found" \in PreparedPlaces
          /\ w \in sleeping => "found" = "asleep"
      BY <2>1, Stand
    <2>3. /\ Attentive(w) => Attentive(w)' \/ wsq = {}
          /\ w \in registered => "exploit" \in PreparedPlaces
          /\ w \in registered /\ "found" \in FinalPlaces => "exploit" \in FinalPlaces \/ ~ done
      BY <1>2, <2>2, <1>0 DEF Attentive, Waiting, PreparedPlaces, FinalPlaces
    <2>4. /\ Alike("found", "exploit")
          /\ num_thieves' = num_thieves + One("exploit" \in ThiefPlaces)
                 - One("found" \in ThiefPlaces)
          /\ num_actives' = num_actives + One("exploit" \in ActivePlaces)
                 - One("found" \in ActivePlaces)
      BY <1>2 DEF Alike, TaskPlaces, JoinPlaces, OwnPlaces, ChildlessPlaces, ThiefPlaces,
         ActivePlaces, One
    <2>5. num_actives' > 0 =>
            num_thieves' > 0 \/ Watcher(w)' \/ (num_actives > 0 /\ num_thieves = 0 /\ ~ Watcher(w))
      BY <1>2, <2>2, <1>0 DEF Watcher, Waiting
    <2>6. Quiet(w, "found", "exploit")
      BY <1>2, <2>1, <2>2, <2>3, <2>4, <2>5 DEF Quiet
    <2> QED BY <2>6, WalkQuiet
  <1> QED BY <1>1, <1>2

LEMMA StepCheckQueue ==
    ASSUME IInv, NEW w \in Workers, CheckQueue(w)
    PROVE  IInv' /\ PoolStep
  <1> USE Types DEF CheckQueue, counters, notifier
  <1>0. num_thieves > 0
    BY SomeCounted DEF Move, ThiefPlaces
  <1>1. CASE wsq # {}
    <2>1. Move(w, "check_wsq", "cancel_steal") /\ "cancel_steal" \in Places
      BY <1>1 DEF Places
    <2>2. /\ at[w] = "check_wsq" /\ at'[w] = "cancel_steal" /\ index \in [Workers -> 1 .. NumWorkers + 1]
          /\ w \in registered => "check_wsq" \in PreparedPlaces
          /\ w \in sleeping => "check_wsq" = "asleep"
      BY <2>1, Stand
    <2>3. /\ Attentive(w) => Attentive(w)' \/ wsq = {}
          /\ w \in registered => "cancel_steal" \in PreparedPlaces
          /\ w \in registered /\ "check_wsq" \in FinalPlaces => "cancel_steal" \in FinalPlaces \/ ~ done
      BY <1>1, <2>2, <1>0 DEF Attentive, Waiting, PreparedPlaces, FinalPlaces
    <2>4. /\ Alike("check_wsq", "cancel_steal")
          /\ num_thieves' = num_thieves + One("cancel_steal" \in ThiefPlaces)
                 - One("check_wsq" \in ThiefPlaces)
          /\ num_actives' = num_actives + One("cancel_steal" \in ActivePlaces)
                 - One("check_wsq" \in ActivePlaces)
      BY <1>1 DEF Alike, TaskPlaces, JoinPlaces, OwnPlaces, ChildlessPlaces, ThiefPlaces,
         ActivePlaces, One
    <2>5. num_actives' > 0 =>
            num_thieves' > 0 \/ Watcher(w)' \/ (num_actives > 0 /\ num_thieves = 0 /\ ~ Watcher(w))
      BY <1>1, <2>2, <1>0 DEF Watcher, Waiting
    <2>6. Quiet(w, "check_wsq", "cancel_steal")
      BY <1>1, <2>1, <2>2, <2>3, <2>4, <2>5 DEF Quiet
    <2> QED BY <2>6, WalkQuiet
  <1>2. CASE ~ (wsq # {})
    <2>1. Move(w, "check_wsq", "check_done") /\ "check_done" \in Places
      BY <1>2 DEF Places
    <2>2. /\ at[w] = "check_wsq" /\ at'[w] = "check_done" /\ index \in [Workers -> 1 .. NumWorkers + 1]
          /\ w \in registered => "check_wsq" \in PreparedPlaces
          /\ w \in sleeping => "check_wsq" = "asleep"
      BY <2>1, Stand
    <2>3. /\ Attentive(w) => Attentive(w)' \/ wsq = {}
          /\ w \in registered => "check_done" \in PreparedPlaces
          /\ w \in registered /\ "check_wsq" \in FinalPlaces => "check_done" \in FinalPlaces \/ ~ done
      BY <1>2, <2>2, <1>0 DEF Attentive, Waiting, PreparedPlaces, FinalPlaces
    <2>4. /\ Alike("check_wsq", "check_done")
          /\ num_thieves' = num_thieves + One("check_done" \in ThiefPlaces)
                 - One("check_wsq" \in ThiefPlaces)
          /\ num_actives' = num_actives + One("check_done" \in ActivePlaces)
                 - One("check_wsq" \in ActivePlaces)
      BY <1>2 DEF Alike, TaskPlaces, JoinPlaces, OwnPlaces, ChildlessPlaces, ThiefPlaces,
         ActivePlaces, One
    <2>5. num_actives' > 0 =>
            num_thieves' > 0 \/ Watcher(w)' \/ (num_actives > 0 /\ num_thieves = 0 /\ ~ Watcher(w))
      BY <1>2, <2>2, <1>0 DEF Watcher, Waiting
    <2>6. Quiet(w, "check_wsq", "check_done")
      BY <1>2, <2>1, <2>2, <2>3, <2>4, <2>5 DEF Quiet
    <2> QED BY <2>6, WalkQuiet
  <1> QED BY <1>1, <1>2

LEMMA StepMissShared ==
    ASSUME IInv, NEW w \in Workers, MissShared(w)
    PROVE  IInv' /\ PoolStep
  <1> USE Types DEF MissShared, counters, notifier
  <1>0. num_thieves > 0
    BY SomeCounted DEF Move, ThiefPlaces
  <1>1. Move(w, "steal", "explore") /\ "explore" \in Places
    BY DEF Places
  <1>2. /\ at[w] = "steal" /\ at'[w] = "explore" /\ index \in [Workers -> 1 .. NumWorkers + 1]
        /\ w \in registered => "steal" \in PreparedPlaces
        /\ w \in sleeping => "steal" = "asleep"
    BY <1>1, Stand
  <1>3. /\ Attentive(w) => Attentive(w)' \/ wsq = {}
        /\ w \in registered => "explore" \in PreparedPlaces
        /\ w \in registered /\ "steal" \in FinalPlaces => "explore" \in FinalPlaces \/ ~ done
    BY <1>2, <1>0 DEF Attentive, Waiting, PreparedPlaces, FinalPlaces
  <1>4. /\ Alike("steal", "explore")
        /\ num_thieves' = num_thieves + One("explore" \in ThiefPlaces)
               - One("steal" \in ThiefPlaces)
        /\ num_actives' = num_actives + One("explore" \in ActivePlaces)
               - One("steal" \in ActivePlaces)
    BY DEF Alike, TaskPlaces, JoinPlaces, OwnPlaces, ChildlessPlaces, ThiefPlaces,
       ActivePlaces, One
  <1>5. num_actives' > 0 =>
          num_thieves' > 0 \/ Watcher(w)' \/ (num_actives > 0 /\ num_thieves = 0 /\ ~ Watcher(w))
    BY <1>2, <1>0 DEF Watcher, Waiting
  <1>6. Quiet(w, "steal", "explore")
    BY <1>1, <1>2, <1>3, <1>4, <1>5 DEF Quiet
  <1> QED BY <1>6, WalkQuiet

LEMMA StepCheckDone ==
    ASSUME IInv, NEW w \in Workers, CheckDone(w)
    PROVE  IInv' /\ PoolStep
  <1> USE Types DEF CheckDone, counters, notifier
  <1>0. num_thieves > 0
    BY SomeCounted DEF Move, ThiefPlaces
  <1>1. CASE done
    <2>1. Move(w, "check_done", "wake_all") /\ "wake_all" \in Places
      BY <1>1 DEF Places
    <2>2. /\ at[w] = "check_done" /\ at'[w] = "wake_all" /\ index \in [Workers -> 1 .. NumWorkers + 1]
          /\ w \in registered => "check_done" \in PreparedPlaces
          /\ w \in sleeping => "check_done" = "asleep"
      BY <2>1, Stand
    <2>3. /\ Attentive(w) => Attentive(w)' \/ wsq = {}
          /\ w \in registered => "wake_all" \in PreparedPlaces
          /\ w \in registered /\ "check_done" \in FinalPlaces => "wake_all" \in FinalPlaces \/ ~ done
      BY <1>1, <2>2, <1>0, DoneIdle DEF Attentive, Waiting, PreparedPlaces, FinalPlaces
    <2>4. /\ Alike("check_done", "wake_all")
          /\ num_thieves' = num_thieves + One("wake_all" \in ThiefPlaces)
                 - One("check_done" \in ThiefPlaces)
          /\ num_actives' = num_actives + One("wake_all" \in ActivePlaces)
                 - One("check_done" \in ActivePlaces)
      BY <1>1 DEF Alike, TaskPlaces, JoinPlaces, OwnPlaces, ChildlessPlaces, ThiefPlaces,
         ActivePlaces, One
    <2>5. num_actives' > 0 =>
            num_thieves' > 0 \/ Watcher(w)' \/ (num_actives > 0 /\ num_thieves = 0 /\ ~ Watcher(w))
      BY <1>1, <2>2, <1>0, DoneIdle DEF Watcher, Waiting
    <2>6. Quiet(w, "check_done", "wake_all")
      BY <1>1, <2>1, <2>2, <2>3, <2>4, <2>5 DEF Quiet
    <2> QED BY <2>6, WalkQuiet
  <1>2. CASE ~ (done)
    <2>1. Move(w, "check_done", "leave") /\ "leave" \in Places
      BY <1>2 DEF Places
    <2>2. /\ at[w] = "check_done" /\ at'[w] = "leave" /\ index \in [Workers -> 1 .. NumWorkers + 1]
          /\ w \in registered => "check_done" \in PreparedPlaces
          /\ w \in sleeping => "check_done" = "asleep"
      BY <2>1, Stand
    <2>3. /\ Attentive(w) => Attentive(w)' \/ wsq = {}
          /\ w \in registered => "leave" \in PreparedPlaces
          /\ w \in registered /\ "check_done" \in FinalPlaces => "leave" \in FinalPlaces \/ ~ done
      BY <1>2, <2>2, <1>0, DoneIdle DEF Attentive, Waiting, PreparedPlaces, FinalPlaces
    <2>4. /\ Alike("check_done", "leave")
          /\ num_thieves' = num_thieves + One("leave" \in ThiefPlaces)
                 - One("check_done" \in ThiefPlaces)
          /\ num_actives' = num_actives + One("leave" \in ActivePlaces)
                 - One("check_done" \in ActivePlaces)
      BY <1>2 DEF Alike, TaskPlaces, JoinPlaces, OwnPlaces, ChildlessPlaces, ThiefPlaces,
         ActivePlaces, One
    <2>5. num_actives' > 0 =>
            num_thieves' > 0 \/ Watcher(w)' \/ (num_actives > 0 /\ num_thieves = 0 /\ ~ Watcher(w))
      BY <1>2, <2>2, <1>0, DoneIdle DEF Watcher, Waiting
    <2>6. Quiet(w, "check_done", "leave")
      BY <1>2, <2>1, <2>2, <2>3, <2>4, <2>5 DEF Quiet
    <2> QED BY <2>6, WalkQuiet
  <1> QED BY <1>1, <1>2

LEMMA StepLeaveThieves ==
    ASSUME IInv, NEW w \in Workers, LeaveThieves(w)
    PROVE  IInv' /\ PoolStep
  <1> USE Types DEF LeaveThieves, counters, notifier
  <1>0. num_thieves > 0
    BY SomeCounted DEF Move, ThiefPlaces
  <1>1. CASE num_thieves = 1
    <2>1. Move(w, "leave", "check_actives") /\ "check_actives" \in Places
      BY <1>1 DEF Places
    <2>2. /\ at[w] = "leave" /\ at'[w] = "check_actives" /\ index \in [Workers -> 1 .. NumWorkers + 1]
          /\ w \in registered => "leave" \in PreparedPlaces
          /\ w \in sleeping => "leave" = "asleep"
      BY <2>1, Stand
    <2>3. /\ Attentive(w) => Attentive(w)' \/ wsq = {}
          /\ w \in registered => "check_actives" \in PreparedPlaces
          /\ w \in registered /\ "leave" \in FinalPlaces => "check_actives" \in FinalPlaces \/ ~ done
      BY <1>1, <2>2, <1>0 DEF Attentive, Waiting, PreparedPlaces, FinalPlaces
    <2>4. /\ Alike("leave", "check_actives")
          /\ num_thieves' = num_thieves + One("check_actives" \in ThiefPlaces)
                 - One("leave" \in ThiefPlaces)
          /\ num_actives' = num_actives + One("check_actives" \in ActivePlaces)
                 - One("leave" \in ActivePlaces)
      BY <1>1 DEF Alike, TaskPlaces, JoinPlaces, OwnPlaces, ChildlessPlaces, ThiefPlaces,
         ActivePlaces, One
    <2>5. num_actives' > 0 =>
            num_thieves' > 0 \/ Watcher(w)' \/ (num_actives > 0 /\ num_thieves = 0 /\ ~ Watcher(w))
      BY <1>1, <2>2, <1>0 DEF Watcher, Waiting
    <2>6. Quiet(w, "leave", "check_actives")
      BY <1>1, <2>1, <2>2, <2>3, <2>4, <2>5 DEF Quiet
    <2> QED BY <2>6, WalkQuiet
  <1>2. CASE ~ (num_thieves = 1)
    <2>1. Move(w, "leave", "commit") /\ "commit" \in Places
      BY <1>2 DEF Places
    <2>2. /\ at[w] = "leave" /\ at'[w] = "commit" /\ index \in [Workers -> 1 .. NumWorkers + 1]
          /\ w \in registered => "leave" \in PreparedPlaces
          /\ w \in sleeping => "leave" = "asleep"
      BY <2>1, Stand
    <2>3. /\ Attentive(w) => Attentive(w)' \/ wsq = {}
          /\ w \in registered => "commit" \in PreparedPlaces
          /\ w \in registered /\ "leave" \in FinalPlaces => "commit" \in FinalPlaces \/ ~ done
      BY <1>2, <2>2, <1>0 DEF Attentive, Waiting, PreparedPlaces, FinalPlaces
    <2>4. /\ Alike("leave", "commit")
          /\ num_thieves' = num_thieves + One("commit" \in ThiefPlaces)
                 - One("leave" \in ThiefPlaces)
          /\ num_actives' = num_actives + One("commit" \in ActivePlaces)
                 - One("leave" \in ActivePlaces)
      BY <1>2 DEF Alike, TaskPlaces, JoinPlaces, OwnPlaces, ChildlessPlaces, ThiefPlaces,
         ActivePlaces, One
    <2>5. num_actives' > 0 =>
            num_thieves' > 0 \/ Watcher(w)' \/ (num_actives > 0 /\ num_thieves = 0 /\ ~ Watcher(w))
      BY <1>2, <2>2, <1>0 DEF Watcher, Waiting
    <2>6. Quiet(w, "leave", "commit")
      BY <1>2, <2>1, <2>2, <2>3, <2>4, <2>5 DEF Quiet
    <2> QED BY <2>6, WalkQuiet
  <1> QED BY <1>1, <1>2

LEMMA StepCheckActives ==
    ASSUME IInv, NEW w \in Workers, CheckActives(w)
    PROVE  IInv' /\ PoolStep
  <1> USE Types DEF CheckActives, counters, notifier
  <1>1. CASE num_actives > 0
    <2>1. Move(w, "check_actives", "cancel_retry") /\ "cancel_retry" \in Places
      BY <1>1 DEF Places
    <2>2. /\ at[w] = "check_actives" /\ at'[w] = "cancel_retry" /\ index \in [Workers -> 1 .. NumWorkers + 1]
          /\ w \in registered => "check_actives" \in PreparedPlaces
          /\ w \in sleeping => "check_actives" = "asleep"
      BY <2>1, Stand
    <2>3. /\ Attentive(w) => Attentive(w)' \/ wsq = {}
          /\ w \in registered => "cancel_retry" \in PreparedPlaces
          /\ w \in registered /\ "check_actives" \in FinalPlaces => "cancel_retry" \in FinalPlaces \/ ~ done
      BY <1>1, <2>2 DEF Attentive, Waiting, PreparedPlaces, FinalPlaces
    <2>4. /\ Alike("check_actives", "cancel_retry")
          /\ num_thieves' = num_thieves + One("cancel_retry" \in ThiefPlaces)
                 - One("check_actives" \in ThiefPlaces)
          /\ num_actives' = num_actives + One("cancel_retry" \in ActivePlaces)
                 - One("check_actives" \in ActivePlaces)
      BY <1>1 DEF Alike, TaskPlaces, JoinPlaces, OwnPlaces, ChildlessPlaces, ThiefPlaces,
         ActivePlaces, One
    <2>5. num_actives' > 0 =>
            num_thieves' > 0 \/ Watcher(w)' \/ (num_actives > 0 /\ num_thieves = 0 /\ ~ Watcher(w))
      BY <1>1, <2>2 DEF Watcher, Waiting
    <2>6. Quiet(w, "check_actives", "cancel_retry")
      BY <1>1, <2>1, <2>2, <2>3, <2>4, <2>5 DEF Quiet
    <2> QED BY <2>6, WalkQuiet
  <1>2. CASE ~ (num_actives > 0)
    <2>1. Move(w, "check_actives", "check_queues") /\ "check_queues" \in Places
      BY <1>2 DEF Places
    <2>2. /\ at[w] = "check_actives" /\ at'[w] = "check_queues" /\ index \in [Workers -> 1 .. NumWorkers + 1]
          /\ w \in registered => "check_actives" \in PreparedPlaces
          /\ w \in sleeping => "check_actives" = "asleep"
      BY <2>1, Stand
    <2>3. /\ Attentive(w) => Attentive(w)' \/ wsq = {}
          /\ w \in registered => "check_queues" \in PreparedPlaces
          /\ w \in registered /\ "check_actives" \in FinalPlaces => "check_queues" \in FinalPlaces \/ ~ done
      BY <1>2, <2>2 DEF Attentive, Waiting, PreparedPlaces, FinalPlaces
    <2>4. /\ Alike("check_actives", "check_queues")
          /\ num_thieves' = num_thieves + One("check_queues" \in ThiefPlaces)
                 - One("check_actives" \in ThiefPlaces)
          /\ num_actives' = num_actives + One("check_queues" \in ActivePlaces)
                 - One("check_actives" \in ActivePlaces)
      BY <1>2 DEF Alike, TaskPlaces, JoinPlaces, OwnPlaces, ChildlessPlaces, ThiefPlaces,
         ActivePlaces, One
    <2>5. num_actives' > 0 =>
            num_thieves' > 0 \/ Watcher(w)' \/ (num_actives > 0 /\ num_thieves = 0 /\ ~ Watcher(w))
      BY <1>2, <2>2 DEF Watcher, Waiting
    <2>6. Quiet(w, "check_actives", "check_queues")
      BY <1>2, <2>1, <2>2, <2>3, <2>4, <2>5 DEF Quiet
    <2> QED BY <2>6, WalkQuiet
  <1> QED BY <1>1, <1>2

LEMMA StepWakeUp ==
    ASSUME IInv, NEW w \in Workers, WakeUp(w)
    PROVE  IInv' /\ PoolStep
  <1> USE Types DEF WakeUp, counters, notifier
  <1>1. Move(w, "asleep", "wait") /\ "wait" \in Places
    BY DEF Places
  <1>2. /\ at[w] = "asleep" /\ at'[w] = "wait" /\ index \in [Workers -> 1 .. NumWorkers + 1]
        /\ w \in registered => "asleep" \in PreparedPlaces
        /\ w \in sleeping => "asleep" = "asleep"
    BY <1>1, Stand
  <1>3. /\ Attentive(w) => Attentive(w)' \/ wsq = {}
        /\ w \in registered => "wait" \in PreparedPlaces
        /\ w \in registered /\ "asleep" \in FinalPlaces => "wait" \in FinalPlaces \/ ~ done
    BY <1>2 DEF Attentive, Waiting, PreparedPlaces, FinalPlaces
  <1>4. /\ Alike("asleep", "wait")
        /\ num_thieves' = num_thieves + One("wait" \in ThiefPlaces)
               - One("asleep" \in ThiefPlaces)
        /\ num_actives' = num_actives + One("wait" \in ActivePlaces)
               - One("asleep" \in ActivePlaces)
    BY DEF Alike, TaskPlaces, JoinPlaces, OwnPlaces, ChildlessPlaces, ThiefPlaces,
       ActivePlaces, One
  <1>5. num_actives' > 0 =>
          num_thieves' > 0 \/ Watcher(w)' \/ (num_actives > 0 /\ num_thieves = 0 /\ ~ Watcher(w))
    BY <1>2 DEF Watcher, Waiting
  <1>6. Quiet(w, "asleep", "wait")
    BY <1>1, <1>2, <1>3, <1>4, <1>5 DEF Quiet
  <1> QED BY <1>6, WalkQuiet

LEMMA StepCheckWorkerQueue ==
    ASSUME IInv, NEW w \in Workers, CheckWorkerQueue(w)
    PROVE  IInv' /\ PoolStep
  <1> USE Types DEF CheckWorkerQueue, counters, notifier
  <1> DEFINE i == index[w]
             found == i <= NumWorkers /\ worker_wsq[i] # {}
  <1>0. index' \in [Workers -> 1 .. NumWorkers + 1] /\ at[w] = "check_queues"
    <2>1. index \in [Workers -> 1 .. NumWorkers + 1] /\ i \in 1 .. NumWorkers + 1
      BY DEF TypeOK
    <2>2. i <= NumWorkers => i + 1 \in 1 .. NumWorkers + 1
      BY <2>1
    <2>3. 1 \in 1 .. NumWorkers + 1
      OBVIOUS
    <2> QED BY <2>1, <2>2, <2>3
  <1>1. UNCHANGED <<queues, counters, done, notifier, stack, call, topology>>
    OBVIOUS
  <1>2. CASE i <= NumWorkers /\ ~ found
    <2>0. at' = [at EXCEPT ![w] = "check_queues"]
      BY <1>2
    <2>1. Move(w, "check_queues", "check_queues") /\ "check_queues" \in Places
      BY <1>0, <2>0 DEF Places, Move
    <2>2. /\ at[w] = "check_queues" /\ at'[w] = "check_queues" /\ index \in [Workers -> 1 .. NumWorkers + 1]
          /\ w \in registered => "check_queues" \in PreparedPlaces
          /\ w \in sleeping => "check_queues" = "asleep"
      BY <2>1, Stand
    <2>3. /\ Attentive(w) => Attentive(w)' \/ wsq = {}
          /\ w \in registered => "check_queues" \in PreparedPlaces
          /\ w \in registered /\ "check_queues" \in FinalPlaces => "check_queues" \in FinalPlaces \/ ~ done
      BY <1>2, <2>2, <1>1 DEF Attentive, Waiting, PreparedPlaces, FinalPlaces
    <2>4. /\ Alike("check_queues", "check_queues")
          /\ num_thieves' = num_thieves + One("check_queues" \in ThiefPlaces)
                 - One("check_queues" \in ThiefPlaces)
          /\ num_actives' = num_actives + One("check_queues" \in ActivePlaces)
                 - One("check_queues" \in ActivePlaces)
      BY <1>2 DEF Alike, TaskPlaces, JoinPlaces, OwnPlaces, ChildlessPlaces, ThiefPlaces,
         ActivePlaces, One
    <2>5. num_actives' > 0 =>
            num_thieves' > 0 \/ Watcher(w)' \/ (num_actives > 0 /\ num_thieves = 0 /\ ~ Watcher(w))
      BY <1>2, <2>2, <1>1 DEF Watcher, Waiting
    <2>6. Quiet(w, "check_queues", "check_queues")
      BY <1>2, <2>1, <2>2, <2>3, <2>4, <2>5, <1>0, <1>1 DEF Quiet
    <2> QED BY <2>6, WalkQuiet
  <1>3. CASE ~ (i <= NumWorkers /\ ~ found) /\ found
    <2>0. at' = [at EXCEPT ![w] = "cancel_retry"]
      BY <1>3
    <2>1. Move(w, "check_queues", "cancel_retry") /\ "cancel_retry" \in Places
      BY <1>0, <2>0 DEF Places, Move
    <2>2. /\ at[w] = "check_queues" /\ at'[w] = "cancel_retry" /\ index \in [Workers -> 1 .. NumWorkers + 1]
          /\ w \in registered => "check_queues" \in PreparedPlaces
          /\ w \in sleeping => "check_queues" = "asleep"
      BY <2>1, Stand
    <2>3. /\ Attentive(w) => Attentive(w)' \/ wsq = {}
          /\ w \in registered => "cancel_retry" \in PreparedPlaces
          /\ w \in registered /\ "check_queues" \in FinalPlaces => "cancel_retry" \in FinalPlaces \/ ~ done
      BY <1>3, <2>2, <1>1 DEF Attentive, Waiting, PreparedPlaces, FinalPlaces
    <2>4. /\ Alike("check_queues", "cancel_retry")
          /\ num_thieves' = num_thieves + One("cancel_retry" \in ThiefPlaces)
                 - One("check_queues" \in ThiefPlaces)
          /\ num_actives' = num_actives + One("cancel_retry" \in ActivePlaces)
                 - One("check_queues" \in ActivePlaces)
      BY <1>3 DEF Alike, TaskPlaces, JoinPlaces, OwnPlaces, ChildlessPlaces, ThiefPlaces,
         ActivePlaces, One
    <2>5. num_actives' > 0 =>
            num_thieves' > 0 \/ Watcher(w)' \/ (num_actives > 0 /\ num_thieves = 0 /\ ~ Watcher(w))
      BY <1>3, <2>2, <1>1 DEF Watcher, Waiting
    <2>6. Quiet(w, "check_queues", "cancel_retry")
      BY <1>3, <2>1, <2>2, <2>3, <2>4, <2>5, <1>0, <1>1 DEF Quiet
    <2> QED BY <2>6, WalkQuiet
  <1>4. CASE ~ (i <= NumWorkers /\ ~ found) /\ ~ found
    <2>0. at' = [at EXCEPT ![w] = "commit"]
      BY <1>4
    <2>1. Move(w, "check_queues", "commit") /\ "commit" \in Places
      BY <1>0, <2>0 DEF Places, Move
    <2>2. /\ at[w] = "check_queues" /\ at'[w] = "commit" /\ index \in [Workers -> 1 .. NumWorkers + 1]
          /\ w \in registered => "check_queues" \in PreparedPlaces
          /\ w \in sleeping => "check_queues" = "asleep"
      BY <2>1, Stand
    <2>3. /\ Attentive(w) => Attentive(w)' \/ wsq = {}
          /\ w \in registered => "commit" \in PreparedPlaces
          /\ w \in registered /\ "check_queues" \in FinalPlaces => "commit" \in FinalPlaces \/ ~ done
      BY <1>4, <2>2, <1>1 DEF Attentive, Waiting, PreparedPlaces, FinalPlaces
    <2>4. /\ Alike("check_queues", "commit")
          /\ num_thieves' = num_thieves + One("commit" \in ThiefPlaces)
                 - One("check_queues" \in ThiefPlaces)
          /\ num_actives' = num_actives + One("commit" \in ActivePlaces)
                 - One("check_queues" \in ActivePlaces)
      BY <1>4 DEF Alike, TaskPlaces, JoinPlaces, OwnPlaces, ChildlessPlaces, ThiefPlaces,
         ActivePlaces, One
    <2>5. num_actives' > 0 =>
            num_thieves' > 0 \/ Watcher(w)' \/ (num_actives > 0 /\ num_thieves = 0 /\ ~ Watcher(w))
      BY <1>4, <2>2, <1>1 DEF Watcher, Waiting
    <2>6. Quiet(w, "check_queues", "commit")
      BY <1>4, <2>1, <2>2, <2>3, <2>4, <2>5, <1>0, <1>1 DEF Quiet
    <2> QED BY <2>6, WalkQuiet
  <1> QED BY <1>2, <1>3, <1>4

LEMMA StepCommitWait ==
    ASSUME IInv, NEW w \in Workers, CommitWait(w)
    PROVE  IInv' /\ PoolStep
  <1> USE Types DEF CommitWait, counters
  <1>0. registered \subseteq Workers /\ sleeping \subseteq Workers \ registered
        /\ UNCHANGED <<queues, num_thieves, num_actives, done, stack, index, call, topology>>
    BY DEF TypeOK
  <1>1. CASE w \notin registered /\ UNCHANGED notifier /\ Move(w, "commit", "wait")
    <2>1. "wait" \in Places /\ at[w] = "commit" /\ at'[w] = "wait" /\ w \notin sleeping
          /\ index \in [Workers -> 1 .. NumWorkers + 1]
      BY <1>1, Stand DEF Places
    <2>2. Quiet(w, "commit", "wait")
      BY <1>0, <1>1, <2>1
         DEF Quiet, Alike, TaskPlaces, JoinPlaces, OwnPlaces, ChildlessPlaces, ThiefPlaces,
             ActivePlaces, One, Attentive, Watcher
    <2> QED BY <2>2, WalkQuiet
  <1>2. CASE w \in registered /\ Notifier!CommitWait(w) /\ Move(w, "commit", "asleep")
    <2>1. /\ "asleep" \in Places /\ at[w] = "commit" /\ at'[w] = "asleep"
          /\ \A v \in Workers \ {w} : at'[v] = at[v]
      BY <1>2, Moved DEF Places
    <2>2. registered' = registered \ {w} /\ sleeping' = sleeping \cup {w} /\ Waiting' = Waiting
      BY <1>2 DEF Notifier!CommitWait, Waiting
    <2>3. ~ (caller \in {"join", "destroyed"} \/ \E v \in Workers : at'[v] \in {"exit", "gone"})
      BY <1>2, <2>1 DEF IInv, NotifierInv
    <2>4. NotifierInv'
      BY <1>0, <2>1, <2>2, <2>3 DEF IInv, NotifierInv, call
    <2>5. ~ Attentive(w) /\ ~ Watcher(w)
      BY <1>2, <2>1 DEF Attentive, Watcher, Waiting
    <2>6. \A v \in Workers \ {w} : (Attentive(v)' <=> Attentive(v)) /\ (Watcher(v)' <=> Watcher(v))
      BY <2>1, <2>2 DEF Attentive, Watcher
    <2>7. SharedInv'
      BY <1>0, <2>5, <2>6 DEF IInv, SharedInv, call, queues
    <2>8. WatchInv'
      BY <1>0, <2>2, <2>5, <2>6 DEF IInv, WatchInv
    <2>9. /\ Alike("commit", "asleep")
          /\ "commit" \notin ThiefPlaces \cup ActivePlaces /\ "asleep" \notin ThiefPlaces \cup ActivePlaces
      BY DEF Alike, TaskPlaces, JoinPlaces, OwnPlaces, ChildlessPlaces, ThiefPlaces,
         ActivePlaces
    <2>10. index' \in [Workers -> 1 .. NumWorkers + 1] /\ registered' \subseteq Workers
           /\ sleeping' \subseteq Workers \ registered'
      BY <1>0, <2>2 DEF TypeOK
    <2> QED BY <1>0, <1>2, <2>1, <2>4, <2>7, <2>8, <2>9, <2>10, Walk DEF One
  <1> QED BY <1>1, <1>2

(* Steps that take w out of the notifier, if it was registered. *)
LEMMA Cancelled ==
    ASSUME IInv, NEW w \in Workers, w \notin sleeping, Cancel(w)
    PROVE  /\ registered' = registered \ {w} /\ sleeping' = sleeping /\ Waiting' = Waiting \ {w}
           /\ registered' \subseteq Workers /\ sleeping' \subseteq Workers \ registered'
  <1>1. registered' = registered \ {w} /\ sleeping' = sleeping
    BY DEF Cancel, Notifier!CancelWait, notifier
  <1> QED BY <1>1, Types DEF TypeOK, Waiting

LEMMA StepCancelAndSteal ==
    ASSUME IInv, NEW w \in Workers, CancelAndSteal(w)
    PROVE  IInv' /\ PoolStep
  <1> USE Types DEF CancelAndSteal, counters
  <1>1. /\ Move(w, "cancel_steal", "steal") /\ "steal" \in Places
        /\ UNCHANGED <<queues, num_thieves, num_actives, done, stack, index, call, topology>>
    BY DEF Places
  <1>2. /\ at[w] = "cancel_steal" /\ at'[w] = "steal" /\ w \notin sleeping
        /\ \A v \in Workers \ {w} : at'[v] = at[v]
    BY <1>1, Moved, Stand
  <1>3. /\ registered' = registered \ {w} /\ sleeping' = sleeping
        /\ registered' \subseteq Workers /\ sleeping' \subseteq Workers \ registered'
    BY <1>2, Cancelled
  <1>4. NotifierInv'
    BY <1>1, <1>2, <1>3 DEF IInv, NotifierInv, call
  <1>5. SharedInv'
    BY <1>2 DEF SharedInv, Attentive
  <1>6. num_thieves > 0
    BY <1>2, SomeCounted DEF ThiefPlaces
  <1>7. WatchInv'
    BY <1>1, <1>6 DEF WatchInv
  <1>8. /\ "cancel_steal" \in ThiefPlaces /\ "steal" \in ThiefPlaces
        /\ Alike("cancel_steal", "steal")
        /\ "cancel_steal" \notin ActivePlaces /\ "steal" \notin ActivePlaces
        /\ index' \in [Workers -> 1 .. NumWorkers + 1]
    BY DEF Alike, TaskPlaces, JoinPlaces, OwnPlaces, ChildlessPlaces, ThiefPlaces,
       ActivePlaces, TypeOK
  <1> QED BY <1>1, <1>2, <1>3, <1>4, <1>5, <1>7, <1>8, Walk DEF One

LEMMA StepCancelAndRetry ==
    ASSUME IInv, NEW w \in Workers, CancelAndRetry(w)
    PROVE  IInv' /\ PoolStep
  <1> USE Types DEF CancelAndRetry, counters
  <1>1. /\ Move(w, "cancel_retry", "wait") /\ "wait" \in Places
        /\ UNCHANGED <<queues, num_thieves, num_actives, done, stack, index, call, topology>>
    BY DEF Places
  <1>2. /\ at[w] = "cancel_retry" /\ at'[w] = "wait" /\ w \notin sleeping
        /\ \A v \in Workers \ {w} : at'[v] = at[v]
    BY <1>1, Moved, Stand
  <1>3. /\ registered' = registered \ {w} /\ sleeping' = sleeping
        /\ registered' \subseteq Workers /\ sleeping' \subseteq Workers \ registered'
    BY <1>2, Cancelled
  <1>4. NotifierInv'
    BY <1>1, <1>2, <1>3 DEF IInv, NotifierInv, call
  <1>5. SharedInv'
    BY <1>2 DEF SharedInv, Attentive
  <1>6. WatchInv'
    BY <1>2 DEF WatchInv, Watcher
  <1>7. /\ Alike("cancel_retry", "wait")
        /\ "cancel_retry" \notin ActivePlaces \cup ThiefPlaces
        /\ "wait" \notin ActivePlaces \cup ThiefPlaces
        /\ index' \in [Workers -> 1 .. NumWorkers + 1]
    BY DEF Alike, TaskPlaces, JoinPlaces, OwnPlaces, ChildlessPlaces, ThiefPlaces,
       ActivePlaces, TypeOK
  <1> QED BY <1>1, <1>2, <1>3, <1>4, <1>5, <1>6, <1>7, Walk DEF One

LEMMA StepPrepareWait ==
    ASSUME IInv, NEW w \in Workers, PrepareWait(w)
    PROVE  IInv' /\ PoolStep
  <1> USE Types DEF PrepareWait, Notifier!PrepareWait, counters
  <1>1. /\ Move(w, "explore", "check_wsq") /\ "check_wsq" \in Places
        /\ UNCHANGED <<queues, num_thieves, num_actives, done, stack, index, call, topology>>
    BY DEF Places
  <1>2. /\ at[w] = "explore" /\ at'[w] = "check_wsq"
        /\ \A v \in Workers \ {w} : at'[v] = at[v]
    BY <1>1, Moved
  <1>3. /\ registered' = registered \cup {w} /\ sleeping' = sleeping /\ w \notin sleeping
        /\ registered' \subseteq Workers /\ sleeping' \subseteq Workers \ registered'
    BY DEF TypeOK
  <1>4. NotifierInv'
    BY <1>1, <1>2, <1>3 DEF IInv, NotifierInv, call, PreparedPlaces
  <1>5. SharedInv'
    BY <1>2 DEF SharedInv, Attentive
  <1>6. num_thieves > 0
    BY <1>2, SomeCounted DEF ThiefPlaces
  <1>7. WatchInv'
    BY <1>1, <1>6 DEF WatchInv
  <1>8. /\ "explore" \in ThiefPlaces /\ "check_wsq" \in ThiefPlaces
        /\ Alike("explore", "check_wsq")
        /\ "explore" \notin ActivePlaces /\ "check_wsq" \notin ActivePlaces
        /\ index' \in [Workers -> 1 .. NumWorkers + 1]
    BY DEF Alike, TaskPlaces, JoinPlaces, OwnPlaces, ChildlessPlaces, ThiefPlaces,
       ActivePlaces, TypeOK
  <1> QED BY <1>1, <1>2, <1>3, <1>4, <1>5, <1>7, <1>8, Walk DEF One

LEMMA StepWakeAll ==
    ASSUME IInv, NEW w \in Workers, WakeAll(w)
    PROVE  IInv' /\ PoolStep
  <1> USE Types DEF WakeAll, Notifier!NotifyAll, counters
  <1>1. /\ Move(w, "wake_all", "exit") /\ "exit" \in Places
        /\ UNCHANGED <<queues, num_thieves, num_actives, done, stack, index, call, topology>>
        /\ registered' = {} /\ sleeping' = {}
    BY DEF Places
  <1>2. /\ at[w] = "wake_all" /\ at'[w] = "exit"
        /\ \A v \in Workers \ {w} : at'[v] = at[v]
    BY <1>1, Moved
  <1>3. done
    BY <1>2 DEF IInv, NotifierInv
  <1>4. NotifierInv'
    BY <1>1, <1>2, <1>3 DEF IInv, NotifierInv
  <1>5. SharedInv'
    BY <1>1, <1>3, DoneIdle DEF SharedInv, queues
  <1>6. WatchInv'
    BY <1>1 DEF WatchInv, Waiting
  <1>7. /\ "wake_all" \in ThiefPlaces /\ "exit" \in ThiefPlaces
        /\ Alike("wake_all", "exit")
        /\ "wake_all" \notin ActivePlaces /\ "exit" \notin ActivePlaces
        /\ index' \in [Workers -> 1 .. NumWorkers + 1]
    BY DEF Alike, TaskPlaces, JoinPlaces, OwnPlaces, ChildlessPlaces, ThiefPlaces,
       ActivePlaces, TypeOK
  <1> QED BY <1>1, <1>2, <1>4, <1>5, <1>6, <1>7, Walk DEF One

(* The last thief may leave for good only when nobody is registered. *)
LEMMA StepExit ==
    ASSUME IInv, NEW w \in Workers, Exit(w)
    PROVE  IInv' /\ PoolStep
  <1> USE Types DEF Exit, notifier
  <1>1. /\ Move(w, "exit", "gone") /\ "gone" \in Places /\ num_thieves' = num_thieves - 1
        /\ UNCHANGED <<queues, num_actives, done, registered, sleeping, stack, index, call, topology>>
    BY DEF Places
  <1>2. /\ at[w] = "exit" /\ at'[w] = "gone"
        /\ \A v \in Workers \ {w} : at'[v] = at[v]
    BY <1>1, Moved
  <1>3. done /\ sleeping = {} /\ registered \subseteq Workers \ {w}
        /\ \A v \in registered : at[v] \in FinalPlaces
    BY <1>2 DEF IInv, NotifierInv, FinalPlaces, TypeOK, PreparedPlaces
  <1>4. NotifierInv'
    BY <1>1, <1>2, <1>3 DEF IInv, NotifierInv, FinalPlaces
  <1>5. SharedInv'
    BY <1>1, <1>3, DoneIdle DEF SharedInv, queues
  <1>6. /\ "exit" \in ThiefPlaces /\ "gone" \notin ThiefPlaces
        /\ Alike("exit", "gone")
        /\ "exit" \notin ActivePlaces /\ "gone" \notin ActivePlaces
        /\ index' \in [Workers -> 1 .. NumWorkers + 1]
    BY DEF Alike, TaskPlaces, JoinPlaces, OwnPlaces, ChildlessPlaces, ThiefPlaces,
       ActivePlaces, TypeOK
  <1>7. /\ num_thieves' = num_thieves + One("gone" \in ThiefPlaces)
               - One("exit" \in ThiefPlaces)
        /\ num_actives' = num_actives + One("gone" \in ActivePlaces)
               - One("exit" \in ActivePlaces)
    BY <1>1, <1>6 DEF One
  <1>8. WatchInv'
    <2>1. CASE registered = {}
      BY <1>1, <1>3, <2>1 DEF WatchInv, Waiting
    <2>2. ASSUME NEW v \in registered PROVE num_thieves' > 0
      <3>1. v \in Workers /\ at'[v] \in ThiefPlaces
        BY <1>2, <1>3 DEF FinalPlaces, ThiefPlaces
      <3>2. num_thieves' = Cardinality(At(at', ThiefPlaces))
        BY <1>1, <1>7, Counted DEF CountInv, At
      <3> QED BY <3>1, <3>2, AtSome
    <2> QED BY <2>1, <2>2 DEF WatchInv
  <1>9. registered' \subseteq Workers /\ sleeping' \subseteq Workers \ registered'
    BY <1>1, <1>3
  <1> QED BY <1>1, <1>4, <1>5, <1>6, <1>7, <1>8, <1>9, Walk

(* A notification takes somebody out of the notifier, if anybody is there. *)
LEMMA Notified ==
    ASSUME IInv, NotifyOne
    PROVE  /\ registered' \subseteq registered /\ sleeping' \subseteq sleeping
           /\ registered' \subseteq Workers /\ sleeping' \subseteq Workers \ registered'
           /\ Waiting' \subseteq Waiting
           /\ Waiting' = {} \/ \E v \in Waiting : v \notin Waiting'
  <1>1. registered \subseteq Workers /\ sleeping \subseteq Workers \ registered
    BY Types DEF TypeOK
  <1>2. CASE registered \cup sleeping = {} /\ UNCHANGED notifier
    BY <1>1, <1>2 DEF notifier, Waiting
  <1>3. ASSUME NEW v \in Workers, Notifier!NotifyOne(v)
        PROVE  /\ registered' = registered \ {v} /\ sleeping' = sleeping \ {v}
               /\ v \in Waiting
    BY <1>1, <1>3 DEF Notifier!NotifyOne, Notifier!CancelWait, Waiting
  <1>4. ASSUME NEW v \in Workers, Notifier!NotifyOne(v)
        PROVE  /\ registered' \subseteq registered /\ sleeping' \subseteq sleeping
               /\ registered' \subseteq Workers /\ sleeping' \subseteq Workers \ registered'
               /\ Waiting' \subseteq Waiting /\ v \in Waiting /\ v \notin Waiting'
    BY <1>1, <1>3, <1>4 DEF Waiting
  <1> QED BY <1>2, <1>4 DEF NotifyOne

(* Whoever was notified is a thief, or watches. *)
LEMMA Woken ==
    ASSUME IInv, NEW v \in Waiting, v \notin Waiting', at'[v] = at[v], num_thieves' = num_thieves
    PROVE  num_thieves' > 0 \/ Watcher(v)'
  <1>1. v \in Workers
    BY Types DEF TypeOK, Waiting
  <1>2. at[v] \in PreparedPlaces \cup {"asleep"}
    BY DEF IInv, NotifierInv, Waiting
  <1>3. CASE at[v] \in ThiefPlaces
    BY <1>1, <1>3, SomeCounted
  <1>4. CASE at[v] \notin ThiefPlaces
    BY <1>2, <1>4 DEF Watcher, PreparedPlaces, ThiefPlaces
  <1> QED BY <1>3, <1>4

LEMMA StepWakeThief ==
    ASSUME IInv, NEW w \in Workers, WakeThief(w)
    PROVE  IInv' /\ PoolStep
  <1> USE Types DEF WakeThief, counters
  <1>1. /\ Move(w, "wake_thief", "exploit") /\ "exploit" \in Places
        /\ UNCHANGED <<queues, num_thieves, num_actives, done, stack, index, call, topology>>
    BY DEF Places
  <1>2. /\ at[w] = "wake_thief" /\ at'[w] = "exploit" /\ w \notin sleeping /\ w \notin registered
        /\ \A v \in Workers \ {w} : at'[v] = at[v]
    BY <1>1, Moved, Stand DEF PreparedPlaces
  <1>3. /\ registered' \subseteq registered /\ sleeping' \subseteq sleeping
        /\ registered' \subseteq Workers /\ sleeping' \subseteq Workers \ registered'
        /\ Waiting' = {} \/ \E v \in Waiting \ {w} : v \notin Waiting'
    BY <1>2, Notified DEF Waiting
  <1>4. NotifierInv'
    BY <1>1, <1>2, <1>3 DEF IInv, NotifierInv, call
  <1>5. SharedInv'
    BY <1>2 DEF SharedInv, Attentive
  <1>6. WatchInv'
    <2>1. ASSUME NEW v \in Waiting \ {w}, v \notin Waiting' PROVE num_thieves' > 0 \/ Watcher(v)'
      <3>1. v \in Workers \ {w}
        BY DEF Waiting, TypeOK
      <3> QED BY <1>1, <1>2, <2>1, <3>1, Woken
    <2>2. \A v \in Waiting : v \in Workers
      BY DEF Waiting, TypeOK
    <2> QED BY <1>3, <2>1, <2>2 DEF WatchInv
  <1>7. /\ Alike("wake_thief", "exploit")
        /\ "wake_thief" \notin ThiefPlaces /\ "exploit" \notin ThiefPlaces
        /\ "wake_thief" \in ActivePlaces <=> "exploit" \in ActivePlaces
        /\ index' \in [Workers -> 1 .. NumWorkers + 1]
    BY DEF Alike, TaskPlaces, JoinPlaces, OwnPlaces, ChildlessPlaces, ThiefPlaces,
       ActivePlaces, TypeOK
  <1> QED BY <1>1, <1>2, <1>3, <1>4, <1>5, <1>6, <1>7, Walk DEF One

LEMMA StepWakeOne ==
    ASSUME IInv, NEW w \in Workers, WakeOne(w)
    PROVE  IInv' /\ PoolStep
  <1> USE Types DEF WakeOne, counters
  <1>1. /\ Move(w, "wake_one", "invoke") /\ "invoke" \in Places
        /\ UNCHANGED <<queues, num_thieves, num_actives, done, stack, index, call, topology>>
    BY DEF Places
  <1>2. /\ at[w] = "wake_one" /\ at'[w] = "invoke" /\ w \notin sleeping /\ w \notin registered
        /\ \A v \in Workers \ {w} : at'[v] = at[v]
    BY <1>1, Moved, Stand DEF PreparedPlaces
  <1>3. /\ registered' \subseteq registered /\ sleeping' \subseteq sleeping
        /\ registered' \subseteq Workers /\ sleeping' \subseteq Workers \ registered'
        /\ Waiting' = {} \/ \E v \in Waiting \ {w} : v \notin Waiting'
    BY <1>2, Notified DEF Waiting
  <1>4. NotifierInv'
    BY <1>1, <1>2, <1>3 DEF IInv, NotifierInv, call
  <1>5. SharedInv'
    BY <1>2 DEF SharedInv, Attentive
  <1>6. WatchInv'
    <2>1. ASSUME NEW v \in Waiting \ {w}, v \notin Waiting' PROVE num_thieves' > 0 \/ Watcher(v)'
      <3>1. v \in Workers \ {w}
        BY DEF Waiting, TypeOK
      <3> QED BY <1>1, <1>2, <2>1, <3>1, Woken
    <2>2. \A v \in Waiting : v \in Workers
      BY DEF Waiting, TypeOK
    <2> QED BY <1>3, <2>1, <2>2 DEF WatchInv
  <1>7. /\ Alike("wake_one", "invoke")
        /\ "wake_one" \notin ThiefPlaces /\ "invoke" \notin ThiefPlaces
        /\ "wake_one" \in ActivePlaces <=> "invoke" \in ActivePlaces
        /\ index' \in [Workers -> 1 .. NumWorkers + 1]
    BY DEF Alike, TaskPlaces, JoinPlaces, OwnPlaces, ChildlessPlaces, ThiefPlaces,
       ActivePlaces, TypeOK
  <1> QED BY <1>1, <1>2, <1>3, <1>4, <1>5, <1>6, <1>7, Walk DEF One

-----------------------------------------------------------------------------
(* Steps that take, make or end a task, or a join. *)
RunPlaces == OwnPlaces \cup {"inactive"}

(* A worker with a task: there is a topology, and its caller waits. *)
LEMMA Engaged ==
    ASSUME IInv, NEW w \in Workers, at[w] \in TaskPlaces
    PROVE  /\ ~ done /\ caller \notin {"ready", "stop", "join", "destroyed"}
  <1>1. Unfinished # {}
    BY Types, Innermost DEF IInv, TaskInv
  <1>2. join_counter[0] # 0
    BY <1>1, NoneLeft DEF IInv
  <1> QED BY <1>2 DEF IInv, CallInv

(* The counters and the notifier do not notice what an active worker does. *)
LEMMA StayActive ==
    ASSUME IInv, NEW w \in Workers, NEW from \in RunPlaces, NEW to \in RunPlaces,
           Move(w, from, to), UNCHANGED <<counters, done, notifier, index, call>>
    PROVE  /\ CountInv' /\ NotifierInv' /\ SharedInv' /\ WatchInv'
           /\ at[w] = from /\ at'[w] = to /\ \A v \in Workers \ {w} : at'[v] = at[v]
           /\ at' \in [Workers -> Places]
  <1> USE Types DEF counters, notifier, call
  <1>1. from \in Places /\ to \in Places
    BY DEF RunPlaces, OwnPlaces, Places
  <1>2. /\ at[w] = from /\ at'[w] = to /\ \A v \in Workers \ {w} : at'[v] = at[v]
        /\ at' \in [Workers -> Places]
    BY <1>1, Moved
  <1>3. CountInv'
    <2>1. /\ num_thieves' = num_thieves + One(to \in ThiefPlaces)
                 - One(from \in ThiefPlaces)
          /\ num_actives' = num_actives + One(to \in ActivePlaces)
                 - One(from \in ActivePlaces)
      BY DEF One, RunPlaces, OwnPlaces, ThiefPlaces, ActivePlaces
    <2> QED BY <1>1, <2>1, Counted
  <1>4. w \notin registered /\ w \notin sleeping
    BY <1>1, Stand DEF RunPlaces, OwnPlaces, PreparedPlaces
  <1>5. to \notin {"wake_all", "exit", "gone"} /\ from \notin {"wake_all", "exit", "gone"}
    BY DEF RunPlaces, OwnPlaces
  <1>6. NotifierInv'
    BY <1>2, <1>4, <1>5 DEF IInv, NotifierInv
  <1>7. SharedInv'
    <2>1. Attentive(w)'
      BY <1>2 DEF Attentive, RunPlaces, OwnPlaces
    <2> QED BY <2>1 DEF SharedInv
  <1>8. WatchInv'
    <2>1. \A v \in Workers : Watcher(v) => Watcher(v)'
      BY <1>2 DEF Watcher, Waiting, RunPlaces, OwnPlaces
    <2> QED BY <2>1 DEF IInv, WatchInv, Waiting
  <1> QED BY <1>2, <1>3, <1>6, <1>7, <1>8

LEMMA StepSteal ==
    ASSUME IInv, NEW w \in Workers, Steal(w)
    PROVE  IInv' /\ PoolStep
  <1> USE Types DEF Steal, counters, notifier
  <1>1. PICK t \in Tasks, from \in {"explore", "steal"} : Dequeue(t) /\ Take(w, t, from, "found")
    BY DEF StealAny, Dequeue
  <1>2. /\ Move(w, from, "found") /\ "found" \in Places
        /\ UNCHANGED <<num_thieves, num_actives, done, registered, sleeping, index, call, topology>>
    BY <1>1 DEF Take, Places
  <1>3. /\ at[w] = from /\ at'[w] = "found" /\ \A v \in Workers \ {w} : at'[v] = at[v]
        /\ at' \in [Workers -> Places] /\ w \notin registered /\ w \notin sleeping
    BY <1>2, Moved, Stand DEF PreparedPlaces
  <1>4. /\ num_thieves' = num_thieves + One("found" \in ThiefPlaces)
               - One(from \in ThiefPlaces)
        /\ num_actives' = num_actives + One("found" \in ActivePlaces)
               - One(from \in ActivePlaces)
    BY <1>2 DEF One, ThiefPlaces, ActivePlaces
  <1>5. CountInv' /\ num_thieves' \in 0 .. NumWorkers /\ num_actives' \in 0 .. NumWorkers
    BY <1>2, <1>4, Counted
  <1>6. wsq' \subseteq wsq /\ worker_wsq' \in [Workers -> SUBSET Tasks]
    BY <1>1, Dequeued DEF IInv
  <1>7. TaskInv' /\ Pool!Start(w) /\ stack' \in [Workers -> Seq(Tasks)]
    <2>1. from \notin TaskPlaces /\ "found" \in TaskPlaces \ JoinPlaces
      BY DEF TaskPlaces, JoinPlaces
    <2>2. worker_wsq[w] = {}
      BY <1>3 DEF IInv, TaskInv, PlaceInv, OwnPlaces
    <2> QED BY <1>1, <1>2, <2>1, <2>2, TakeTask DEF IInv, call
  <1>8. TypeOK'
    BY <1>2, <1>3, <1>5, <1>6, <1>7 DEF TypeOK, Places, call, topology
  <1>9. CallInv'
    BY <1>2 DEF IInv, CallInv, call, topology
  <1>10. NotifierInv'
    BY <1>2, <1>3 DEF IInv, NotifierInv, call
  <1>11. SharedInv'
    BY <1>3 DEF SharedInv, Attentive
  <1>12. WatchInv'
    BY <1>2, <1>3, SomeCounted DEF WatchInv, ThiefPlaces
  <1> QED BY <1>5, <1>7, <1>8, <1>9, <1>10, <1>11, <1>12 DEF IInv, PoolStep, Pool!Next

(* An active worker takes a task off a queue. *)
LEMMA StepTake ==
    ASSUME IInv, NEW w \in Workers, NEW from \in {"pop", "join_pop", "join_steal"}, NEW t,
           Dequeue(t), Take(w, t, from, "invoke"),
           UNCHANGED <<counters, done, notifier, index, call, topology>>
    PROVE  IInv' /\ PoolStep
  <1>1. Move(w, from, "invoke") /\ from \in RunPlaces /\ "invoke" \in RunPlaces
    BY DEF Take, RunPlaces, OwnPlaces
  <1>2. /\ CountInv' /\ NotifierInv' /\ SharedInv' /\ WatchInv'
        /\ at' \in [Workers -> Places]
    BY <1>1, StayActive
  <1>3. wsq' \subseteq wsq /\ worker_wsq' \in [Workers -> SUBSET Tasks]
    BY Dequeued DEF IInv
  <1>4. TaskInv' /\ Pool!Start(w) /\ stack' \in [Workers -> Seq(Tasks)]
    <2>1. from \in JoinPlaces \/ from \notin TaskPlaces
      BY DEF TaskPlaces, JoinPlaces
    <2>2. "invoke" \in TaskPlaces \ JoinPlaces /\ "invoke" \in OwnPlaces
      BY DEF TaskPlaces, JoinPlaces, OwnPlaces
    <2> QED BY <2>1, <2>2, TakeTask DEF IInv, call
  <1>5. TypeOK'
    BY <1>2, <1>3, <1>4, Types DEF TypeOK, Places, call, topology, counters, notifier
  <1>6. CallInv'
    BY DEF IInv, CallInv, call, topology
  <1> QED BY <1>2, <1>4, <1>5, <1>6 DEF IInv, PoolStep, Pool!Next

(* An active worker goes on, and takes, makes or ends no task. *)
LEMMA StepOn ==
    ASSUME IInv, NEW w \in Workers, NEW from \in RunPlaces, NEW to \in RunPlaces,
           Move(w, from, to), UNCHANGED <<queues, counters, done, notifier, stack, index, call, topology>>,
           TaskInv', PoolStep
    PROVE  IInv' /\ PoolStep
  <1>1. /\ CountInv' /\ NotifierInv' /\ SharedInv' /\ WatchInv'
        /\ at' \in [Workers -> Places]
    BY StayActive
  <1>2. TypeOK'
    BY <1>1, Types DEF TypeOK, Places, queues, call, topology, counters, notifier
  <1>3. CallInv'
    BY DEF IInv, CallInv, call, topology
  <1> QED BY <1>1, <1>2, <1>3 DEF IInv

LEMMA StepPopOwn ==
    ASSUME IInv, NEW w \in Workers, NEW from, NEW otherwise, PopOwn(w, from, otherwise),
           <<from, otherwise>> \in {<<"pop", "inactive">>, <<"join_pop", "join_steal">>}
    PROVE  IInv' /\ PoolStep
  <1> USE DEF PopOwn
  <1>0. from \in {"pop", "join_pop"}
    OBVIOUS
  <1>1. CASE worker_wsq[w] = {} /\ Move(w, from, otherwise) /\ UNCHANGED <<worker_wsq, stack>>
    <2>1. UNCHANGED <<queues, counters, done, notifier, stack, index, call, topology>>
      BY <1>1 DEF queues
    <2>2. from \in RunPlaces /\ otherwise \in RunPlaces
      BY DEF RunPlaces, OwnPlaces
    <2>3. at[w] = from /\ at'[w] = otherwise /\ \A v \in Workers \ {w} : at'[v] = at[v]
      BY <1>1, <2>1, <2>2, StayActive
    <2>4. TaskInv'
      <3>1. otherwise \notin ChildlessPlaces /\ (from \in TaskPlaces <=> otherwise \in TaskPlaces)
        BY DEF TaskPlaces, ChildlessPlaces
      <3> QED BY <1>1, <2>1, <2>3, <3>1, MoveTasks DEF IInv, call
    <2>5. UNCHANGED Pool!vars
      <3>1. from \in JoinPlaces <=> otherwise \in JoinPlaces
        BY DEF JoinPlaces
      <3> QED BY <2>1, <2>3, <3>1, PoolStays DEF IInv
    <2> QED BY <1>1, <2>1, <2>2, <2>4, <2>5, StepOn DEF PoolStep
  <1>2. ASSUME NEW t \in worker_wsq[w], Take(w, t, from, "invoke"),
               worker_wsq' = [worker_wsq EXCEPT ![w] = @ \ {t}]
        PROVE  IInv' /\ PoolStep
    <2>1. Dequeue(t)
      BY <1>2 DEF Dequeue, StealFrom
    <2> QED BY <1>0, <1>2, <2>1, StepTake
  <1> QED BY <1>1, <1>2

LEMMA StepPop ==
    ASSUME IInv, NEW w \in Workers, Pop(w)
    PROVE  IInv' /\ PoolStep
  BY StepPopOwn DEF Pop

LEMMA StepJoinPop ==
    ASSUME IInv, NEW w \in Workers, JoinPop(w)
    PROVE  IInv' /\ PoolStep
  BY StepPopOwn DEF JoinPop

LEMMA StepJoinSteal ==
    ASSUME IInv, NEW w \in Workers, JoinSteal(w)
    PROVE  IInv' /\ PoolStep
  <1>1. PICK t \in Tasks : StealAny(w, t) /\ Take(w, t, "join_steal", "invoke")
    BY DEF JoinSteal
  <1>2. Dequeue(t)
    BY <1>1 DEF StealAny, Dequeue
  <1> QED BY <1>1, <1>2, StepTake DEF JoinSteal

LEMMA StepJoin ==
    ASSUME IInv, NEW w \in Workers, Join(w)
    PROVE  IInv' /\ PoolStep
  <1> USE DEF Join
  <1>1. TaskInv' /\ \E t \in Tasks : Pool!Join(t)
    BY JoinTask DEF IInv
  <1>2. PoolStep
    BY <1>1, AsPool DEF PoolStep, Pool!Next
  <1>3. "fork" \in RunPlaces /\ "join" \in RunPlaces
    BY DEF RunPlaces, OwnPlaces
  <1> QED BY <1>1, <1>2, <1>3, StepOn

(* A join that returns. *)
LEMMA StepReturn ==
    ASSUME IInv, NEW w \in Workers, NEW from \in {"join", "join_steal"}, Move(w, from, "release"),
           join_counter[Head(stack[w])] = 0,
           UNCHANGED <<queues, counters, done, notifier, stack, index, call, topology>>
    PROVE  IInv' /\ PoolStep
  <1>1. from \in RunPlaces /\ "release" \in RunPlaces /\ from \in JoinPlaces
    BY DEF RunPlaces, OwnPlaces, JoinPlaces
  <1>2. at[w] = from /\ at'[w] = "release" /\ \A v \in Workers \ {w} : at'[v] = at[v]
    BY <1>1, StayActive
  <1>3. TaskInv' /\ \E t \in Tasks : Pool!Return(w, t)
    BY <1>1, <1>2, ReturnTask DEF IInv, call
  <1>4. PoolStep
    BY <1>3, AsPool DEF PoolStep, Pool!Next
  <1> QED BY <1>1, <1>3, <1>4, StepOn

LEMMA StepCheckJoin ==
    ASSUME IInv, NEW w \in Workers, CheckJoin(w)
    PROVE  IInv' /\ PoolStep
  <1> USE DEF CheckJoin
  <1>1. CASE join_counter[Head(stack[w])] = 0
    BY <1>1, StepReturn
  <1>2. CASE join_counter[Head(stack[w])] # 0
    <2>1. Move(w, "join", "join_pop") /\ "join" \in RunPlaces /\ "join_pop" \in RunPlaces
      BY <1>2 DEF RunPlaces, OwnPlaces
    <2>2. at[w] = "join" /\ at'[w] = "join_pop" /\ \A v \in Workers \ {w} : at'[v] = at[v]
      BY <2>1, StayActive
    <2>3. TaskInv'
      BY <2>2, MoveTasks DEF IInv, call, TaskPlaces, OwnPlaces, ChildlessPlaces
    <2>4. UNCHANGED Pool!vars
      BY <2>2, PoolStays DEF IInv, JoinPlaces
    <2> QED BY <2>1, <2>3, <2>4, StepOn DEF PoolStep
  <1> QED BY <1>1, <1>2

LEMMA StepJoinMiss ==
    ASSUME IInv, NEW w \in Workers, JoinMiss(w)
    PROVE  IInv' /\ PoolStep
  BY StepReturn DEF JoinMiss

(* A running task makes another one. *)
LEMMA StepPush ==
    ASSUME IInv, NEW w \in Workers, NEW from \in {"invoke", "fork", "release"},
           NEW to \in {"fork", "release"}, Move(w, from, to),
           NEW p, p = 0 \/ p \in Running, Push(w, p),
           \A v \in Workers : at'[v] \in ChildlessPlaces =>
              Kids(Head(stack[v])) = {} /\ Head(stack[v]) # p
    PROVE  IInv' /\ PoolStep
  <1>1. from \in RunPlaces /\ to \in RunPlaces
    BY DEF RunPlaces, OwnPlaces
  <1>2. UNCHANGED <<wsq, counters, done, notifier, stack, index, call, num_topologies>>
    BY DEF Push
  <1>3. /\ CountInv' /\ NotifierInv' /\ SharedInv' /\ WatchInv'
        /\ at[w] = from /\ at'[w] = to /\ \A v \in Workers \ {w} : at'[v] = at[v]
        /\ at' \in [Workers -> Places]
    BY <1>1, <1>2, StayActive
  <1>4. at[w] \in TaskPlaces \ JoinPlaces
    BY <1>3 DEF TaskPlaces, JoinPlaces
  <1>5. ~ done /\ caller \notin {"ready", "stop", "join", "destroyed"}
    BY <1>4, Engaged
  <1>6. /\ TaskInv' /\ Pool!Submit(p)
        /\ worker_wsq' \in [Workers -> SUBSET Tasks] /\ made' \in 0 .. MaxTasks
        /\ parent' \in [Tasks -> 0 .. MaxTasks]
        /\ join_counter' \in [0 .. MaxTasks -> 0 .. MaxTasks]
    BY <1>3, <1>4, <1>5, PushTask DEF IInv
  <1>7. TypeOK'
    BY <1>2, <1>3, <1>6, Types DEF TypeOK, Places, call, counters, notifier
  <1>8. CallInv'
    BY <1>2, <1>5 DEF IInv, CallInv, call
  <1>9. PoolStep
    <2>1. p \in 0 .. MaxTasks
      BY TaskTypes, Types DEF Tasks
    <2> QED BY <1>6, <2>1 DEF PoolStep, Pool!Next
  <1> QED BY <1>3, <1>6, <1>7, <1>8, <1>9 DEF IInv

LEMMA StepFork ==
    ASSUME IInv, NEW w \in Workers, Fork(w)
    PROVE  IInv' /\ PoolStep
  <1> USE DEF Fork
  <1>1. PICK from \in {"invoke", "fork"} : Move(w, from, "fork")
    OBVIOUS
  <1>2. /\ at[w] = from /\ at'[w] = "fork" /\ \A v \in Workers \ {w} : at'[v] = at[v]
    BY <1>1, Types DEF Move
  <1>3. PICK p : p = Head(stack[w])
    OBVIOUS
  <1>4. p \in Running /\ p \in Inside(w)
    BY <1>2, <1>3, Types, Innermost DEF IInv, TaskInv, TaskPlaces
  <1>5. ASSUME NEW v \in Workers, at'[v] \in ChildlessPlaces
        PROVE  Kids(Head(stack[v])) = {} /\ Head(stack[v]) # p
    <2>1. v # w /\ at[v] \in ChildlessPlaces
      BY <1>2, <1>5 DEF ChildlessPlaces
    <2>2. Head(stack[v]) \in Inside(v)
      BY <2>1, Types, Innermost DEF IInv, TaskInv, ChildlessPlaces, TaskPlaces
    <2>3. p \notin Inside(v)
      BY <1>4, <2>1 DEF IInv, TaskInv, ApartInv
    <2> QED BY <2>1, <2>2, <2>3 DEF IInv, TaskInv, ChildlessInv
  <1> QED BY <1>1, <1>3, <1>4, <1>5, StepPush

LEMMA StepRelease ==
    ASSUME IInv, NEW w \in Workers, Release(w)
    PROVE  IInv' /\ PoolStep
  <1> USE DEF Release
  <1>1. PICK from \in {"invoke", "release"} : Move(w, from, "release")
    OBVIOUS
  <1>2. /\ at[w] = from /\ at'[w] = "release" /\ \A v \in Workers \ {w} : at'[v] = at[v]
    BY <1>1, Types DEF Move
  <1>3. PICK t : t = Head(stack[w])
    OBVIOUS
  <1>4. PICK p : p = parent[t]
    OBVIOUS
  <1>5. t \in Tasks /\ t \in Unfinished
    BY <1>2, <1>3, Types, Innermost DEF IInv, TaskInv, TaskPlaces
  <1>6. p = 0 \/ (p \in Running /\ p < t)
    BY <1>4, <1>5 DEF IInv, TaskInv, KinInv
  <1>7. t \in Kids(p)
    BY <1>4, <1>5 DEF Kids
  <1>8. ASSUME NEW v \in Workers, at'[v] \in ChildlessPlaces
        PROVE  Kids(Head(stack[v])) = {} /\ Head(stack[v]) # p
    <2>1. at[v] \in ChildlessPlaces
      BY <1>2, <1>8 DEF ChildlessPlaces
    <2>2. Kids(Head(stack[v])) = {}
      BY <2>1 DEF IInv, TaskInv, ChildlessInv
    <2> QED BY <1>7, <2>2
  <1> QED BY <1>1, <1>3, <1>4, <1>6, <1>8, StepPush

LEMMA StepFinish ==
    ASSUME IInv, NEW w \in Workers, Finish(w)
    PROVE  IInv' /\ PoolStep
  <1>1. PICK t : t = Head(stack[w])
    OBVIOUS
  <1>2. PICK p : p = parent[t]
    OBVIOUS
  <1>3. /\ TaskInv' /\ Pool!Finish(w, t) /\ at'[w] \in {"join", "pop"}
        /\ stack' \in [Workers -> Seq(Tasks)] /\ parent' \in [Tasks -> 0 .. MaxTasks]
        /\ join_counter' \in [0 .. MaxTasks -> 0 .. MaxTasks]
        /\ num_topologies' \in 0 .. 1
    BY <1>1, <1>2, FinishTask DEF IInv
  <1>4. PICK from \in {"invoke", "release"}, to \in {"join", "pop"} : Move(w, from, to)
    BY DEF Finish
  <1>5. from \in RunPlaces /\ to \in RunPlaces /\ from \in TaskPlaces
    BY DEF RunPlaces, OwnPlaces, TaskPlaces
  <1>6. UNCHANGED <<queues, counters, done, notifier, index, call, made>>
    BY DEF Finish
  <1>7. /\ CountInv' /\ NotifierInv' /\ SharedInv' /\ WatchInv'
        /\ at[w] = from /\ at' \in [Workers -> Places]
    BY <1>4, <1>5, <1>6, StayActive
  <1>8. ~ done /\ caller \notin {"ready", "stop", "join", "destroyed"}
    BY <1>5, <1>7, Engaged
  <1>9. TypeOK'
    BY <1>3, <1>6, <1>7, Types DEF TypeOK, Places, queues, call, counters, notifier
  <1>10. CallInv'
    BY <1>6, <1>8 DEF IInv, CallInv, call
  <1>11. PoolStep
    <2>1. t \in Tasks
      BY <1>1, <1>5, <1>7, Types, Innermost DEF IInv, TaskInv
    <2> QED BY <1>3, <2>1, AsPool DEF PoolStep, Pool!Next
  <1> QED BY <1>3, <1>7, <1>9, <1>10, <1>11 DEF IInv
-----------------------------------------------------------------------------
(* Steps of the thread that owns the executor: no worker moves. *)
LEMMA CallerStep ==
    ASSUME IInv, UNCHANGED <<worker_wsq, counters, at, stack, index>>
    PROVE  /\ CountInv' /\ worker_wsq' = worker_wsq /\ at' = at /\ index' = index
           /\ num_thieves' = num_thieves /\ num_actives' = num_actives
  BY DEF IInv, CountInv, At, counters

LEMMA SameTopology ==
    ASSUME IInv, UNCHANGED <<queues, counters, at, stack, index, topology, sources>>
    PROVE  /\ CountInv' /\ TaskInv'
           /\ UNCHANGED done => PoolStep
  <1>1. TaskInv'
    BY SameTasks DEF IInv
  <1>2. ASSUME UNCHANGED done PROVE UNCHANGED Pool!vars
    <2>1. 1 \in Workers
      BY Types DEF Workers
    <2> QED BY <1>2, <2>1, PoolStays DEF IInv
  <1> QED BY <1>1, <1>2, CallerStep DEF PoolStep, queues

(* Fewer are waiting: who was attentive or a watcher still is. *)
LEMMA FewerWaiting ==
    ASSUME IInv, UNCHANGED <<at, counters>>, Waiting' \subseteq Waiting,
           Waiting' = {} \/ Waiting' = Waiting \/ \E v \in Waiting : v \notin Waiting'
    PROVE  /\ \A v \in Workers : Attentive(v) => Attentive(v)'
           /\ WatchInv'
  <1> USE DEF counters
  <1>1. \A v \in Workers : (Attentive(v) => Attentive(v)') /\ (Watcher(v) => Watcher(v)')
    BY DEF Attentive, Watcher
  <1>2. ASSUME Waiting' = {} PROVE WatchInv'
    BY <1>2 DEF WatchInv
  <1>3. ASSUME Waiting' = Waiting PROVE WatchInv'
    BY <1>1, <1>3 DEF IInv, WatchInv
  <1>4. ASSUME NEW v \in Waiting, v \notin Waiting' PROVE WatchInv'
    <2>1. v \in Workers
      BY Types DEF TypeOK, Waiting
    <2>2. num_thieves' > 0 \/ Watcher(v)'
      BY <1>4, Woken
    <2> QED BY <2>1, <2>2 DEF WatchInv
  <1>5. WatchInv'
    BY <1>2, <1>3, <1>4
  <1>6. \A v \in Workers : Attentive(v) => Attentive(v)'
    BY <1>1
  <1> QED BY <1>5, <1>6

LEMMA StepRun ==
    ASSUME IInv, NEW n \in 1 .. MaxTasks - made, Run(n)
    PROVE  IInv' /\ PoolStep
  <1>1. /\ caller = "ready" /\ caller' = "push" /\ sources' = n /\ wakeups' = n
        /\ UNCHANGED <<wsq, worker_wsq, counters, done, registered, sleeping, at, stack, index,
                      made, parent>>
    BY DEF Run, queues, notifier
  <1>2. join_counter[0] = 0 /\ wsq = {}
    BY <1>1, DoneIdle
  <1>3. /\ TaskInv' /\ join_counter' \in [0 .. MaxTasks -> 0 .. MaxTasks]
        /\ num_topologies' \in 0 .. 1
    BY <1>2, RunTasks DEF IInv
  <1>4. n > 0 /\ n \in 0 .. MaxTasks
    BY TaskTypes DEF IInv
  <1>5. TypeOK'
    BY <1>1, <1>3, <1>4, Types DEF TypeOK, counters
  <1>6. CallInv'
    BY <1>1, <1>4 DEF IInv, CallInv
  <1>7. NotifierInv'
    BY <1>1 DEF IInv, NotifierInv
  <1>8. SharedInv' /\ WatchInv'
    BY <1>1 DEF IInv, SharedInv, WatchInv, Watcher, Waiting, counters
  <1>9. CountInv'
    BY <1>1, CallerStep
  <1>10. PoolStep
    <2>1. \A v \in Workers : Inside(v)' = Inside(v) /\ Waits(v)' = Waits(v)
      BY <1>1 DEF Inside, Waits
    <2>2. Queued' = Queued
      BY <1>1 DEF Queued
    <2> QED BY <1>1, <2>1, <2>2 DEF PoolStep, Pool!vars
  <1> QED BY <1>3, <1>5, <1>6, <1>7, <1>8, <1>9, <1>10 DEF IInv

LEMMA StepPushSource ==
    ASSUME IInv, PushSource
    PROVE  IInv' /\ PoolStep
  <1>1. /\ caller = "push" /\ sources > 0 /\ sources' = sources - 1
        /\ caller' = IF sources = 1 THEN "notify" ELSE "push"
        /\ UNCHANGED <<worker_wsq, counters, done, registered, sleeping, at, stack, index, wakeups,
                      parent, join_counter, num_topologies>>
    BY DEF PushSource, notifier
  <1>2. ~ done
    BY <1>1 DEF IInv, CallInv
  <1>3. /\ TaskInv' /\ Pool!Submit(0)
        /\ wsq' \subseteq Tasks /\ made' \in 0 .. MaxTasks /\ sources' \in 0 .. MaxTasks
    BY <1>2, SourceTask DEF IInv
  <1>4. TypeOK'
    BY <1>1, <1>3, Types DEF TypeOK, counters
  <1>5. CallInv'
    BY <1>1, Types DEF IInv, CallInv
  <1>6. NotifierInv'
    BY <1>1 DEF IInv, NotifierInv
  <1>7. SharedInv' /\ WatchInv'
    BY <1>1 DEF IInv, SharedInv, WatchInv, Watcher, Waiting, counters
  <1>8. CountInv'
    BY <1>1, CallerStep
  <1>9. PoolStep
    <2>1. 0 \in 0 .. MaxTasks
      BY Types
    <2> QED BY <1>3, <2>1 DEF PoolStep, Pool!Next
  <1> QED BY <1>3, <1>4, <1>5, <1>6, <1>7, <1>8, <1>9 DEF IInv

(* When the last notification is out, somebody looks at the queue. *)
LEMMA StepNotifyN ==
    ASSUME IInv, NotifyN
    PROVE  IInv' /\ PoolStep
  <1> USE Types DEF NotifyN, queues, topology
  <1>1. /\ caller = "notify" /\ caller' = IF wakeups' = 0 THEN "wait" ELSE "notify"
        /\ UNCHANGED <<queues, counters, done, at, stack, index, sources, topology>>
    OBVIOUS
  <1>2. wakeups > 0 /\ sources = 0 /\ ~ done
    BY <1>1 DEF IInv, CallInv
  <1>3. wakeups' \in 0 .. MaxTasks
    <2>1. wakeups \in 0 .. MaxTasks /\ 0 \in 0 .. MaxTasks
      BY DEF TypeOK
    <2>2. wakeups' = 0 \/ wakeups' = wakeups - 1
      OBVIOUS
    <2> QED BY <1>2, <2>1, <2>2
  <1>4. /\ registered' \subseteq registered /\ sleeping' \subseteq sleeping
        /\ registered' \subseteq Workers /\ sleeping' \subseteq Workers \ registered'
        /\ Waiting' \subseteq Waiting
        /\ Waiting' = {} \/ \E v \in Waiting : v \notin Waiting'
    <2>1. CASE Notifier!NotifyAll
      BY <2>1 DEF Notifier!NotifyAll, Waiting
    <2>2. CASE NotifyOne
      BY <2>2, Notified
    <2> QED BY <2>1, <2>2
  <1>5. TypeOK'
    BY <1>1, <1>3, <1>4 DEF TypeOK, counters
  <1>6. CountInv' /\ TaskInv' /\ PoolStep
    BY <1>1, SameTopology
  <1>8. CallInv'
    <2>1. wakeups' \in Nat
      BY <1>3
    <2> QED BY <1>1, <1>2, <2>1 DEF IInv, CallInv
  <1>9. \A w \in Workers : at[w] \notin {"wake_all", "exit", "gone"}
    BY <1>2 DEF IInv, NotifierInv
  <1>10. NotifierInv'
    BY <1>1, <1>4, <1>9 DEF IInv, NotifierInv
  <1>11. WatchInv'
    BY <1>1, <1>4, FewerWaiting
  <1>12. SharedInv'
    <2>1. CASE Waiting' = {}
      <3>1. \A v \in Workers : Attentive(v)'
        BY <1>1, <1>9, <2>1 DEF Attentive, Places
      <3>2. 1 \in Workers
        BY DEF Workers
      <3> QED BY <3>1, <3>2 DEF SharedInv
    <2>2. ASSUME NEW v \in Waiting, v \notin Waiting' PROVE SharedInv'
      <3>1. v \in Workers /\ at[v] \in PreparedPlaces \cup {"asleep"}
        BY DEF TypeOK, Waiting, IInv, NotifierInv
      <3>2. Attentive(v)'
        BY <1>1, <1>9, <2>2, <3>1 DEF Attentive, PreparedPlaces
      <3> QED BY <3>1, <3>2 DEF SharedInv
    <2> QED BY <1>4, <2>1, <2>2
  <1> QED BY <1>5, <1>6, <1>8, <1>10, <1>11, <1>12 DEF IInv

LEMMA StepWaitForAll ==
    ASSUME IInv, WaitForAll
    PROVE  IInv' /\ PoolStep
  <1> USE Types DEF WaitForAll, queues, topology, notifier
  <1>1. /\ caller = "wait" /\ num_topologies = 0 /\ caller' = "ready"
        /\ UNCHANGED <<queues, counters, done, registered, sleeping, at, stack, index, sources,
                      wakeups, topology>>
    OBVIOUS
  <1>2. join_counter[0] = 0 /\ ~ done /\ ~ (sources > 0)
    BY <1>1 DEF IInv, TaskInv, JoinInv, CallInv
  <1>3. TypeOK'
    BY <1>1 DEF TypeOK, counters
  <1>4. CountInv' /\ TaskInv'
    BY <1>1, SameTopology
  <1>5. CallInv'
    BY <1>1, <1>2 DEF CallInv
  <1>6. NotifierInv' /\ SharedInv' /\ WatchInv'
    BY <1>1 DEF IInv, NotifierInv, SharedInv, WatchInv, Attentive, Watcher, Waiting, counters
  <1> QED BY <1>1, <1>3, <1>4, <1>5, <1>6, SameTopology DEF IInv

LEMMA StepSetDone ==
    ASSUME IInv, SetDone
    PROVE  IInv' /\ PoolStep
  <1> USE Types DEF SetDone, queues, topology, notifier
  <1>1. /\ caller = "ready" /\ caller' = "stop" /\ done' = TRUE
        /\ UNCHANGED <<queues, counters, registered, sleeping, at, stack, index, sources,
                      wakeups, topology>>
    OBVIOUS
  <1>2. join_counter[0] = 0 /\ sources = 0 /\ wsq = {} /\ Queued = {} /\ Running = {}
    BY <1>1, DoneIdle
  <1>3. TypeOK'
    BY <1>1 DEF TypeOK, counters
  <1>4. CountInv' /\ TaskInv'
    BY <1>1, SameTopology
  <1>5. CallInv'
    BY <1>1, <1>2 DEF CallInv
  <1>6. NotifierInv' /\ SharedInv' /\ WatchInv'
    <2>1. NotifierInv'
      <3>1. ~ done
        BY <1>1 DEF IInv, CallInv
      <3> QED BY <1>1, <3>1 DEF IInv, NotifierInv
    <2>2. SharedInv'
      BY <1>1, <1>2 DEF SharedInv
    <2>3. WatchInv'
      BY <1>1 DEF IInv, WatchInv, Watcher, Waiting, counters
    <2> QED BY <2>1, <2>2, <2>3
  <1>7. Pool!Close
    <2>1. \A v \in Workers : Inside(v)' = Inside(v) /\ Waits(v)' = Waits(v)
      BY <1>1 DEF Inside, Waits
    <2>2. Queued' = Queued
      BY <1>1 DEF Queued
    <2> QED BY <1>1, <1>2, <2>1, <2>2, AsPool DEF Pool!Close
  <1> QED BY <1>3, <1>4, <1>5, <1>6, <1>7 DEF IInv, PoolStep, Pool!Next

LEMMA StepStopAll ==
    ASSUME IInv, StopAll
    PROVE  IInv' /\ PoolStep
  <1> USE Types DEF StopAll, queues, topology, Notifier!NotifyAll
  <1>1. /\ caller = "stop" /\ caller' = "join" /\ registered' = {} /\ sleeping' = {}
        /\ UNCHANGED <<queues, counters, done, at, stack, index, sources,
                      wakeups, topology>>
    OBVIOUS
  <1>2. TypeOK'
    BY <1>1 DEF TypeOK, counters
  <1>3. CountInv' /\ TaskInv'
    BY <1>1, SameTopology
  <1>4. CallInv'
    BY <1>1 DEF IInv, CallInv
  <1>5. NotifierInv'
    BY <1>1 DEF IInv, NotifierInv
  <1>6. Waiting' = {} /\ Waiting' \subseteq Waiting
    BY <1>1 DEF Waiting
  <1>7. SharedInv' /\ WatchInv'
    BY <1>1, <1>6, FewerWaiting DEF IInv, SharedInv
  <1> QED BY <1>1, <1>2, <1>3, <1>4, <1>5, <1>7, SameTopology DEF IInv

LEMMA StepJoinWorkers ==
    ASSUME IInv, JoinWorkers
    PROVE  IInv' /\ PoolStep
  <1> USE Types DEF JoinWorkers, queues, topology, notifier
  <1>1. /\ caller = "join" /\ caller' = "destroyed"
        /\ UNCHANGED <<queues, counters, done, registered, sleeping, at, stack, index, sources,
                      wakeups, topology>>
    OBVIOUS
  <1>2. TypeOK'
    BY <1>1 DEF TypeOK, counters
  <1>3. CountInv' /\ TaskInv'
    BY <1>1, SameTopology
  <1>4. CallInv'
    BY <1>1 DEF IInv, CallInv
  <1>5. NotifierInv' /\ SharedInv' /\ WatchInv'
    BY <1>1 DEF IInv, NotifierInv, SharedInv, WatchInv, Attentive, Watcher, Waiting, counters
  <1> QED BY <1>1, <1>2, <1>3, <1>4, <1>5, SameTopology DEF IInv
-----------------------------------------------------------------------------
LEMMA InitIInv == Init => IInv /\ Pool!Init
  <1> SUFFICES ASSUME Init PROVE IInv /\ Pool!Init
    OBVIOUS
  <1> USE ExecutorAssumption DEF Init, Notifier!Init
  <1>1. \A w \in Workers : at[w] = "wait" /\ worker_wsq[w] = {} /\ stack[w] = <<>>
    OBVIOUS
  <1>2. 0 \in 0 .. MaxTasks /\ 0 \in 0 .. NumWorkers /\ 1 \in 1 .. NumWorkers + 1
        /\ <<>> \in Seq(Tasks)
    OBVIOUS
  <1>3. TypeOK
    <2>1. /\ index \in [Workers -> 1 .. NumWorkers + 1] /\ worker_wsq \in [Workers -> SUBSET Tasks]
          /\ stack \in [Workers -> Seq(Tasks)] /\ parent \in [Tasks -> 0 .. MaxTasks]
          /\ join_counter \in [0 .. MaxTasks -> 0 .. MaxTasks]
      BY <1>2
    <2>2. num_topologies \in 0 .. 1 /\ registered \subseteq Workers
          /\ sleeping \subseteq Workers \ registered
      OBVIOUS
    <2>3. at \in [Workers -> Places]
      BY DEF Places
    <2> QED BY <1>2, <2>1, <2>2, <2>3 DEF TypeOK, Places
  <1>4. At(at, ThiefPlaces) = {} /\ At(at, ActivePlaces) = {} /\ Cardinality({}) = 0
    BY <1>1, FS_EmptySet DEF At, ThiefPlaces, ActivePlaces
  <1>5. CountInv
    BY <1>4 DEF CountInv
  <1>6. \A w \in Workers : Inside(w) = {} /\ Waits(w) = {}
    BY <1>1 DEF Inside, Waits
  <1>7. Queued = {} /\ Running = {} /\ Unfinished = {} /\ \A p : Kids(p) = {}
    BY <1>1, <1>6 DEF Queued, Running, Unfinished, Kids
  <1>8. TaskInv
    <2>1. PlaceInv /\ ChildlessInv
      BY <1>1 DEF PlaceInv, ChildlessInv, TaskPlaces, ChildlessPlaces
    <2>2. ApartInv
      BY <1>1, <1>6 DEF ApartInv, Distinct
    <2>3. MadeInv /\ KinInv
      BY <1>7 DEF MadeInv, KinInv
    <2>4. JoinInv
      <3>1. sources = 0 /\ num_topologies = 0 /\ \A p \in 0 .. MaxTasks : join_counter[p] = 0
        OBVIOUS
      <3>2. \A p : Cardinality(Kids(p)) = 0
        BY <1>4, <1>7, Zenon
      <3> QED BY <1>2, <3>1, <3>2 DEF JoinInv
    <2> QED BY <2>1, <2>2, <2>3, <2>4 DEF TaskInv
  <1>9. CallInv
    BY <1>2 DEF CallInv
  <1>10. NotifierInv
    BY <1>1 DEF NotifierInv
  <1>11. SharedInv /\ WatchInv
    BY DEF SharedInv, WatchInv
  <1>12. Pool!Init
    BY <1>6, <1>7 DEF Pool!Init, Tasks, Pool!Tasks
  <1> QED BY <1>3, <1>5, <1>8, <1>9, <1>10, <1>11, <1>12 DEF IInv

LEMMA Inductive ==
    ASSUME IInv, [Next]_vars
    PROVE  IInv' /\ PoolStep
  <1>1. ASSUME NEW w \in Workers, Exploit(w) PROVE IInv' /\ PoolStep
    BY <1>1, StepBecomeActive, StepNoThieves, StepWakeOne, StepPop, StepBecomeInactive, Zenon
       DEF Exploit
  <1>2. ASSUME NEW w \in Workers, Wait(w) PROVE IInv' /\ PoolStep
    BY <1>2, StepBecomeThief, StepSteal, StepStopStealing, StepWakeThief, StepPrepareWait,
       StepCheckQueue, StepCancelAndSteal, StepMissShared, StepCheckDone, StepLeaveThieves,
       StepCheckActives, StepCheckWorkerQueue, StepCancelAndRetry, StepCommitWait, StepWakeUp,
       StepWakeAll, StepExit, Zenon
       DEF Wait
  <1>3. ASSUME NEW w \in Workers, Joining(w) PROVE IInv' /\ PoolStep
    BY <1>3, StepCheckJoin, StepJoinPop, StepJoinSteal, StepJoinMiss, Zenon DEF Joining
  <1>4. ASSUME NEW w \in Workers, Work(w) PROVE IInv' /\ PoolStep
    BY <1>4, StepFork, StepJoin, StepRelease, StepFinish, Zenon DEF Work
  <1>5. ASSUME Call \/ SetDone PROVE IInv' /\ PoolStep
    BY <1>5, StepPushSource, StepNotifyN, StepWaitForAll, StepStopAll, StepJoinWorkers,
       StepSetDone, Zenon
       DEF Call
  <1>6. ASSUME NEW n \in 1 .. MaxTasks - made, Run(n) PROVE IInv' /\ PoolStep
    BY <1>6, StepRun
  <1>7. ASSUME UNCHANGED vars PROVE IInv' /\ PoolStep
    <2> USE <1>7 DEF vars, call
    <2>1. CountInv' /\ TaskInv' /\ PoolStep
      BY SameTopology
    <2>2. TypeOK'
      BY Types DEF TypeOK, queues, counters, notifier, topology
    <2>3. CallInv' /\ NotifierInv'
      BY DEF IInv, CallInv, NotifierInv, notifier, topology
    <2>4. SharedInv' /\ WatchInv'
      BY DEF IInv, SharedInv, WatchInv, Attentive, Watcher, Waiting, queues, counters, notifier
    <2> QED BY <2>1, <2>2, <2>3, <2>4 DEF IInv
  <1> QED BY <1>1, <1>2, <1>3, <1>4, <1>5, <1>6, <1>7, Zenon DEF Next

LEMMA Invariant == Spec => []IInv
  <1>1. Init => IInv
    BY InitIInv
  <1>2. IInv /\ [Next]_vars => IInv'
    BY Inductive
  <1> QED BY <1>1, <1>2, PTL DEF Spec

(* Every variable of the executor keeps its type: the two counters of      *)
(* workers never wrap below 0 nor pass the number of workers, and the      *)
(* notifier never has a worker registered and asleep at once.              *)
THEOREM TypeCorrect == Spec => []TypeOK
  <1>1. IInv => TypeOK
    BY DEF IInv
  <1> QED BY <1>1, Invariant, PTL

(* When every worker that is left sleeps, no task is queued that is not    *)
(* about to be announced, and no shutdown has been missed: for any number  *)
(* of workers and tasks, the two-phase wait of _wait_for_task loses none.  *)
THEOREM NobodySleepsAwayATask == Spec => []SleepOnlyWhenIdle
  <1>1. IInv => SleepOnlyWhenIdle
    <2> SUFFICES ASSUME IInv, \A w \in Workers : w \in Asleep \/ at[w] = "gone"
                 PROVE  /\ Queued = {} \/ caller \in {"push", "notify"}
                        /\ done => Asleep = {} \/ caller = "stop"
      BY DEF SleepOnlyWhenIdle
    <2>1. \A w \in Workers : at[w] \in {"asleep", "gone"}
      BY DEF Asleep
    <2>2. \A w \in Workers : worker_wsq[w] = {}
      BY <2>1 DEF IInv, TaskInv, PlaceInv, OwnPlaces
    <2>3. wsq = {} \/ caller \in {"push", "notify"}
      <3>1. SUFFICES ASSUME wsq # {}, caller \notin {"push", "notify"} PROVE FALSE
        BY Types
      <3>2. PICK w \in Workers : Attentive(w)
        BY <3>1 DEF IInv, SharedInv
      <3>3. at[w] = "asleep" /\ w \notin sleeping
        BY <2>1, <3>2 DEF Attentive, Waiting
      <3> QED BY <3>3 DEF Asleep
    <2>4. Queued = {} \/ caller \in {"push", "notify"}
      BY <2>2, <2>3 DEF Queued
    <2>5. ASSUME done, caller # "stop" PROVE Asleep = {}
      <3>1. sleeping = {}
        BY <2>5 DEF IInv, CallInv, NotifierInv
      <3> QED BY <3>1 DEF Asleep
    <2> QED BY <2>4, <2>5
  <1> QED BY <1>1, Invariant, PTL

(* It never happens that some workers run tasks while all the others sleep *)
(* with nobody to steal what the running tasks push: the last thief stays  *)
(* or wakes a successor, for any number of workers.                        *)
THEOREM WorkIsWatched == Spec => []ActiveIsWatched
  <1>1. IInv => ActiveIsWatched
    <2> SUFFICES ASSUME IInv, Workers = Busy \cup Asleep, Busy # {}, Asleep # {} PROVE FALSE
      BY DEF ActiveIsWatched
    <2>1. \A w \in Workers : \/ at[w] \in RunPlaces
                             \/ at[w] = "asleep" /\ w \in sleeping
      BY DEF Busy, Asleep, RunPlaces, OwnPlaces, JoinPlaces
    <2>2. num_actives > 0
      <3>1. PICK w \in Workers : at[w] \in RunPlaces
        BY DEF Busy, RunPlaces, OwnPlaces, JoinPlaces
      <3> QED BY <3>1, SomeCounted DEF ActivePlaces, RunPlaces, OwnPlaces
    <2>3. num_thieves = 0
      <3>1. At(at, ThiefPlaces) = {}
        BY <2>1 DEF At, ThiefPlaces, RunPlaces, OwnPlaces
      <3> QED BY <3>1, FS_EmptySet DEF IInv, CountInv
    <2>4. Waiting # {}
      BY DEF Asleep, Waiting
    <2>5. PICK w \in Workers : Watcher(w)
      BY <2>2, <2>3, <2>4 DEF IInv, WatchInv
    <2> QED BY <2>1, <2>5 DEF Watcher, Waiting, RunPlaces, OwnPlaces
  <1> QED BY <1>1, Invariant, PTL

(* The executor is a pool of workers: each task is started once, by a      *)
(* worker that is in no other or only in tasks that wait in a join; a join *)
(* returns, and a task ends, only when all tasks it forked are finished;   *)
(* and the executor is shut down only when no task is queued or running.   *)
(* That a queued task is started is the part of ImplementsTaskPool that    *)
(* rests on fairness.                                                      *)
THEOREM Refinement == Spec => Pool!Spec
  <1>1. Init => Pool!Init
    BY InitIInv
  <1>2. IInv /\ [Next]_vars => [Pool!Next]_(Pool!vars)
    BY Inductive DEF PoolStep
  <1> QED BY <1>1, <1>2, Invariant, PTL DEF Spec, Pool!Spec
=============================================================================
