------------------------ MODULE TaskflowKMeans_proofs ------------------------
(***************************************************************************)
(* The task graph of the taskflow fit runs one task body at a time, but    *)
(* for the row tasks; its counters count what is left to do; and it        *)
(* implements KMeans: for every data set, number of iterations and number  *)
(* of workers, and however late the tail of an invocation is.              *)
(*                                                                         *)
(* IInv is about the frames of the workers and the counters, and needs no  *)
(* value of an array; FitInv adds, for where the graph's turn is, what     *)
(* the arrays, the shared index and the join counters hold then.           *)
(***************************************************************************)
EXTENDS TaskflowKMeans, Lloyd_proofs, SequenceTheorems

(* The frames there are, and the stacks of a worker: it invokes a task, or *)
(* a row task while it waits for the join of compute_centroids.            *)
Invocations ==
    {r \in FrameType :
        \/ r.task = "chunk" /\ r.at \in {"claim", "rows", "tear_down"}
        \/ r.task = "compute_centroids" /\ r.at \in {"inline", "spawn", "join"}
        \/ r.task \in Nodes /\ r.at \in {"body", "recover", "release", "push", "tear_down", "notify"}}

Stacks ==
    {s \in Seq(Invocations) :
        Len(s) <= 2 /\ (Len(s) = 2 => s[1].task = "chunk" /\ s[2].at = "join")}

(* A task from its body to its push: who has it has the graph's turn. *)
Running == {r \in Invocations : r.task \in Nodes /\ r.at \notin {"tear_down", "notify"}}
Sharing == {r \in Invocations : r.at \in {"spawn", "join"}}
RowTasks == {r \in Invocations : r.task = "chunk"}
Holding == {r \in Invocations : r.task \in Nodes /\ r.at # "notify"}
Pushing == {r \in Invocations : r.at = "push"}
Notifying == {r \in Invocations : r.at = "notify"}

(* Frames during which the join counter of compute_centroids is settled:   *)
(* from the push of that task to its join.                                 *)
Settled ==
    {r \in Invocations :
        \/ r.task = "clean_up" /\ r.at = "push"
        \/ r.task = "compute_centroids" /\ r.at \in {"body", "spawn", "join"}}

In(st, P) == {f \in Workers \X (1 .. 2) : f[2] <= Len(st[f[1]]) /\ st[f[1]][f[2]] \in P}
Count(P) == Cardinality(In(stack, P))

ShapeInv ==
    /\ stack \in [Workers -> Stacks]
    /\ ready \subseteq Nodes /\ ready_chunks \in Nat
    /\ join_counter \in [Nodes -> Int]
    /\ next \in 0 .. N /\ num_of_threads \in Workers
    /\ pc # "wait" => ready = {} /\ \A w \in Workers : stack[w] = <<>>

(* One task of the graph is pushed or runs, all others are tails. *)
TurnInv == Cardinality(ready) + Count(Running) <= 1

(* There are row tasks only while compute_centroids spawns or waits. *)
RowTaskInv ==
    /\ ready_chunks + Count(RowTasks) > 0 => Count(Sharing) > 0
    /\ "compute_centroids" \in ready \/ Count(Settled) > 0 =>
          join_counter["compute_centroids"] = ready_chunks + Count(RowTasks)

TopologyInv ==
    /\ topology_counter = Cardinality(ready) + Count(Holding) + Count(Pushing)
    /\ num_topologies = (IF topology_counter > 0 THEN 1 ELSE 0) + Count(Notifying)
    /\ num_topologies <= 1

IInv == ShapeInv /\ TurnInv /\ RowTaskInv /\ TopologyInv

-----------------------------------------------------------------------------
One(b) == IF b THEN 1 ELSE 0

LEMMA InFinite ==
    ASSUME NEW st, NEW P
    PROVE  IsFiniteSet(In(st, P)) /\ Cardinality(In(st, P)) \in Nat
  <1>1. IsFiniteSet(Workers)
    <2>1. 1 \in Int /\ MaxWorkers \in Int
      BY TaskflowAssumption
    <2> QED BY <2>1, FS_Interval DEF Workers
  <1>2. IsFiniteSet(Workers \X (1 .. 2))
    <2>1. \A a, b \in Int : IsFiniteSet(a .. b)
      BY FS_Interval
    <2>2. 1 \in Int /\ 2 \in Int
      OBVIOUS
    <2>3. IsFiniteSet(1 .. 2)
      BY <2>1, <2>2, Zenon
    <2> QED BY <1>1, <2>3, FS_Product
  <1>3. In(st, P) \in SUBSET (Workers \X (1 .. 2))
    BY DEF In
  <1> QED BY <1>2, <1>3, FS_Subset, FS_CardinalityType

(* What the stack of w adds to a count, level by level. *)
OnLevel(st, w, i, P) == One(i <= Len(st[w]) /\ st[w][i] \in P)
Elsewhere(st, w, P) == {f \in In(st, P) : f[1] # w}

LEMMA CountLevels ==
    ASSUME NEW st, NEW w \in Workers, NEW P
    PROVE  /\ Cardinality(Elsewhere(st, w, P)) \in Nat
           /\ Cardinality(In(st, P)) = Cardinality(Elsewhere(st, w, P))
                                        + OnLevel(st, w, 1, P) + OnLevel(st, w, 2, P)
  <1> DEFINE E == Elsewhere(st, w, P)
             L(i) == IF i <= Len(st[w]) /\ st[w][i] \in P THEN {<<w, i>>} ELSE {}
  <1>1. IsFiniteSet(E) /\ Cardinality(E) \in Nat
    <2>1. E \in SUBSET In(st, P)
      BY DEF Elsewhere
    <2> QED BY <2>1, InFinite, FS_Subset, FS_CardinalityType
  <1>2. \A f \in E : f[1] # w
    BY DEF Elsewhere
  <1>3. In(st, P) = (E \cup L(1)) \cup L(2)
    <2>1. \A f \in In(st, P) : f \in E \/ f \in L(1) \/ f \in L(2)
      <3> SUFFICES ASSUME NEW f \in In(st, P), f[1] = w PROVE f \in L(1) \/ f \in L(2)
        BY DEF Elsewhere
      <3>1. /\ f \in Workers \X (1 .. 2) /\ f[2] <= Len(st[f[1]])
            /\ st[f[1]][f[2]] \in P
        BY DEF In
      <3>2. f[2] \in 1 .. 2 /\ f = <<w, f[2]>>
        BY <3>1
      <3>3. f[2] = 1 \/ f[2] = 2
        BY <3>2
      <3> QED BY <3>1, <3>2, <3>3
    <2>2. \A i \in 1 .. 2 : L(i) \subseteq In(st, P)
      BY DEF In
    <2>3. E \subseteq In(st, P)
      BY DEF Elsewhere
    <2> HIDE DEF E, L
    <2> QED BY <2>1, <2>2, <2>3
  <1>4. /\ IsFiniteSet(E \cup L(1))
        /\ Cardinality(E \cup L(1)) = Cardinality(E) + OnLevel(st, w, 1, P)
    <2>1. CASE 1 <= Len(st[w]) /\ st[w][1] \in P
      <3>1. <<w, 1>> \notin E
        BY <1>2
      <3> HIDE DEF E
      <3> QED BY <1>1, <2>1, <3>1, FS_AddElement DEF OnLevel, One
    <2>2. CASE ~ (1 <= Len(st[w]) /\ st[w][1] \in P)
      <3>1. E \cup L(1) = E
        BY <2>2
      <3>2. OnLevel(st, w, 1, P) = 0
        BY <2>2 DEF OnLevel, One
      <3> HIDE DEF E, L
      <3> QED BY <1>1, <3>1, <3>2
    <2> QED BY <2>1, <2>2
  <1>5. Cardinality((E \cup L(1)) \cup L(2))
           = Cardinality(E \cup L(1)) + OnLevel(st, w, 2, P)
    <2>1. CASE 2 <= Len(st[w]) /\ st[w][2] \in P
      <3>1. <<w, 2>> \notin E \cup L(1)
        BY <1>2
      <3>2. L(2) = {<<w, 2>>}
        BY <2>1
      <3> HIDE DEF E, L
      <3> QED BY <1>4, <2>1, <3>1, <3>2, FS_AddElement DEF OnLevel, One
    <2>2. CASE ~ (2 <= Len(st[w]) /\ st[w][2] \in P)
      <3>1. (E \cup L(1)) \cup L(2) = E \cup L(1)
        BY <2>2
      <3>2. OnLevel(st, w, 2, P) = 0
        BY <2>2 DEF OnLevel, One
      <3>3. Cardinality(E \cup L(1)) \in Nat
        BY <1>4, FS_CardinalityType
      <3> HIDE DEF E, L
      <3>4. Cardinality((E \cup L(1)) \cup L(2)) = Cardinality(E \cup L(1))
        BY <3>1, Zenon
      <3> QED BY <3>2, <3>3, <3>4
    <2> QED BY <2>1, <2>2
  <1> HIDE DEF E, L
  <1> QED BY <1>1, <1>3, <1>4, <1>5 DEF E

LEMMA SameElsewhere ==
    ASSUME NEW st, NEW su, NEW w \in Workers, NEW P,
           \A v \in Workers \ {w} : su[v] = st[v]
    PROVE  Elsewhere(su, w, P) = Elsewhere(st, w, P)
  BY DEF Elsewhere, In

-----------------------------------------------------------------------------
(* The three ways to change a stack. *)
LEMMA UpToTwo == ASSUME NEW n \in Nat, n <= 2 PROVE n \in {0, 1, 2}
  OBVIOUS

LEMMA OneMore == \A n \in {0, 1} : n + 1 <= 2 /\ (n + 1 = 2 => n = 1)
  OBVIOUS

LEMMA OneLess == \A n \in {1, 2} : 1 <= n /\ ~ (2 <= n - 1)
  OBVIOUS

LEMMA StackFacts ==
    ASSUME NEW s \in Stacks
    PROVE  /\ s \in Seq(Invocations) /\ Len(s) \in {0, 1, 2} /\ (s = <<>> <=> Len(s) = 0)
           /\ \A i \in 1 .. Len(s) : s[i] \in Invocations
           /\ Len(s) = 2 => s[1].task = "chunk" /\ s[2].at = "join"
  <1>1. /\ s \in Seq(Invocations) /\ Len(s) <= 2
        /\ Len(s) = 2 => s[1].task = "chunk" /\ s[2].at = "join"
    BY DEF Stacks
  <1>2. Len(s) \in Nat /\ (s = <<>> <=> Len(s) = 0)
    BY <1>1, EmptySeq
  <1>3. \A i \in 1 .. Len(s) : s[i] \in Invocations
    BY <1>1
  <1>4. Len(s) \in {0, 1, 2}
    BY <1>1, <1>2, UpToTwo, Zenon
  <1> QED BY <1>1, <1>2, <1>3, <1>4

LEMMA PutShape ==
    ASSUME NEW s \in Stacks, s # <<>>, NEW f \in Invocations
    PROVE  LET t == <<f>> \o Tail(s)
           IN  /\ t \in Seq(Invocations) /\ Len(t) = Len(s) /\ t[1] = f /\ t # <<>>
               /\ Len(s) = 2 => t[2] = s[2]
  <1> DEFINE t == <<f>> \o Tail(s)
  <1>1. /\ s \in Seq(Invocations) /\ Len(s) \in {1, 2}
    BY StackFacts
  <1>2. /\ Tail(s) \in Seq(Invocations) /\ Len(Tail(s)) = Len(s) - 1
        /\ \A i \in 1 .. Len(Tail(s)) : Tail(s)[i] = s[i + 1]
    BY <1>1, HeadTailProperties
  <1>3. <<f>> \in Seq(Invocations) /\ Len(<<f>>) = 1 /\ <<f>>[1] = f
    OBVIOUS
  <1>4. /\ t \in Seq(Invocations) /\ Len(t) = 1 + Len(Tail(s))
        /\ \A i \in 1 .. 1 + Len(Tail(s)) : t[i] = IF i <= 1 THEN <<f>>[i] ELSE Tail(s)[i - 1]
    BY <1>2, <1>3, ConcatProperties
  <1> HIDE DEF t
  <1>5. Len(t) = Len(s) /\ t[1] = f
    BY <1>1, <1>2, <1>3, <1>4
  <1>6. Len(s) = 2 => t[2] = s[2]
    <2> SUFFICES ASSUME Len(s) = 2 PROVE t[2] = s[2]
      OBVIOUS
    <2>1. 2 \in 1 .. 1 + Len(Tail(s)) /\ 1 \in 1 .. Len(Tail(s)) /\ 2 - 1 = 1 /\ 1 + 1 = 2
      BY <1>2
    <2>2. t[2] = Tail(s)[2 - 1]
      BY <1>4, <2>1
    <2>3. Tail(s)[1] = s[1 + 1]
      BY <1>2, <2>1
    <2> QED BY <2>1, <2>2, <2>3
  <1>7. t # <<>>
    BY <1>1, <1>5
  <1> QED BY <1>4, <1>5, <1>6, <1>7 DEF t

LEMMA PushShape ==
    ASSUME NEW s \in Stacks, Len(s) <= 1, NEW f \in Invocations
    PROVE  LET t == <<f>> \o s
           IN  /\ t \in Seq(Invocations) /\ Len(t) = Len(s) + 1 /\ t[1] = f
               /\ Len(s) = 1 => t[2] = s[1]
  <1> DEFINE t == <<f>> \o s
  <1>1. /\ s \in Seq(Invocations) /\ Len(s) \in {0, 1}
    BY StackFacts
  <1>2. <<f>> \in Seq(Invocations) /\ Len(<<f>>) = 1 /\ <<f>>[1] = f
    OBVIOUS
  <1>3. /\ t \in Seq(Invocations) /\ Len(t) = 1 + Len(s)
        /\ \A i \in 1 .. 1 + Len(s) : t[i] = IF i <= 1 THEN <<f>>[i] ELSE s[i - 1]
    BY <1>1, <1>2, ConcatProperties
  <1> HIDE DEF t
  <1>4. Len(t) = Len(s) + 1 /\ t[1] = f
    BY <1>1, <1>2, <1>3
  <1>5. Len(s) = 1 => t[2] = s[1]
    BY <1>1, <1>3
  <1> QED BY <1>3, <1>4, <1>5 DEF t

LEMMA PopShape ==
    ASSUME NEW s \in Stacks, s # <<>>
    PROVE  /\ Tail(s) \in Seq(Invocations) /\ Len(Tail(s)) = Len(s) - 1
           /\ Len(s) = 2 => Tail(s)[1] = s[2]
  <1>1. /\ s \in Seq(Invocations) /\ Len(s) \in {1, 2}
    BY StackFacts
  <1>2. /\ Tail(s) \in Seq(Invocations) /\ Len(Tail(s)) = Len(s) - 1
        /\ \A i \in 1 .. Len(Tail(s)) : Tail(s)[i] = s[i + 1]
    BY <1>1, HeadTailProperties
  <1> QED BY <1>1, <1>2

LEMMA PutCount ==
    ASSUME ShapeInv, NEW w \in Workers, NEW f \in Invocations, stack[w] # <<>>, Put(w, f),
           Len(stack[w]) = 2 => f.task = "chunk"
    PROVE  /\ stack' \in [Workers -> Stacks]
           /\ \A P : Count(P)' = Count(P) + One(f \in P) - One(Top(w) \in P)
           /\ \A P : Count(P) \in Nat
  <1> USE DEF ShapeInv
  <1>1. stack[w] \in Stacks /\ stack' = [stack EXCEPT ![w] = <<f>> \o Tail(stack[w])]
    BY DEF Put
  <1>2. /\ stack'[w] = <<f>> \o Tail(stack[w]) /\ \A v \in Workers \ {w} : stack'[v] = stack[v]
    BY <1>1
  <1>3. /\ stack'[w] \in Seq(Invocations) /\ Len(stack'[w]) = Len(stack[w]) /\ stack'[w][1] = f
        /\ Len(stack[w]) = 2 => stack'[w][2] = stack[w][2]
    BY <1>1, <1>2, PutShape
  <1>4. Len(stack[w]) \in {1, 2} /\ (Len(stack[w]) = 2 => stack[w][2].at = "join")
    BY <1>1, StackFacts
  <1>5. stack'[w] \in Stacks
    BY <1>3, <1>4 DEF Stacks
  <1>6. stack' \in [Workers -> Stacks]
    BY <1>1, <1>2, <1>5
  <1>7. ASSUME NEW P
        PROVE  Count(P)' = Count(P) + One(f \in P) - One(Top(w) \in P) /\ Count(P) \in Nat
    <2>1. /\ OnLevel(stack, w, 1, P) = One(Top(w) \in P)
          /\ OnLevel(stack', w, 1, P) = One(f \in P)
      BY <1>3, <1>4 DEF OnLevel, Top
    <2>2. OnLevel(stack', w, 2, P) = OnLevel(stack, w, 2, P)
      BY <1>3, <1>4 DEF OnLevel
    <2>3. OnLevel(stack, w, 2, P) \in Nat /\ One(f \in P) \in Nat /\ One(Top(w) \in P) \in Nat
      BY DEF OnLevel, One
    <2>4. Elsewhere(stack', w, P) = Elsewhere(stack, w, P)
      BY <1>2, SameElsewhere
    <2>5. Cardinality(In(stack, P)) = Cardinality(Elsewhere(stack, w, P))
                                        + OnLevel(stack, w, 1, P) + OnLevel(stack, w, 2, P)
      BY CountLevels
    <2>6. Cardinality(In(stack', P)) = Cardinality(Elsewhere(stack', w, P))
                                        + OnLevel(stack', w, 1, P) + OnLevel(stack', w, 2, P)
      BY CountLevels
    <2>7. Cardinality(Elsewhere(stack, w, P)) \in Nat
      BY CountLevels
    <2>8. Cardinality(In(stack', P)) = Cardinality(In(stack, P)) + One(f \in P) - One(Top(w) \in P)
      BY <2>1, <2>2, <2>3, <2>4, <2>5, <2>6, <2>7
    <2>9. Cardinality(In(stack, P)) \in Nat
      BY InFinite
    <2> QED BY <2>8, <2>9 DEF Count, In
  <1> QED BY <1>6, <1>7

Pushed(w, f) == stack' = [stack EXCEPT ![w] = <<f>> \o @]

LEMMA PushCount ==
    ASSUME ShapeInv, NEW w \in Workers, NEW f \in Invocations, Pushed(w, f),
           stack[w] = <<>> \/ (Top(w).at = "join" /\ f.task = "chunk")
    PROVE  /\ stack' \in [Workers -> Stacks]
           /\ \A P : Count(P)' = Count(P) + One(f \in P)
           /\ \A P : Count(P) \in Nat
  <1> USE DEF ShapeInv
  <1>1. stack[w] \in Stacks /\ stack' = [stack EXCEPT ![w] = <<f>> \o stack[w]]
    BY DEF Pushed
  <1>2. /\ stack'[w] = <<f>> \o stack[w] /\ \A v \in Workers \ {w} : stack'[v] = stack[v]
    BY <1>1
  <1>3. /\ Len(stack[w]) \in {0, 1} /\ (Len(stack[w]) = 0 <=> stack[w] = <<>>)
        /\ Len(stack[w]) = 1 => stack[w][1].at = "join" /\ f.task = "chunk"
    <2>1. Len(stack[w]) # 2
      <3>1. Len(stack[w]) = 2 => stack[w][1].task = "chunk" /\ stack[w][1] \in Invocations
        BY <1>1, StackFacts
      <3>2. \A r \in Invocations : r.task = "chunk" => r.at # "join"
        BY DEF Invocations, Nodes
      <3>3. Len(stack[w]) = 2 => stack[w] # <<>>
        BY <1>1, StackFacts
      <3> QED BY <3>1, <3>2, <3>3 DEF Top
    <2> QED BY <1>1, <2>1, StackFacts DEF Top
  <1>4. /\ stack'[w] \in Seq(Invocations) /\ Len(stack'[w]) = Len(stack[w]) + 1 /\ stack'[w][1] = f
        /\ Len(stack[w]) = 1 => stack'[w][2] = stack[w][1]
    BY <1>1, <1>2, <1>3, PushShape
  <1>5. stack'[w] \in Stacks
    <2>1. Len(stack'[w]) <= 2 /\ (Len(stack'[w]) = 2 => Len(stack[w]) = 1)
      BY <1>3, <1>4, OneMore, Zenon
    <2> QED BY <1>3, <1>4, <2>1 DEF Stacks
  <1>6. stack' \in [Workers -> Stacks]
    BY <1>1, <1>2, <1>5
  <1>7. ASSUME NEW P
        PROVE  Count(P)' = Count(P) + One(f \in P) /\ Count(P) \in Nat
    <2>1. /\ OnLevel(stack, w, 2, P) = 0
          /\ OnLevel(stack', w, 1, P) = One(f \in P)
      BY <1>3, <1>4 DEF OnLevel, One
    <2>2. OnLevel(stack', w, 2, P) = OnLevel(stack, w, 1, P)
      BY <1>3, <1>4 DEF OnLevel
    <2>3. OnLevel(stack, w, 1, P) \in Nat /\ One(f \in P) \in Nat
      BY DEF OnLevel, One
    <2>4. Elsewhere(stack', w, P) = Elsewhere(stack, w, P)
      BY <1>2, SameElsewhere
    <2>5. Cardinality(In(stack, P)) = Cardinality(Elsewhere(stack, w, P))
                                        + OnLevel(stack, w, 1, P) + OnLevel(stack, w, 2, P)
      BY CountLevels
    <2>6. Cardinality(In(stack', P)) = Cardinality(Elsewhere(stack', w, P))
                                        + OnLevel(stack', w, 1, P) + OnLevel(stack', w, 2, P)
      BY CountLevels
    <2>7. Cardinality(Elsewhere(stack, w, P)) \in Nat
      BY CountLevels
    <2>8. Cardinality(In(stack', P)) = Cardinality(In(stack, P)) + One(f \in P)
      BY <2>1, <2>2, <2>3, <2>4, <2>5, <2>6, <2>7
    <2>9. Cardinality(In(stack, P)) \in Nat
      BY InFinite
    <2> QED BY <2>8, <2>9 DEF Count, In
  <1> QED BY <1>6, <1>7

LEMMA PopCount ==
    ASSUME ShapeInv, NEW w \in Workers, stack[w] # <<>>, Pop(w)
    PROVE  /\ stack' \in [Workers -> Stacks]
           /\ \A P : Count(P)' = Count(P) - One(Top(w) \in P)
           /\ \A P : Count(P) \in Nat
  <1> USE DEF ShapeInv
  <1>1. stack[w] \in Stacks /\ stack' = [stack EXCEPT ![w] = Tail(stack[w])]
    BY DEF Pop
  <1>2. /\ stack'[w] = Tail(stack[w]) /\ \A v \in Workers \ {w} : stack'[v] = stack[v]
    BY <1>1
  <1>3. /\ stack'[w] \in Seq(Invocations) /\ Len(stack'[w]) = Len(stack[w]) - 1
        /\ Len(stack[w]) = 2 => stack'[w][1] = stack[w][2]
    BY <1>1, <1>2, PopShape
  <1>4. Len(stack[w]) \in {1, 2}
    BY <1>1, StackFacts
  <1>5. stack'[w] \in Stacks
    BY <1>3, <1>4 DEF Stacks
  <1>6. stack' \in [Workers -> Stacks]
    BY <1>1, <1>2, <1>5
  <1>7. ASSUME NEW P
        PROVE  Count(P)' = Count(P) - One(Top(w) \in P) /\ Count(P) \in Nat
    <2>1. /\ OnLevel(stack, w, 1, P) = One(Top(w) \in P)
          /\ OnLevel(stack', w, 2, P) = 0
      <3>1. 1 <= Len(stack[w]) /\ ~ (2 <= Len(stack'[w]))
        BY <1>3, <1>4, OneLess, Zenon
      <3> QED BY <3>1 DEF OnLevel, Top, One
    <2>2. OnLevel(stack', w, 1, P) = OnLevel(stack, w, 2, P)
      BY <1>3, <1>4 DEF OnLevel
    <2>3. OnLevel(stack, w, 2, P) \in Nat /\ One(Top(w) \in P) \in Nat
      BY DEF OnLevel, One
    <2>4. Elsewhere(stack', w, P) = Elsewhere(stack, w, P)
      BY <1>2, SameElsewhere
    <2>5. Cardinality(In(stack, P)) = Cardinality(Elsewhere(stack, w, P))
                                        + OnLevel(stack, w, 1, P) + OnLevel(stack, w, 2, P)
      BY CountLevels
    <2>6. Cardinality(In(stack', P)) = Cardinality(Elsewhere(stack', w, P))
                                        + OnLevel(stack', w, 1, P) + OnLevel(stack', w, 2, P)
      BY CountLevels
    <2>7. Cardinality(Elsewhere(stack, w, P)) \in Nat
      BY CountLevels
    <2>8. Cardinality(In(stack', P)) = Cardinality(In(stack, P)) - One(Top(w) \in P)
      BY <2>1, <2>2, <2>3, <2>4, <2>5, <2>6, <2>7
    <2>9. Cardinality(In(stack, P)) \in Nat
      BY InFinite
    <2> QED BY <2>8, <2>9 DEF Count, In
  <1> QED BY <1>6, <1>7

-----------------------------------------------------------------------------
LEMMA NodesFinite == IsFiniteSet(Nodes)
  <1>1. Nodes = {"init"} \cup {"clean_up"} \cup {"compute_centroids"} \cup {"update_clusters"}
                  \cup {"iterate_while"}
    BY DEF Nodes
  <1>2. \A x : IsFiniteSet({x})
    BY FS_Singleton
  <1> QED BY <1>1, <1>2, FS_Union

(* What the invariant says of the counts, and of a worker that has a frame. *)
LEMMA Counts ==
    ASSUME ShapeInv
    PROVE  /\ \A P : Count(P) \in Nat
           /\ \A P, Q : P \subseteq Q => Count(P) <= Count(Q)
           /\ \A w \in Workers : \A P : stack[w] # <<>> /\ Top(w) \in P => Count(P) > 0
           /\ \A P : Count(P) > 0 => pc = "wait"
           /\ (\A w \in Workers : stack[w] = <<>>) => \A P : Count(P) = 0
           /\ IsFiniteSet(ready) /\ Cardinality(ready) \in Nat
           /\ Cardinality(ready) = 0 <=> ready = {}
  <1>1. \A P : Count(P) \in Nat
    BY InFinite DEF Count
  <1>2. ASSUME NEW P, NEW Q, P \subseteq Q PROVE Count(P) <= Count(Q)
    <2>1. In(stack, P) \in SUBSET In(stack, Q)
      BY <1>2 DEF In
    <2> QED BY <2>1, InFinite, FS_Subset DEF Count
  <1>3. ASSUME NEW w \in Workers, NEW P, stack[w] # <<>>, Top(w) \in P PROVE Count(P) > 0
    <2>1. Len(stack[w]) \in {1, 2}
      BY <1>3, StackFacts DEF ShapeInv
    <2>2. <<w, 1>> \in In(stack, P)
      BY <1>3, <2>1 DEF In, Top
    <2>3. Count(P) # 0
      BY <2>2, InFinite, FS_EmptySet DEF Count
    <2> QED BY <1>1, <2>3
  <1>4. ASSUME \A w \in Workers : stack[w] = <<>>, NEW P PROVE Count(P) = 0
    <2>1. \A w \in Workers : ~ (1 <= Len(stack[w])) /\ ~ (2 <= Len(stack[w]))
      BY <1>4
    <2>2. \A f \in Workers \X (1 .. 2) : f[1] \in Workers /\ (f[2] = 1 \/ f[2] = 2)
      OBVIOUS
    <2>3. In(stack, P) = {}
      BY <2>1, <2>2 DEF In
    <2> QED BY <2>3, FS_EmptySet DEF Count
  <1>5. \A P : Count(P) > 0 => pc = "wait"
    BY <1>1, <1>4 DEF ShapeInv
  <1>6. IsFiniteSet(ready) /\ Cardinality(ready) \in Nat
    BY NodesFinite, FS_Subset, FS_CardinalityType DEF ShapeInv
  <1>7. Cardinality(ready) = 0 <=> ready = {}
    BY <1>6, FS_EmptySet
  <1> QED BY <1>1, <1>2, <1>3, <1>4, <1>5, <1>6, <1>7

LEMMA TopFacts ==
    ASSUME ShapeInv, NEW w \in Workers, stack[w] # <<>>
    PROVE  /\ Top(w) \in Invocations /\ pc = "wait"
           /\ Top(w).task \in Nodes => Len(stack[w]) = 1
           /\ Len(stack[w]) = 2 => Top(w).task = "chunk"
  <1>1. stack[w] \in Stacks /\ pc = "wait"
    BY DEF ShapeInv
  <1>2. /\ Len(stack[w]) \in {1, 2} /\ Top(w) \in Invocations
        /\ Len(stack[w]) = 2 => Top(w).task = "chunk"
    <2>1. Len(stack[w]) \in {1, 2}
      BY <1>1, StackFacts
    <2>2. 1 \in 1 .. Len(stack[w])
      BY <2>1
    <2> QED BY <1>1, <2>1, <2>2, StackFacts DEF Top
  <1>3. "chunk" \notin Nodes
    BY DEF Nodes
  <1> QED BY <1>1, <1>2, <1>3

(* Whoever has the graph's turn has it alone. *)
LEMMA Alone ==
    ASSUME ShapeInv, TurnInv, NEW w \in Workers, stack[w] # <<>>, Top(w) \in Running
    PROVE  /\ ready = {} /\ Cardinality(ready) = 0 /\ Count(Running) = 1
           /\ \A P : P \subseteq Running /\ Top(w) \notin P => Count(P) = 0
  <1>1. Count(Running) > 0 /\ Count(Running) \in Nat /\ Cardinality(ready) \in Nat
    BY Counts
  <1>2. Cardinality(ready) = 0 /\ Count(Running) = 1
    BY <1>1 DEF TurnInv
  <1>3. ASSUME NEW P, P \subseteq Running, Top(w) \notin P PROVE Count(P) = 0
    <2>1. 1 <= Len(stack[w])
      <3>1. Len(stack[w]) \in {1, 2}
        BY StackFacts DEF ShapeInv
      <3> QED BY <3>1
    <2>2. <<w, 1>> \in In(stack, Running) /\ <<w, 1>> \notin In(stack, P)
      BY <1>3, <2>1 DEF In, Top
    <2>3. In(stack, P) \in SUBSET (In(stack, Running) \ {<<w, 1>>})
      BY <1>3, <2>2 DEF In
    <2>4. /\ IsFiniteSet(In(stack, Running) \ {<<w, 1>>})
          /\ Cardinality(In(stack, Running) \ {<<w, 1>>}) = 0
      BY <1>2, <2>2, InFinite, FS_RemoveElement DEF Count
    <2>5. Cardinality(In(stack, P)) <= 0
      BY <2>3, <2>4, FS_Subset
    <2> QED BY <2>5, InFinite DEF Count
  <1> QED BY <1>2, <1>3, Counts

LEMMA Part ==
    /\ Sharing \subseteq Running /\ Settled \subseteq Running /\ Pushing \subseteq Running
    /\ Running \subseteq Holding /\ Sharing \subseteq Settled
    /\ RowTasks \cap Holding = {} /\ Notifying \cap Holding = {}
  BY DEF Sharing, Settled, Pushing, Running, Holding, RowTasks, Notifying, Invocations, Nodes

(* Steps that leave the counters, the queues and the turn alone. *)
Quiet(w, f) ==
    /\ f \in Invocations /\ stack[w] # <<>> /\ Put(w, f) /\ f.task = Top(w).task
    /\ UNCHANGED <<num_of_threads, pc, ready, ready_chunks, join_counter, topology_counter,
                   num_topologies>>
    /\ next' \in 0 .. N
    /\ f \in Running <=> Top(w) \in Running
    /\ f \in Pushing <=> Top(w) \in Pushing
    /\ f \in Holding <=> Top(w) \in Holding
    /\ f \in Notifying <=> Top(w) \in Notifying
    /\ Top(w) \in Sharing => f \in Sharing
    /\ f \in Settled => Top(w) \in Settled

LEMMA StepQuiet == ASSUME IInv, NEW w \in Workers, NEW f, Quiet(w, f) PROVE IInv'
  <1> USE DEF IInv, Quiet
  <1>1. /\ stack' \in [Workers -> Stacks] /\ pc = "wait"
        /\ \A P : Count(P)' = Count(P) + One(f \in P) - One(Top(w) \in P)
        /\ \A P : Count(P) \in Nat
    BY TopFacts, PutCount
  <1>2. /\ Count(Running)' = Count(Running) /\ Count(Pushing)' = Count(Pushing)
        /\ Count(Holding)' = Count(Holding) /\ Count(Notifying)' = Count(Notifying)
    <2>1. \A P : (f \in P <=> Top(w) \in P) => Count(P)' = Count(P)
      BY <1>1 DEF One
    <2> QED BY <2>1
  <1>3. Count(RowTasks)' = Count(RowTasks)
    <2>1. f \in RowTasks <=> Top(w) \in RowTasks
      BY TopFacts DEF RowTasks
    <2> QED BY <1>1, <2>1 DEF One
  <1>4. Count(Sharing)' >= Count(Sharing) /\ Count(Settled)' <= Count(Settled)
    <2>1. \A P : (Top(w) \in P => f \in P) => Count(P)' >= Count(P)
      BY <1>1 DEF One
    <2>2. \A P : (f \in P => Top(w) \in P) => Count(P)' <= Count(P)
      BY <1>1 DEF One
    <2> QED BY <2>1, <2>2
  <1>5. ShapeInv'
    BY <1>1 DEF ShapeInv
  <1>6. TurnInv'
    BY <1>2 DEF TurnInv
  <1>7. RowTaskInv'
    <2>1. \A P : Count(P) \in Nat /\ Count(P)' \in Nat
      <3>1. ShapeInv' => \A P : Count(P)' \in Nat
        BY InFinite DEF Count, In
      <3> QED BY <1>1, <1>5, <3>1
    <2>2. ready_chunks + Count(RowTasks) > 0 => Count(Sharing)' > 0
      BY <1>4, <2>1 DEF RowTaskInv
    <2>3. Count(Settled)' > 0 => Count(Settled) > 0
      BY <1>4, <2>1
    <2> QED BY <1>3, <2>2, <2>3 DEF RowTaskInv
  <1>8. TopologyInv'
    BY <1>2 DEF TopologyInv
  <1> QED BY <1>5, <1>6, <1>7, <1>8

-----------------------------------------------------------------------------
(* The bodies, up to the recovery. *)
Still == UNCHANGED <<caller, counters, num_topologies, queues>>

LEMMA StillFacts ==
    ASSUME Still
    PROVE  UNCHANGED <<num_of_threads, pc, ready, ready_chunks, join_counter, topology_counter,
                       num_topologies>>
  BY DEF Still, caller, counters, queues

LEMMA StepBody ==
    ASSUME IInv, NEW w \in Workers, NEW n \in {"init", "clean_up", "update_clusters", "iterate_while"},
           At(w, n, "body"), NEW b \in BOOLEAN,
           Put(w, [Top(w) EXCEPT !.at = "recover", !.released = b]), Still, UNCHANGED next
    PROVE  IInv'
  <1> DEFINE f == [Top(w) EXCEPT !.at = "recover", !.released = b]
  <1>1. Top(w) \in Invocations /\ Top(w).task = n /\ Top(w).at = "body" /\ stack[w] # <<>>
    BY TopFacts DEF IInv, At
  <1>2. f \in FrameType /\ f.task = n /\ f.at = "recover"
    BY <1>1 DEF Invocations, FrameType
  <1> HIDE DEF f
  <1>3. n \in Nodes
    BY DEF Nodes
  <1>4. f \in Invocations
    BY <1>2, <1>3 DEF Invocations
  <1>5. f \in Running /\ Top(w) \in Running
    BY <1>1, <1>2, <1>3, <1>4 DEF Running
  <1>6. f \in Holding /\ Top(w) \in Holding
    BY <1>1, <1>2, <1>3, <1>4 DEF Holding
  <1>7. /\ f \notin Pushing /\ Top(w) \notin Pushing /\ f \notin Notifying /\ Top(w) \notin Notifying
        /\ Top(w) \notin Sharing /\ f \notin Settled
    BY <1>1, <1>2 DEF Pushing, Notifying, Sharing, Settled
  <1>8. next' \in 0 .. N
    BY DEF IInv, ShapeInv
  <1>9. Quiet(w, f)
    BY <1>1, <1>2, <1>4, <1>5, <1>6, <1>7, <1>8, StillFacts DEF Quiet, f
  <1> QED BY <1>9, StepQuiet

LEMMA StepBodies ==
    ASSUME IInv, NEW w \in Workers,
           InitBody(w) \/ CleanUpBody(w) \/ UpdateBody(w) \/ IterateBody(w)
    PROVE  IInv'
  <1>1. /\ UNCHANGED next /\ Still
        /\ \E n \in {"init", "clean_up", "update_clusters", "iterate_while"} : At(w, n, "body")
    BY DEF InitBody, CleanUpBody, UpdateBody, IterateBody, Still
  <1>2. PICK n \in {"init", "clean_up", "update_clusters", "iterate_while"} : At(w, n, "body")
    BY <1>1
  <1>3. Top(w) \in Invocations
    BY <1>2, TopFacts DEF IInv, At
  <1>4. \E b \in BOOLEAN : Put(w, [Top(w) EXCEPT !.at = "recover", !.released = b])
    <2>1. ASSUME GoTo(w, "recover")
          PROVE  \E b \in BOOLEAN : Put(w, [Top(w) EXCEPT !.at = "recover", !.released = b])
      <3>1. [Top(w) EXCEPT !.at = "recover"]
               = [Top(w) EXCEPT !.at = "recover", !.released = Top(w).released]
        BY <1>3 DEF Invocations, FrameType
      <3>2. Top(w).released \in BOOLEAN
        BY <1>3 DEF Invocations, FrameType
      <3> QED BY <2>1, <3>1, <3>2 DEF GoTo
    <2>2. ASSUME IterateBody(w)
          PROVE  \E b \in BOOLEAN : Put(w, [Top(w) EXCEPT !.at = "recover", !.released = b])
      <3>1. (m < M) \in BOOLEAN
        OBVIOUS
      <3> QED BY <2>2, <3>1 DEF IterateBody
    <2> QED BY <2>1, <2>2 DEF InitBody, CleanUpBody, UpdateBody
  <1> QED BY <1>1, <1>2, <1>4, StepBody

LEMMA StepCompute == ASSUME IInv, NEW w \in Workers, ComputeBody(w) PROVE IInv'
  <1> DEFINE tasks == IF N < num_of_threads THEN N ELSE num_of_threads
  <1>1. Top(w) \in Invocations /\ Top(w).task = "compute_centroids" /\ Top(w).at = "body"
        /\ stack[w] # <<>>
    BY TopFacts DEF IInv, ComputeBody, At
  <1>2. tasks \in Nat /\ N \in Nat /\ "compute_centroids" \in Nodes
    BY LloydAssumption, TaskflowAssumption DEF IInv, ShapeInv, Workers, Nodes
  <1>3. PICK f : /\ f \in {[Top(w) EXCEPT !.at = "inline", !.end = N],
                           [Top(w) EXCEPT !.at = "spawn", !.end = tasks]}
                 /\ Put(w, f) /\ next' \in 0 .. N
    BY <1>2 DEF ComputeBody
  <1> HIDE DEF tasks
  <1>4. f \in FrameType /\ f.task = "compute_centroids" /\ f.at \in {"inline", "spawn"}
    <2>1. CASE f = [Top(w) EXCEPT !.at = "inline", !.end = N]
      BY <1>1, <1>2, <2>1 DEF Invocations, FrameType
    <2>2. CASE f = [Top(w) EXCEPT !.at = "spawn", !.end = tasks]
      BY <1>1, <1>2, <2>2 DEF Invocations, FrameType
    <2> QED BY <1>3, <2>1, <2>2
  <1>5. f \in Invocations
    BY <1>4 DEF Invocations
  <1>6. f \in Running /\ Top(w) \in Running /\ f \in Holding /\ Top(w) \in Holding
    BY <1>1, <1>2, <1>4, <1>5 DEF Running, Holding
  <1>7. /\ f \notin Pushing /\ Top(w) \notin Pushing /\ f \notin Notifying /\ Top(w) \notin Notifying
        /\ Top(w) \notin Sharing /\ Top(w) \in Settled
    BY <1>1, <1>4 DEF Pushing, Notifying, Sharing, Settled
  <1>8. Still
    BY DEF ComputeBody, Still
  <1>9. Quiet(w, f)
    BY <1>1, <1>3, <1>4, <1>5, <1>6, <1>7, <1>8, StillFacts DEF Quiet
  <1> QED BY <1>9, StepQuiet

LEMMA StepSpawnDone == ASSUME IInv, NEW w \in Workers, SpawnDone(w) PROVE IInv'
  <1> DEFINE f == [Top(w) EXCEPT !.at = "join"]
  <1>1. Top(w) \in Invocations /\ Top(w).task = "compute_centroids" /\ Top(w).at = "spawn"
        /\ stack[w] # <<>>
    BY TopFacts DEF IInv, SpawnDone, At
  <1>2. f \in FrameType /\ f.task = "compute_centroids" /\ f.at = "join"
    BY <1>1 DEF Invocations, FrameType
  <1> HIDE DEF f
  <1>3. "compute_centroids" \in Nodes /\ f \in Invocations
    BY <1>2 DEF Invocations, Nodes
  <1>4. /\ f \in Running /\ Top(w) \in Running /\ f \in Holding /\ Top(w) \in Holding
        /\ f \in Sharing /\ Top(w) \in Settled
    BY <1>1, <1>2, <1>3 DEF Running, Holding, Sharing, Settled
  <1>5. /\ f \notin Pushing /\ Top(w) \notin Pushing /\ f \notin Notifying /\ Top(w) \notin Notifying
    BY <1>1, <1>2 DEF Pushing, Notifying
  <1>6. Still /\ next' \in 0 .. N /\ Put(w, f)
    BY DEF SpawnDone, Still, IInv, ShapeInv, GoTo, f
  <1>7. Quiet(w, f)
    BY <1>1, <1>2, <1>3, <1>4, <1>5, <1>6, StillFacts DEF Quiet
  <1> QED BY <1>7, StepQuiet

(* The rows, by a row task or inline. *)
LEMMA StepRows ==
    ASSUME IInv, NEW w \in Workers,
           ClaimChunk(w) \/ NothingLeft(w) \/ LabelRow(w) \/ RowsDone(w)
    PROVE  IInv'
  <1>1. Top(w) \in Invocations /\ stack[w] # <<>> /\ N \in Nat /\ next \in 0 .. N
    BY TopFacts, LloydAssumption
       DEF IInv, ShapeInv, ClaimChunk, NothingLeft, LabelRow, RowsDone, InRows, At
  <1>2. "compute_centroids" \in Nodes /\ "chunk" \notin Nodes
    BY DEF Nodes
  <1>3. ASSUME NEW f \in FrameType, Put(w, f), next' \in 0 .. N, Still,
               \/ /\ f.task = "chunk" /\ f.at \in {"claim", "rows", "tear_down"}
                  /\ Top(w).task = "chunk"
               \/ /\ f.task = "compute_centroids" /\ f.at \in {"inline", "recover"}
                  /\ Top(w).task = "compute_centroids" /\ Top(w).at = "inline"
        PROVE  IInv'
    <2>1. f \in Invocations /\ f.task = Top(w).task
      BY <1>2, <1>3 DEF Invocations
    <2>2. (f \in Running <=> Top(w) \in Running) /\ (f \in Holding <=> Top(w) \in Holding)
      BY <1>1, <1>2, <1>3, <2>1 DEF Running, Holding
    <2>3. /\ f \notin Pushing /\ Top(w) \notin Pushing /\ f \notin Notifying /\ Top(w) \notin Notifying
          /\ Top(w) \notin Sharing /\ f \notin Settled
      BY <1>1, <1>2, <1>3, <2>1 DEF Pushing, Notifying, Sharing, Settled, Invocations
    <2>4. Quiet(w, f)
      BY <1>1, <1>3, <2>1, <2>2, <2>3, StillFacts DEF Quiet
    <2> QED BY <2>4, StepQuiet
  <1>4. CASE ClaimChunk(w)
    <2>1. /\ Top(w).task = "chunk" /\ Still
          /\ \E end \in next + 1 .. N :
                next' = end /\ Put(w, [Top(w) EXCEPT !.at = "rows", !.loop = next, !.end = end])
      BY <1>4 DEF ClaimChunk, At, Still
    <2>2. PICK end \in next + 1 .. N :
                next' = end /\ Put(w, [Top(w) EXCEPT !.at = "rows", !.loop = next, !.end = end])
      BY <2>1
    <2> DEFINE f == [Top(w) EXCEPT !.at = "rows", !.loop = next, !.end = end]
    <2>5. next \in Nat /\ end \in Nat /\ next' \in 0 .. N
      BY <1>1, <2>2
    <2>6. Top(w) \in FrameType
      BY <1>1 DEF Invocations
    <2>3. f \in FrameType /\ f.task = "chunk" /\ f.at = "rows"
      BY <2>1, <2>5, <2>6 DEF FrameType
    <2>4. Put(w, f)
      BY <2>2
    <2> HIDE DEF f
    <2> QED BY <1>3, <2>1, <2>3, <2>4, <2>5
  <1>5. CASE NothingLeft(w)
    <2> DEFINE f == [Top(w) EXCEPT !.at = "tear_down"]
    <2>1. Top(w).task = "chunk" /\ Still /\ next' = next /\ Put(w, f)
      BY <1>5 DEF NothingLeft, At, Still, GoTo
    <2>2. f \in FrameType /\ f.task = "chunk" /\ f.at = "tear_down"
      BY <1>1, <2>1 DEF Invocations, FrameType
    <2> HIDE DEF f
    <2> QED BY <1>1, <1>3, <2>1, <2>2
  <1>6. CASE LabelRow(w)
    <2> DEFINE f == [Top(w) EXCEPT !.loop = @ + 1]
    <2>1. Still /\ next' = next /\ Put(w, f) /\ InRows(w)
      BY <1>6 DEF LabelRow, Still
    <2>2. f \in FrameType /\ f.task = Top(w).task /\ f.at = Top(w).at
      BY <1>1 DEF Invocations, FrameType
    <2> HIDE DEF f
    <2> QED BY <1>1, <1>3, <2>1, <2>2 DEF InRows, At
  <1>7. CASE RowsDone(w)
    <2> DEFINE a == IF Top(w).task = "chunk" THEN "claim" ELSE "recover"
               f == [Top(w) EXCEPT !.at = a]
    <2>1. Still /\ next' = next /\ GoTo(w, a) /\ InRows(w)
      BY <1>7 DEF RowsDone, Still
    <2>4. Put(w, f)
      BY <2>1 DEF GoTo
    <2>2. f \in FrameType /\ f.task = Top(w).task /\ f.at = a
      BY <1>1 DEF Invocations, FrameType
    <2>3. \/ Top(w).task = "chunk" /\ a = "claim"
          \/ Top(w).task = "compute_centroids" /\ Top(w).at = "inline" /\ a = "recover"
      BY <2>1 DEF InRows, At
    <2> HIDE DEF f, a
    <2> QED BY <1>1, <1>3, <2>1, <2>2, <2>3, <2>4
  <1> QED BY <1>4, <1>5, <1>6, <1>7

-----------------------------------------------------------------------------
LEMMA CounterKept ==
    ASSUME NEW c \in [Nodes -> Int]
    PROVE  /\ \A n \in Nodes : \A k \in Int : [c EXCEPT ![n] = k] \in [Nodes -> Int]
           /\ [c EXCEPT !["compute_centroids"] = @ + 1] \in [Nodes -> Int]
           /\ [c EXCEPT !["compute_centroids"] = @ - 1] \in [Nodes -> Int]
  <1>1. "compute_centroids" \in Nodes
    BY DEF Nodes
  <1> QED BY <1>1

(* The loop that spawns the row tasks, and their end. *)
LEMMA StepSpawnChunk == ASSUME IInv, NEW w \in Workers, SpawnChunk(w) PROVE IInv'
  <1> DEFINE f == [Top(w) EXCEPT !.loop = @ + 1]
  <1>1. /\ Top(w) \in Invocations /\ Top(w).task = "compute_centroids" /\ Top(w).at = "spawn"
        /\ stack[w] # <<>> /\ Len(stack[w]) = 1
    <2>1. "compute_centroids" \in Nodes
      BY DEF Nodes
    <2> QED BY <2>1, TopFacts DEF IInv, SpawnChunk, At
  <1>2. f \in FrameType /\ f.task = Top(w).task /\ f.at = Top(w).at
    BY <1>1 DEF Invocations, FrameType
  <1>3. Put(w, f)
    BY DEF SpawnChunk
  <1> HIDE DEF f
  <1>4. f \in Invocations
    BY <1>1, <1>2 DEF Invocations
  <1>5. /\ stack' \in [Workers -> Stacks]
        /\ \A P : Count(P)' = Count(P) + One(f \in P) - One(Top(w) \in P)
        /\ \A P : Count(P) \in Nat
    BY <1>1, <1>3, <1>4, PutCount DEF IInv
  <1>6. \A P \in {Running, Sharing, Settled, RowTasks, Holding, Pushing, Notifying} :
           Count(P)' = Count(P)
    <2>1. \A P : (f \in P <=> Top(w) \in P) => Count(P)' = Count(P)
      BY <1>5 DEF One
    <2>2. /\ f \in Running <=> Top(w) \in Running
          /\ f \in Sharing <=> Top(w) \in Sharing
          /\ f \in Settled <=> Top(w) \in Settled
          /\ f \in RowTasks <=> Top(w) \in RowTasks
          /\ f \in Holding <=> Top(w) \in Holding
          /\ f \in Pushing <=> Top(w) \in Pushing
          /\ f \in Notifying <=> Top(w) \in Notifying
      BY <1>1, <1>2, <1>4 DEF Running, Sharing, Settled, RowTasks, Holding, Pushing, Notifying
    <2> QED BY <2>1, <2>2
  <1>7. Count(Sharing) > 0 /\ Count(Settled) > 0
    <2>1. Top(w) \in Sharing /\ Top(w) \in Settled
      BY <1>1 DEF Sharing, Settled
    <2> QED BY <1>1, <2>1, Counts DEF IInv
  <1>8. /\ ready_chunks' = ready_chunks + 1
        /\ join_counter' = [join_counter EXCEPT !["compute_centroids"] = @ + 1]
        /\ UNCHANGED <<num_of_threads, pc, next, topology_counter, num_topologies, ready>>
    BY DEF SpawnChunk, caller
  <1>9. ShapeInv'
    <2>1. pc = "wait"
      BY <1>1, TopFacts DEF IInv
    <2>2. join_counter' \in [Nodes -> Int]
      BY <1>8, CounterKept DEF IInv, ShapeInv
    <2>3. ready_chunks' \in Nat
      BY <1>8 DEF IInv, ShapeInv
    <2> QED BY <1>5, <1>8, <2>1, <2>2, <2>3 DEF IInv, ShapeInv
  <1>10. TurnInv'
    BY <1>6, <1>8 DEF IInv, TurnInv
  <1>11. RowTaskInv'
    <2>1. join_counter'["compute_centroids"] = join_counter["compute_centroids"] + 1
      BY <1>8 DEF IInv, ShapeInv, Nodes
    <2>2. ready_chunks \in Nat /\ Count(RowTasks) \in Nat
      BY <1>5 DEF IInv, ShapeInv
    <2>3. join_counter["compute_centroids"] = ready_chunks + Count(RowTasks)
      BY <1>7 DEF IInv, RowTaskInv
    <2>4. join_counter'["compute_centroids"] = ready_chunks' + Count(RowTasks)'
      BY <1>6, <1>8, <2>1, <2>2, <2>3
    <2>5. Count(Sharing)' > 0
      BY <1>6, <1>7
    <2> QED BY <2>4, <2>5 DEF RowTaskInv
  <1>12. TopologyInv'
    BY <1>6, <1>8 DEF IInv, TopologyInv
  <1> QED BY <1>9, <1>10, <1>11, <1>12 DEF IInv

LEMMA StepJoined == ASSUME IInv, NEW w \in Workers, Joined(w) PROVE IInv'
  <1> DEFINE f == [Top(w) EXCEPT !.at = "recover"]
  <1>1. /\ Top(w) \in Invocations /\ Top(w).task = "compute_centroids" /\ Top(w).at = "join"
        /\ stack[w] # <<>> /\ Len(stack[w]) = 1 /\ pc = "wait"
    <2>1. "compute_centroids" \in Nodes
      BY DEF Nodes
    <2> QED BY <2>1, TopFacts DEF IInv, Joined, At
  <1>2. f \in FrameType /\ f.task = Top(w).task /\ f.at = "recover"
    BY <1>1 DEF Invocations, FrameType
  <1>3. Put(w, f)
    BY DEF Joined, GoTo
  <1> HIDE DEF f
  <1>4. f \in Invocations /\ "compute_centroids" \in Nodes
    BY <1>1, <1>2 DEF Invocations, Nodes
  <1>5. /\ stack' \in [Workers -> Stacks]
        /\ \A P : Count(P)' = Count(P) + One(f \in P) - One(Top(w) \in P)
        /\ \A P : Count(P) \in Nat
    BY <1>1, <1>3, <1>4, PutCount DEF IInv
  <1>6. \A P \in {Running, RowTasks, Holding, Pushing, Notifying} : Count(P)' = Count(P)
    <2>1. \A P : (f \in P <=> Top(w) \in P) => Count(P)' = Count(P)
      BY <1>5 DEF One
    <2>2. /\ f \in Running <=> Top(w) \in Running
          /\ f \in RowTasks <=> Top(w) \in RowTasks
          /\ f \in Holding <=> Top(w) \in Holding
          /\ f \in Pushing <=> Top(w) \in Pushing
          /\ f \in Notifying <=> Top(w) \in Notifying
      BY <1>1, <1>2, <1>4 DEF Running, RowTasks, Holding, Pushing, Notifying
    <2> QED BY <2>1, <2>2
  <1>7. Top(w) \in Settled /\ f \notin Settled /\ Top(w) \in Running
    BY <1>1, <1>2, <1>4 DEF Settled, Running
  <1>8. ready = {} /\ Count(Settled)' = 0
    <2>1. ready = {} /\ Count(Running) = 1
      BY <1>1, <1>7, Alone DEF IInv
    <2>2. Count(Settled) <= Count(Running)
      BY Part, Counts DEF IInv
    <2>3. Count(Settled)' = Count(Settled) - 1
      BY <1>5, <1>7 DEF One
    <2>4. Count(Settled) > 0
      BY <1>1, <1>7, Counts DEF IInv
    <2> QED BY <1>5, <2>1, <2>2, <2>3, <2>4
  <1>9. ready_chunks = 0 /\ Count(RowTasks) = 0
    <2>1. Count(Settled) > 0 /\ Count(RowTasks) \in Nat /\ ready_chunks \in Nat
      BY <1>1, <1>7, Counts DEF IInv, ShapeInv
    <2>2. join_counter["compute_centroids"] = 0
      BY DEF Joined
    <2> QED BY <2>1, <2>2 DEF IInv, RowTaskInv
  <1>10. UNCHANGED <<num_of_threads, pc, next, ready, ready_chunks, join_counter,
                     topology_counter, num_topologies>>
    BY DEF Joined, caller, counters, queues
  <1>11. ShapeInv'
    BY <1>1, <1>5, <1>10 DEF IInv, ShapeInv
  <1>12. TurnInv'
    BY <1>6, <1>10 DEF IInv, TurnInv
  <1>13. RowTaskInv'
    <2>1. Count(RowTasks)' = 0
      BY <1>6, <1>9
    <2> QED BY <1>8, <1>9, <1>10, <2>1 DEF RowTaskInv
  <1>14. TopologyInv'
    BY <1>6, <1>10 DEF IInv, TopologyInv
  <1> QED BY <1>11, <1>12, <1>13, <1>14 DEF IInv

LEMMA StepChunkTearDown == ASSUME IInv, NEW w \in Workers, ChunkTearDown(w) PROVE IInv'
  <1>1. /\ Top(w) \in Invocations /\ Top(w).task = "chunk" /\ Top(w).at = "tear_down"
        /\ stack[w] # <<>> /\ pc = "wait" /\ Pop(w)
    BY TopFacts DEF IInv, ChunkTearDown, At
  <1>2. /\ stack' \in [Workers -> Stacks]
        /\ \A P : Count(P)' = Count(P) - One(Top(w) \in P)
        /\ \A P : Count(P) \in Nat
    BY <1>1, PopCount DEF IInv
  <1>3. \A P \in {Running, Sharing, Settled, Holding, Pushing, Notifying} : Count(P)' = Count(P)
    <2>1. \A P : Top(w) \notin P => Count(P)' = Count(P)
      BY <1>2 DEF One
    <2>2. /\ Top(w) \notin Running /\ Top(w) \notin Sharing /\ Top(w) \notin Settled
          /\ Top(w) \notin Holding /\ Top(w) \notin Pushing /\ Top(w) \notin Notifying
      BY <1>1 DEF Running, Sharing, Settled, Holding, Pushing, Notifying, Nodes
    <2> QED BY <2>1, <2>2
  <1>4. Count(RowTasks)' = Count(RowTasks) - 1 /\ Count(RowTasks) > 0
    <2>1. Top(w) \in RowTasks
      BY <1>1 DEF RowTasks
    <2> QED BY <1>1, <1>2, <2>1, Counts DEF One, IInv
  <1>5. /\ join_counter' = [join_counter EXCEPT !["compute_centroids"] = @ - 1]
        /\ UNCHANGED <<num_of_threads, pc, next, ready, ready_chunks, topology_counter,
                       num_topologies>>
    BY DEF ChunkTearDown, caller, queues
  <1>6. ShapeInv'
    <2>1. join_counter' \in [Nodes -> Int]
      BY <1>5, CounterKept DEF IInv, ShapeInv
    <2> QED BY <1>1, <1>2, <1>5, <2>1 DEF IInv, ShapeInv
  <1>7. TurnInv'
    BY <1>3, <1>5 DEF IInv, TurnInv
  <1>8. RowTaskInv'
    <2>1. join_counter'["compute_centroids"] = join_counter["compute_centroids"] - 1
      BY <1>5 DEF IInv, ShapeInv, Nodes
    <2>2. ready_chunks \in Nat /\ Count(RowTasks) \in Nat
      BY <1>2 DEF IInv, ShapeInv
    <2>3. Count(Sharing)' > 0
      BY <1>3, <1>4, <2>2 DEF IInv, RowTaskInv
    <2>4. "compute_centroids" \in ready \/ Count(Settled) > 0 =>
             join_counter'["compute_centroids"] = ready_chunks + Count(RowTasks)'
      BY <1>4, <2>1, <2>2 DEF IInv, RowTaskInv
    <2> QED BY <1>3, <1>5, <2>3, <2>4 DEF RowTaskInv
  <1>9. TopologyInv'
    BY <1>3, <1>5 DEF IInv, TopologyInv
  <1> QED BY <1>6, <1>7, <1>8, <1>9 DEF IInv

-----------------------------------------------------------------------------
(* The tail of an invocation. *)
LEMMA TailMove ==
    ASSUME IInv, NEW w \in Workers, NEW n \in Nodes, NEW a, At(w, n, a),
           NEW b \in {"release", "push", "tear_down", "notify"}, GoTo(w, b)
    PROVE  /\ Top(w) \in Invocations /\ Top(w).task = n /\ Top(w).at = a /\ n # "chunk"
           /\ stack[w] # <<>> /\ pc = "wait" /\ stack' \in [Workers -> Stacks]
           /\ \E f \in Invocations :
                 /\ f.task = n /\ f.at = b
                 /\ \A P : Count(P)' = Count(P) + One(f \in P) - One(Top(w) \in P)
           /\ \A P : Count(P) \in Nat
  <1> DEFINE f == [Top(w) EXCEPT !.at = b]
  <1>1. /\ Top(w) \in Invocations /\ Top(w).task = n /\ Top(w).at = a /\ n # "chunk"
        /\ stack[w] # <<>> /\ Len(stack[w]) = 1 /\ pc = "wait"
    BY TopFacts DEF IInv, At, Nodes
  <1>2. f \in FrameType /\ f.task = n /\ f.at = b
    BY <1>1 DEF Invocations, FrameType
  <1>3. Put(w, f)
    BY DEF GoTo
  <1> HIDE DEF f
  <1>4. f \in Invocations
    BY <1>1, <1>2 DEF Invocations
  <1>5. /\ stack' \in [Workers -> Stacks]
        /\ \A P : Count(P)' = Count(P) + One(f \in P) - One(Top(w) \in P)
        /\ \A P : Count(P) \in Nat
    BY <1>1, <1>3, <1>4, PutCount DEF IInv
  <1> QED BY <1>1, <1>2, <1>4, <1>5

(* Where no row task is left and none is wanted, the join counter is free. *)
LEMMA NoSharing ==
    ASSUME IInv, NEW w \in Workers, stack[w] # <<>>, Top(w) \in Running, Top(w) \notin Sharing
    PROVE  ready_chunks = 0 /\ Count(RowTasks) = 0 /\ ready = {}
  <1>1. Count(Sharing) = 0 /\ ready = {}
    BY Alone, Part DEF IInv
  <1>2. Count(RowTasks) \in Nat /\ ready_chunks \in Nat
    BY Counts DEF IInv, ShapeInv
  <1> QED BY <1>1, <1>2 DEF IInv, RowTaskInv

LEMMA StepRecover == ASSUME IInv, NEW w \in Workers, Recover(w) PROVE IInv'
  <1>1. PICK n \in Nodes :
           /\ At(w, n, "recover")
           /\ join_counter' = [join_counter EXCEPT ![n] = Cardinality(StrongDependents(n))]
    BY DEF Recover
  <1>2. /\ GoTo(w, "release")
        /\ UNCHANGED <<num_of_threads, pc, next, ready, ready_chunks, topology_counter,
                       num_topologies>>
    BY DEF Recover, caller, queues
  <1>3. /\ Top(w) \in Invocations /\ Top(w).task = n /\ Top(w).at = "recover" /\ n # "chunk"
        /\ stack[w] # <<>> /\ pc = "wait" /\ stack' \in [Workers -> Stacks]
        /\ \A P : Count(P) \in Nat
    BY <1>1, <1>2, TailMove
  <1>4. PICK f \in Invocations :
           /\ f.task = n /\ f.at = "release"
           /\ \A P : Count(P)' = Count(P) + One(f \in P) - One(Top(w) \in P)
    BY <1>1, <1>2, TailMove
  <1>5. \A P \in {Running, Sharing, Settled, RowTasks, Holding, Pushing, Notifying} :
           Count(P)' = Count(P)
    <2>1. \A P : (f \in P <=> Top(w) \in P) => Count(P)' = Count(P)
      BY <1>3, <1>4 DEF One
    <2>2. /\ f \in Running <=> Top(w) \in Running
          /\ f \in Sharing <=> Top(w) \in Sharing
          /\ f \in Settled <=> Top(w) \in Settled
          /\ f \in RowTasks <=> Top(w) \in RowTasks
          /\ f \in Holding <=> Top(w) \in Holding
          /\ f \in Pushing <=> Top(w) \in Pushing
          /\ f \in Notifying <=> Top(w) \in Notifying
      BY <1>3, <1>4 DEF Running, Sharing, Settled, RowTasks, Holding, Pushing, Notifying
    <2> QED BY <2>1, <2>2
  <1>6. Top(w) \in Running /\ Top(w) \notin Sharing /\ Top(w) \notin Settled
    BY <1>3 DEF Running, Sharing, Settled
  <1>7. ShapeInv'
    <2>1. Cardinality(StrongDependents(n)) \in Int
      <3>1. StrongDependents(n) \in SUBSET Nodes
        BY DEF StrongDependents
      <3>2. IsFiniteSet(Nodes)
        BY NodesFinite
      <3> QED BY <3>1, <3>2, FS_Subset, FS_CardinalityType
    <2>2. join_counter' \in [Nodes -> Int]
      BY <1>1, <2>1, CounterKept DEF IInv, ShapeInv
    <2> QED BY <1>2, <1>3, <2>2 DEF IInv, ShapeInv
  <1>8. TurnInv'
    BY <1>2, <1>5 DEF IInv, TurnInv
  <1>9. RowTaskInv'
    <2>1. ready_chunks = 0 /\ Count(RowTasks) = 0 /\ ready = {}
      BY <1>3, <1>6, NoSharing
    <2>2. Count(Settled) = 0
      BY <1>3, <1>6, Alone, Part DEF IInv
    <2> QED BY <1>2, <1>5, <2>1, <2>2 DEF RowTaskInv
  <1>10. TopologyInv'
    BY <1>2, <1>5 DEF IInv, TopologyInv
  <1> QED BY <1>7, <1>8, <1>9, <1>10 DEF IInv

(* It counts down or sets the counter of its successor, and takes up the   *)
(* push of that successor if it made it ready.                             *)
LEMMA StepRelease == ASSUME IInv, NEW w \in Workers, Release(w) PROVE IInv'
  <1>1. PICK n \in Nodes, b \in {"push", "tear_down"} :
           /\ At(w, n, "release") /\ GoTo(w, b)
           /\ \/ /\ b = "tear_down" /\ UNCHANGED topology_counter
                 /\ \/ UNCHANGED join_counter
                    \/ \E left : join_counter' = [join_counter EXCEPT ![Successor[n]] = left]
                                  /\ (n # "iterate_while" => left = join_counter[Successor[n]] - 1)
                                  /\ (n = "iterate_while" => left = 0)
              \/ /\ b = "push" /\ topology_counter' = topology_counter + 1
                 /\ join_counter' = [join_counter EXCEPT ![Successor[n]] = 0]
    BY DEF Release, counters
  <1>2. UNCHANGED <<num_of_threads, pc, next, ready, ready_chunks, num_topologies>>
    BY DEF Release, caller, queues
  <1>3. /\ Top(w) \in Invocations /\ Top(w).task = n /\ Top(w).at = "release" /\ n # "chunk"
        /\ stack[w] # <<>> /\ pc = "wait" /\ stack' \in [Workers -> Stacks]
        /\ \A P : Count(P) \in Nat
    BY <1>1, TailMove
  <1>4. PICK f \in Invocations :
           /\ f.task = n /\ f.at = b
           /\ \A P : Count(P)' = Count(P) + One(f \in P) - One(Top(w) \in P)
    BY <1>1, TailMove
  <1>5. \A P \in {Sharing, RowTasks, Holding, Notifying} : Count(P)' = Count(P)
    <2>1. \A P : (f \in P <=> Top(w) \in P) => Count(P)' = Count(P)
      BY <1>3, <1>4 DEF One
    <2>2. /\ f \in Sharing <=> Top(w) \in Sharing
          /\ f \in RowTasks <=> Top(w) \in RowTasks
          /\ f \in Holding <=> Top(w) \in Holding
          /\ f \in Notifying <=> Top(w) \in Notifying
      BY <1>1, <1>3, <1>4 DEF Sharing, RowTasks, Holding, Notifying
    <2> QED BY <2>1, <2>2
  <1>6. Top(w) \in Running /\ Top(w) \notin Sharing /\ Top(w) \notin Settled /\ Top(w) \in Holding
    BY <1>3 DEF Running, Sharing, Settled, Holding
  <1>7. ready_chunks = 0 /\ Count(RowTasks) = 0 /\ ready = {} /\ Count(Settled) = 0
    <2>1. Count(Settled) = 0
      BY <1>3, <1>6, Alone, Part DEF IInv
    <2> QED BY <1>3, <1>6, <2>1, NoSharing
  <1>8. Successor[n] \in Nodes
    BY DEF Successor, Nodes
  <1>9. ShapeInv'
    <2>1. join_counter[Successor[n]] \in Int
      BY <1>8 DEF IInv, ShapeInv
    <2>2. join_counter' \in [Nodes -> Int]
      <3>1. ASSUME UNCHANGED join_counter PROVE join_counter' \in [Nodes -> Int]
        BY <3>1 DEF IInv, ShapeInv
      <3>2. ASSUME NEW k \in Int, join_counter' = [join_counter EXCEPT ![Successor[n]] = k]
            PROVE  join_counter' \in [Nodes -> Int]
        BY <1>8, <3>2, CounterKept DEF IInv, ShapeInv
      <3>3. \/ UNCHANGED join_counter
            \/ \E k \in Int : join_counter' = [join_counter EXCEPT ![Successor[n]] = k]
        BY <1>1, <2>1
      <3> QED BY <3>1, <3>2, <3>3
    <2> QED BY <1>2, <1>3, <2>2 DEF IInv, ShapeInv
  <1>10. TurnInv'
    <2>1. Count(Running)' <= Count(Running)
      BY <1>3, <1>4, <1>6 DEF One
    <2>2. Count(Running)' \in Nat /\ Cardinality(ready) \in Nat
      <3>1. Count(Running)' \in Nat
        BY InFinite DEF Count, In
      <3> QED BY <3>1, Counts DEF IInv
    <2> QED BY <1>2, <1>3, <2>1, <2>2 DEF IInv, TurnInv
  <1>11. RowTaskInv'
    <2>1. ASSUME f \in Settled PROVE join_counter'["compute_centroids"] = 0
      <3>1. n = "clean_up" /\ b = "push"
        BY <1>1, <1>4, <2>1 DEF Settled
      <3>2. Successor[n] = "compute_centroids"
        BY <3>1 DEF Successor
      <3> QED BY <1>1, <1>8, <3>1, <3>2 DEF IInv, ShapeInv
    <2>2. f \notin Settled => Count(Settled)' = 0
      BY <1>4, <1>6, <1>7 DEF One
    <2> QED BY <1>2, <1>5, <1>7, <2>1, <2>2 DEF RowTaskInv
  <1>12. TopologyInv'
    <2>1. Count(Pushing)' = Count(Pushing) + One(b = "push")
      <3>1. Top(w) \notin Pushing /\ (f \in Pushing <=> b = "push")
        BY <1>3, <1>4 DEF Pushing
      <3> QED BY <1>3, <1>4, <3>1 DEF One
    <2>2. topology_counter' = topology_counter + One(b = "push")
      <3>1. topology_counter \in Int
        BY <1>3, Counts DEF IInv, TopologyInv
      <3> QED BY <1>1, <3>1 DEF One
    <2>3. topology_counter > 0 /\ topology_counter' > 0
      <3>1. Count(Holding) > 0
        BY <1>3, <1>6, Counts DEF IInv
      <3>2. topology_counter = Cardinality(ready) + Count(Holding) + Count(Pushing)
        BY DEF IInv, TopologyInv
      <3>3. Cardinality(ready) \in Nat /\ Count(Holding) \in Nat /\ Count(Pushing) \in Nat
        BY Counts DEF IInv
      <3> QED BY <2>2, <3>1, <3>2, <3>3 DEF One
    <2>4. topology_counter' = Cardinality(ready) + Count(Holding) + Count(Pushing)'
      <3>1. Cardinality(ready) \in Nat /\ Count(Holding) \in Nat /\ Count(Pushing) \in Nat
        BY Counts DEF IInv
      <3>2. topology_counter = Cardinality(ready) + Count(Holding) + Count(Pushing)
        BY DEF IInv, TopologyInv
      <3> QED BY <2>1, <2>2, <3>1, <3>2 DEF One
    <2> QED BY <1>2, <1>5, <2>3, <2>4 DEF IInv, TopologyInv
  <1> QED BY <1>9, <1>10, <1>11, <1>12 DEF IInv

LEMMA StepPush == ASSUME IInv, NEW w \in Workers, Push(w) PROVE IInv'
  <1>1. PICK n \in Nodes : At(w, n, "push") /\ ready' = ready \cup {Successor[n]}
    BY DEF Push
  <1>2. /\ GoTo(w, "tear_down")
        /\ UNCHANGED <<num_of_threads, pc, next, ready_chunks, join_counter, topology_counter,
                       num_topologies>>
    BY DEF Push, caller, counters
  <1>3. /\ Top(w) \in Invocations /\ Top(w).task = n /\ Top(w).at = "push" /\ n # "chunk"
        /\ stack[w] # <<>> /\ pc = "wait" /\ stack' \in [Workers -> Stacks]
        /\ \A P : Count(P) \in Nat
    BY <1>1, <1>2, TailMove
  <1>4. PICK f \in Invocations :
           /\ f.task = n /\ f.at = "tear_down"
           /\ \A P : Count(P)' = Count(P) + One(f \in P) - One(Top(w) \in P)
    BY <1>1, <1>2, TailMove
  <1>5. \A P \in {Sharing, RowTasks, Holding, Notifying} : Count(P)' = Count(P)
    <2>1. \A P : (f \in P <=> Top(w) \in P) => Count(P)' = Count(P)
      BY <1>3, <1>4 DEF One
    <2>2. /\ f \in Sharing <=> Top(w) \in Sharing
          /\ f \in RowTasks <=> Top(w) \in RowTasks
          /\ f \in Holding <=> Top(w) \in Holding
          /\ f \in Notifying <=> Top(w) \in Notifying
      BY <1>3, <1>4 DEF Sharing, RowTasks, Holding, Notifying
    <2> QED BY <2>1, <2>2
  <1>6. /\ Top(w) \in Running /\ Top(w) \notin Sharing /\ Top(w) \in Pushing
        /\ f \notin Running /\ f \notin Pushing /\ f \notin Settled
    BY <1>3, <1>4 DEF Running, Sharing, Pushing, Settled
  <1>7. /\ ready_chunks = 0 /\ Count(RowTasks) = 0 /\ ready = {} /\ Cardinality(ready) = 0
        /\ Count(Running) = 1
    BY <1>3, <1>6, NoSharing, Alone DEF IInv
  <1>8. Successor[n] \in Nodes /\ ready' = {Successor[n]} /\ Cardinality(ready') = 1
    <2>1. Successor[n] \in Nodes
      BY DEF Successor, Nodes
    <2>2. ready' = {Successor[n]}
      BY <1>1, <1>7
    <2> QED BY <2>1, <2>2, FS_Singleton
  <1>9. Count(Running)' = 0 /\ Count(Pushing)' = Count(Pushing) - 1
    BY <1>3, <1>4, <1>6, <1>7 DEF One
  <1>10. Count(Settled)' = 0
    <2>1. ASSUME Top(w) \notin Settled PROVE Count(Settled) = 0
      BY <1>3, <1>6, <2>1, Alone, Part DEF IInv
    <2>2. Count(Settled) <= 1
      <3>1. Count(Settled) <= Count(Running)
        BY Part, Counts DEF IInv
      <3> QED BY <1>7, <3>1
    <2>3. ASSUME Top(w) \in Settled PROVE Count(Settled) > 0
      BY <1>3, <2>3, Counts DEF IInv
    <2> QED BY <1>3, <1>4, <1>6, <2>1, <2>2, <2>3 DEF One
  <1>11. ShapeInv'
    BY <1>2, <1>3, <1>8 DEF IInv, ShapeInv
  <1>12. TurnInv'
    BY <1>8, <1>9 DEF TurnInv
  <1>13. RowTaskInv'
    <2>1. ASSUME Successor[n] = "compute_centroids"
          PROVE  join_counter["compute_centroids"] = 0
      <3>1. n = "clean_up"
        BY <2>1 DEF Successor, Nodes
      <3>2. Top(w) \in Settled
        BY <1>3, <3>1 DEF Settled
      <3>3. Count(Settled) > 0
        BY <1>3, <3>2, Counts DEF IInv
      <3> QED BY <1>7, <3>3 DEF IInv, RowTaskInv
    <2> QED BY <1>2, <1>5, <1>7, <1>8, <1>10, <2>1 DEF RowTaskInv
  <1>14. TopologyInv'
    <2>1. topology_counter = Cardinality(ready) + Count(Holding) + Count(Pushing)
      BY DEF IInv, TopologyInv
    <2>2. Count(Holding) \in Nat /\ Count(Pushing) \in Nat
      BY Counts DEF IInv
    <2>3. topology_counter' = Cardinality(ready') + Count(Holding) + Count(Pushing)'
      BY <1>2, <1>7, <1>8, <1>9, <2>1, <2>2
    <2> QED BY <1>2, <1>5, <2>3 DEF IInv, TopologyInv
  <1> QED BY <1>11, <1>12, <1>13, <1>14 DEF IInv

LEMMA StepTearDown == ASSUME IInv, NEW w \in Workers, TearDown(w) PROVE IInv'
  <1>1. PICK n \in Nodes : At(w, n, "tear_down")
    BY DEF TearDown
  <1>2. /\ topology_counter' = topology_counter - 1
        /\ IF topology_counter = 1 THEN GoTo(w, "notify") ELSE Pop(w)
        /\ UNCHANGED <<num_of_threads, pc, next, ready, ready_chunks, join_counter,
                       num_topologies>>
    BY DEF TearDown, caller, queues
  <1>3. /\ Top(w) \in Invocations /\ Top(w).task = n /\ Top(w).at = "tear_down" /\ n # "chunk"
        /\ stack[w] # <<>> /\ pc = "wait" /\ \A P : Count(P) \in Nat
    BY <1>1, TopFacts, Counts DEF IInv, At, Nodes
  <1>4. /\ stack' \in [Workers -> Stacks]
        /\ \A P \in {Running, Sharing, Settled, RowTasks, Pushing} : Count(P)' = Count(P)
        /\ Count(Holding)' = Count(Holding) - 1
        /\ Count(Notifying)' = Count(Notifying) + One(topology_counter = 1)
    <2>1. /\ Top(w) \notin Running /\ Top(w) \notin Sharing /\ Top(w) \notin Settled
          /\ Top(w) \notin RowTasks /\ Top(w) \notin Pushing /\ Top(w) \notin Notifying
          /\ Top(w) \in Holding
      BY <1>3 DEF Running, Sharing, Settled, RowTasks, Holding, Pushing, Notifying
    <2>2. CASE topology_counter = 1
      <3>1. GoTo(w, "notify")
        BY <1>2, <2>2
      <3>2. stack' \in [Workers -> Stacks]
        BY <1>1, <3>1, TailMove
      <3>3. PICK f \in Invocations :
               /\ f.task = n /\ f.at = "notify"
               /\ \A P : Count(P)' = Count(P) + One(f \in P) - One(Top(w) \in P)
        BY <1>1, <3>1, TailMove
      <3>4. /\ f \notin Running /\ f \notin Sharing /\ f \notin Settled
            /\ f \notin RowTasks /\ f \notin Pushing /\ f \in Notifying /\ f \notin Holding
        BY <1>3, <3>3 DEF Running, Sharing, Settled, RowTasks, Holding, Pushing, Notifying
      <3>5. \A P : f \notin P /\ Top(w) \notin P => Count(P)' = Count(P)
        BY <1>3, <3>3 DEF One
      <3>6. \A P \in {Running, Sharing, Settled, RowTasks, Pushing} : Count(P)' = Count(P)
        BY <2>1, <3>4, <3>5
      <3>7. Count(Holding)' = Count(Holding) - 1 /\ Count(Notifying)' = Count(Notifying) + 1
        BY <1>3, <2>1, <3>3, <3>4 DEF One
      <3> QED BY <2>2, <3>2, <3>6, <3>7 DEF One
    <2>3. CASE topology_counter # 1
      <3>1. Pop(w)
        BY <1>2, <2>3
      <3>2. stack' \in [Workers -> Stacks] /\ \A P : Count(P)' = Count(P) - One(Top(w) \in P)
        BY <1>3, <3>1, PopCount DEF IInv
      <3>3. \A P : Top(w) \notin P => Count(P)' = Count(P)
        BY <1>3, <3>2 DEF One
      <3>4. \A P \in {Running, Sharing, Settled, RowTasks, Pushing, Notifying} :
               Count(P)' = Count(P)
        BY <2>1, <3>3
      <3>5. Count(Holding)' = Count(Holding) - 1
        BY <2>1, <3>2 DEF One
      <3>6. Count(Notifying) + One(topology_counter = 1) = Count(Notifying)
        BY <1>3, <2>3 DEF One
      <3> QED BY <3>2, <3>4, <3>5, <3>6
    <2> QED BY <2>2, <2>3
  <1>5. ShapeInv'
    BY <1>2, <1>3, <1>4 DEF IInv, ShapeInv
  <1>6. TurnInv'
    BY <1>2, <1>4 DEF IInv, TurnInv
  <1>7. RowTaskInv'
    BY <1>2, <1>4 DEF IInv, RowTaskInv
  <1>8. TopologyInv'
    <2>1. Top(w) \in Holding
      BY <1>3 DEF Holding
    <2>2. Count(Holding) > 0
      BY <1>3, <2>1, Counts DEF IInv
    <2>3. /\ Cardinality(ready) \in Nat /\ Count(Holding) \in Nat /\ Count(Pushing) \in Nat
          /\ Count(Notifying) \in Nat
      BY <1>3, Counts DEF IInv
    <2>4. topology_counter = Cardinality(ready) + Count(Holding) + Count(Pushing)
      BY DEF IInv, TopologyInv
    <2>5. topology_counter \in Nat /\ topology_counter > 0
      BY <2>2, <2>3, <2>4
    <2>6. topology_counter' = Cardinality(ready) + Count(Holding)' + Count(Pushing)
      BY <1>2, <1>4, <2>3, <2>4
    <2>7. num_topologies = 1 + Count(Notifying) /\ num_topologies <= 1
      BY <2>5 DEF IInv, TopologyInv
    <2>8. num_topologies = (IF topology_counter - 1 > 0 THEN 1 ELSE 0)
                              + Count(Notifying) + One(topology_counter = 1)
      BY <2>3, <2>5, <2>7 DEF One
    <2>9. num_topologies' = (IF topology_counter' > 0 THEN 1 ELSE 0) + Count(Notifying)'
      BY <1>2, <1>4, <2>3, <2>8 DEF One
    <2> QED BY <1>2, <1>4, <2>6, <2>7, <2>9 DEF TopologyInv
  <1> QED BY <1>5, <1>6, <1>7, <1>8 DEF IInv

LEMMA StepNotify == ASSUME IInv, NEW w \in Workers, Notify(w) PROVE IInv'
  <1>1. PICK n \in Nodes : At(w, n, "notify")
    BY DEF Notify
  <1>2. /\ num_topologies' = num_topologies - 1 /\ Pop(w)
        /\ UNCHANGED <<num_of_threads, pc, next, ready, ready_chunks, join_counter,
                       topology_counter>>
    BY DEF Notify, caller, queues, counters
  <1>3. /\ Top(w) \in Invocations /\ Top(w).task = n /\ Top(w).at = "notify" /\ n # "chunk"
        /\ stack[w] # <<>> /\ pc = "wait" /\ \A P : Count(P) \in Nat
    BY <1>1, TopFacts, Counts DEF IInv, At, Nodes
  <1>4. stack' \in [Workers -> Stacks] /\ \A P : Count(P)' = Count(P) - One(Top(w) \in P)
    BY <1>2, <1>3, PopCount DEF IInv
  <1>5. \A P \in {Running, Sharing, Settled, RowTasks, Holding, Pushing} : Count(P)' = Count(P)
    <2>1. \A P : Top(w) \notin P => Count(P)' = Count(P)
      BY <1>3, <1>4 DEF One
    <2>2. /\ Top(w) \notin Running /\ Top(w) \notin Sharing /\ Top(w) \notin Settled
          /\ Top(w) \notin RowTasks /\ Top(w) \notin Pushing /\ Top(w) \notin Holding
      BY <1>3 DEF Running, Sharing, Settled, RowTasks, Holding, Pushing
    <2> QED BY <2>1, <2>2
  <1>6. Count(Notifying)' = Count(Notifying) - 1
    <2>1. Top(w) \in Notifying
      BY <1>3 DEF Notifying
    <2> QED BY <1>4, <2>1 DEF One
  <1>7. ShapeInv'
    BY <1>2, <1>3, <1>4 DEF IInv, ShapeInv
  <1>8. TurnInv'
    BY <1>2, <1>5 DEF IInv, TurnInv
  <1>9. RowTaskInv'
    BY <1>2, <1>5 DEF IInv, RowTaskInv
  <1>10. TopologyInv'
    <2>1. Count(Notifying) \in Nat
      BY <1>3
    <2>2. num_topologies = (IF topology_counter > 0 THEN 1 ELSE 0) + Count(Notifying)
          /\ num_topologies <= 1
      BY DEF IInv, TopologyInv
    <2>3. num_topologies' = (IF topology_counter > 0 THEN 1 ELSE 0) + Count(Notifying)'
          /\ num_topologies' <= 1
      BY <1>2, <1>6, <2>1, <2>2
    <2> QED BY <1>2, <1>5, <2>3 DEF IInv, TopologyInv
  <1> QED BY <1>7, <1>8, <1>9, <1>10 DEF IInv

-----------------------------------------------------------------------------
(* A worker takes a task: one of the graph only with an empty stack.       *)
LEMMA StepTake == ASSUME IInv, NEW w \in Workers, Take(w) PROVE IInv'
  <1>1. /\ stack[w] # <<>> => Top(w).at = "join" /\ Top(w) \in Invocations
        /\ UNCHANGED <<num_of_threads, pc, next, join_counter, topology_counter, num_topologies>>
    BY TopFacts DEF IInv, Take, caller, counters
  <1>2. "chunk" \notin Nodes
    BY DEF Nodes
  <1>3. ASSUME NEW t \in ready, ready' = ready \ {t}, Pushed(w, Frame(t)), UNCHANGED ready_chunks
        PROVE  IInv'
    <2>1. t \in Nodes /\ IsFiniteSet(ready) /\ Cardinality(ready) \in Nat /\ pc = "wait"
      BY <1>3, Counts DEF IInv, ShapeInv
    <2>2. Frame(t) \in Invocations /\ Frame(t).task = t /\ Frame(t).at = "body"
      BY <1>2, <2>1 DEF Frame, Invocations, FrameType
    <2>3. /\ Cardinality(ready') = Cardinality(ready) - 1
          /\ Count(Running) = 0 /\ Cardinality(ready) = 1
      <3>1. Cardinality(ready') = Cardinality(ready) - 1 /\ Cardinality(ready) # 0
        BY <1>3, <2>1, FS_RemoveElement, FS_EmptySet
      <3>2. Count(Running) \in Nat
        BY Counts DEF IInv
      <3> QED BY <2>1, <3>1, <3>2 DEF IInv, TurnInv
    <2>4. stack[w] = <<>>
      <3> SUFFICES ASSUME stack[w] # <<>> PROVE FALSE
        OBVIOUS
      <3>1. Top(w) \in Running
        <4>1. Top(w).task = "compute_centroids" /\ Top(w).at = "join"
          BY <1>1 DEF Invocations
        <4>2. "compute_centroids" \in Nodes
          BY DEF Nodes
        <4> QED BY <1>1, <4>1, <4>2 DEF Running
      <3>2. Count(Running) > 0
        BY <3>1, Counts DEF IInv
      <3> QED BY <2>3, <3>2
    <2>5. /\ stack' \in [Workers -> Stacks]
          /\ \A P : Count(P)' = Count(P) + One(Frame(t) \in P)
          /\ \A P : Count(P) \in Nat
      BY <1>3, <2>2, <2>4, PushCount DEF IInv
    <2>6. \A P \in {Sharing, RowTasks, Pushing, Notifying} : Count(P)' = Count(P)
      <3>1. \A P : Frame(t) \notin P => Count(P)' = Count(P)
        BY <2>5 DEF One
      <3>2. /\ Frame(t) \notin Sharing /\ Frame(t) \notin RowTasks
            /\ Frame(t) \notin Pushing /\ Frame(t) \notin Notifying
        BY <1>2, <2>1, <2>2 DEF Sharing, RowTasks, Pushing, Notifying
      <3> QED BY <3>1, <3>2
    <2>7. Count(Running)' = 1 /\ Count(Holding)' = Count(Holding) + 1
      <3>1. Frame(t) \in Running /\ Frame(t) \in Holding
        BY <2>1, <2>2 DEF Running, Holding
      <3> QED BY <2>3, <2>5, <3>1 DEF One
    <2>8. Count(Settled)' > 0 => t = "compute_centroids"
      <3>1. Count(Settled) = 0
        <4>1. Count(Settled) <= Count(Running) /\ Count(Settled) \in Nat
          BY Part, Counts DEF IInv
        <4> QED BY <2>3, <4>1
      <3>2. Frame(t) \in Settled => t = "compute_centroids"
        BY <2>2 DEF Settled
      <3> QED BY <2>5, <3>1, <3>2 DEF One
    <2>9. ShapeInv'
      BY <1>1, <1>3, <2>1, <2>5 DEF IInv, ShapeInv
    <2>10. TurnInv'
      BY <2>3, <2>7 DEF TurnInv
    <2>11. RowTaskInv'
      BY <1>1, <1>3, <2>6, <2>8 DEF IInv, RowTaskInv
    <2>12. TopologyInv'
      <3>1. topology_counter = Cardinality(ready') + Count(Holding)' + Count(Pushing)'
        <4>1. topology_counter = Cardinality(ready) + Count(Holding) + Count(Pushing)
          BY DEF IInv, TopologyInv
        <4>2. Count(Holding) \in Nat /\ Count(Pushing) \in Nat
          BY <2>5
        <4>3. Count(Pushing)' = Count(Pushing)
          BY <2>6
        <4> QED BY <2>1, <2>3, <2>7, <4>1, <4>2, <4>3
      <3> QED BY <1>1, <2>6, <3>1 DEF IInv, TopologyInv
    <2> QED BY <2>9, <2>10, <2>11, <2>12 DEF IInv
  <1>4. ASSUME ready_chunks > 0, ready_chunks' = ready_chunks - 1, Pushed(w, Frame("chunk")),
               UNCHANGED ready
        PROVE  IInv'
    <2>1. /\ Frame("chunk") \in Invocations /\ Frame("chunk").task = "chunk"
          /\ Frame("chunk").at = "claim"
      BY <1>2 DEF Frame, Invocations, FrameType
    <2>2. /\ stack' \in [Workers -> Stacks]
          /\ \A P : Count(P)' = Count(P) + One(Frame("chunk") \in P)
          /\ \A P : Count(P) \in Nat
      BY <1>1, <1>4, <2>1, PushCount DEF IInv
    <2>3. \A P \in {Running, Sharing, Settled, Holding, Pushing, Notifying} :
             Count(P)' = Count(P)
      <3>1. \A P : Frame("chunk") \notin P => Count(P)' = Count(P)
        BY <2>2 DEF One
      <3>2. /\ Frame("chunk") \notin Running /\ Frame("chunk") \notin Sharing
            /\ Frame("chunk") \notin Settled /\ Frame("chunk") \notin Holding
            /\ Frame("chunk") \notin Pushing /\ Frame("chunk") \notin Notifying
        BY <1>2, <2>1 DEF Running, Sharing, Settled, Holding, Pushing, Notifying
      <3> QED BY <3>1, <3>2
    <2>4. Count(RowTasks)' = Count(RowTasks) + 1
      <3>1. Frame("chunk") \in RowTasks
        BY <2>1 DEF RowTasks
      <3> QED BY <2>2, <3>1 DEF One
    <2>5. ready_chunks \in Nat /\ Count(RowTasks) \in Nat /\ Count(Sharing) > 0
      BY <1>4, <2>2 DEF IInv, ShapeInv, RowTaskInv
    <2>6. pc = "wait" /\ ready_chunks' \in Nat
      BY <1>4, <2>5, Counts DEF IInv
    <2>7. ShapeInv'
      BY <1>1, <1>4, <2>2, <2>6 DEF IInv, ShapeInv
    <2>8. TurnInv'
      BY <1>4, <2>3 DEF IInv, TurnInv
    <2>9. RowTaskInv'
      <3>1. ready_chunks' + Count(RowTasks)' = ready_chunks + Count(RowTasks)
        BY <1>4, <2>4, <2>5
      <3> QED BY <1>1, <1>4, <2>3, <2>5, <3>1 DEF IInv, RowTaskInv
    <2>10. TopologyInv'
      BY <1>1, <1>4, <2>3 DEF IInv, TopologyInv
    <2> QED BY <2>7, <2>8, <2>9, <2>10 DEF IInv
  <1> QED BY <1>3, <1>4 DEF Take, Pushed

-----------------------------------------------------------------------------
(* The thread that calls fit, before and after the workers. *)
LEMMA Idle ==
    ASSUME IInv, ready = {}, \A w \in Workers : stack[w] = <<>>
    PROVE  /\ \A P : Count(P) = 0
           /\ ready_chunks = 0 /\ topology_counter = 0 /\ num_topologies = 0
  <1>1. \A P : Count(P) = 0
    BY Counts DEF IInv
  <1>2. Cardinality(ready) = 0
    BY Counts DEF IInv
  <1>3. topology_counter = 0 /\ num_topologies = 0
    BY <1>1, <1>2 DEF IInv, TopologyInv
  <1>4. ready_chunks = 0
    BY <1>1 DEF IInv, ShapeInv, RowTaskInv
  <1> QED BY <1>1, <1>3, <1>4

LEMMA CountSame == ASSUME UNCHANGED stack PROVE \A P : Count(P)' = Count(P)
  BY DEF Count, In

LEMMA StepRun == ASSUME IInv, Run PROVE IInv'
  <1>1. /\ ready = {} /\ (\A w \in Workers : stack[w] = <<>>) /\ pc' = "wait"
        /\ join_counter' = [n \in Nodes |-> Cardinality(StrongDependents(n))]
        /\ topology_counter' = 1 /\ num_topologies' = 1 /\ ready' = {"init"}
        /\ UNCHANGED <<num_of_threads, next, ready_chunks, stack>>
    BY DEF Run, IInv, ShapeInv
  <1>2. (\A P : Count(P) = 0) /\ ready_chunks = 0
    BY <1>1, Idle
  <1>3. \A P : Count(P)' = 0
    BY <1>1, <1>2, CountSame
  <1>4. join_counter' \in [Nodes -> Int]
    <2>1. \A n \in Nodes : Cardinality(StrongDependents(n)) \in Int
      <3> SUFFICES ASSUME NEW n \in Nodes PROVE Cardinality(StrongDependents(n)) \in Int
        OBVIOUS
      <3>1. StrongDependents(n) \in SUBSET Nodes
        BY DEF StrongDependents
      <3> QED BY <3>1, NodesFinite, FS_Subset, FS_CardinalityType
    <2> QED BY <1>1, <2>1
  <1>5. Cardinality(ready') = 1
    BY <1>1, FS_Singleton
  <1>6. ShapeInv'
    <2>1. ready' \subseteq Nodes
      BY <1>1 DEF Nodes
    <2> QED BY <1>1, <1>4, <2>1 DEF IInv, ShapeInv
  <1>7. TurnInv'
    BY <1>3, <1>5 DEF TurnInv
  <1>8. RowTaskInv'
    BY <1>1, <1>2, <1>3 DEF RowTaskInv
  <1>9. TopologyInv'
    BY <1>1, <1>3, <1>5 DEF TopologyInv
  <1> QED BY <1>6, <1>7, <1>8, <1>9 DEF IInv

LEMMA StepReturn == ASSUME IInv, Return PROVE IInv'
  <1>1. /\ num_topologies = 0 /\ (\A w \in Workers : stack[w] = <<>>)
        /\ UNCHANGED <<num_of_threads, next, join_counter, topology_counter, num_topologies,
                       ready, ready_chunks, stack>>
    BY DEF Return, counters, queues
  <1>2. ready = {}
    <2>1. (\A P : Count(P) = 0) /\ Cardinality(ready) \in Nat
      BY <1>1, Counts DEF IInv
    <2>2. topology_counter = Cardinality(ready) /\ ~ (topology_counter > 0)
      BY <1>1, <2>1 DEF IInv, TopologyInv
    <2> QED BY <2>1, <2>2, Counts DEF IInv
  <1>3. \A P : Count(P)' = Count(P)
    BY <1>1, CountSame
  <1>4. ShapeInv'
    BY <1>1, <1>2 DEF IInv, ShapeInv
  <1> QED BY <1>1, <1>3, <1>4 DEF IInv, TurnInv, RowTaskInv, TopologyInv

LEMMA StepRefit == ASSUME IInv, Refit PROVE IInv'
  <1>1. /\ ready = {} /\ (\A w \in Workers : stack[w] = <<>>)
        /\ num_of_threads' \in Workers /\ join_counter' = ZeroJoinCounters
        /\ UNCHANGED <<next, topology_counter, num_topologies, ready, ready_chunks, stack>>
    BY DEF Refit, IInv, ShapeInv, queues
  <1>2. (\A P : Count(P) = 0) /\ ready_chunks = 0
    BY <1>1, Idle
  <1>3. \A P : Count(P)' = Count(P)
    BY <1>1, CountSame
  <1>4. ShapeInv'
    <2>1. join_counter' \in [Nodes -> Int]
      BY <1>1 DEF ZeroJoinCounters
    <2> QED BY <1>1, <2>1 DEF IInv, ShapeInv
  <1>5. RowTaskInv'
    BY <1>1, <1>2, <1>3 DEF RowTaskInv
  <1> QED BY <1>1, <1>3, <1>4, <1>5 DEF IInv, TurnInv, TopologyInv

LEMMA Initially == ASSUME Init PROVE IInv
  <1>1. ShapeInv
    <2>1. <<>> \in Stacks
      <3>1. <<>> \in Seq(Invocations) /\ Len(<<>>) = 0
        OBVIOUS
      <3> QED BY <3>1 DEF Stacks
    <2>2. stack \in [Workers -> Stacks] /\ \A w \in Workers : stack[w] = <<>>
      BY <2>1 DEF Init
    <2>3. join_counter \in [Nodes -> Int]
      BY DEF Init, ZeroJoinCounters
    <2>4. next \in 0 .. N
      BY LloydAssumption DEF Init
    <2> QED BY <2>2, <2>3, <2>4 DEF Init, ShapeInv
  <1>2. \A P : Count(P) = 0
    <2>1. \A w \in Workers : stack[w] = <<>>
      BY DEF Init
    <2> QED BY <1>1, <2>1, Counts
  <1>3. Cardinality(ready) = 0 /\ ready = {}
    BY FS_EmptySet DEF Init
  <1>4. ready_chunks = 0 /\ topology_counter = 0 /\ num_topologies = 0
    BY DEF Init
  <1> QED BY <1>1, <1>2, <1>3, <1>4 DEF IInv, TurnInv, RowTaskInv, TopologyInv

(* The invariant holds of every reachable state. *)
THEOREM TurnKept == Spec => []IInv
  <1>1. Init => IInv
    BY Initially
  <1>2. IInv /\ [Next]_vars => IInv'
    <2> SUFFICES ASSUME IInv, [Next]_vars PROVE IInv'
      OBVIOUS
    <2>1. CASE Run
      BY <2>1, StepRun
    <2>2. CASE Return
      BY <2>2, StepReturn
    <2>3. CASE Refit
      BY <2>3, StepRefit
    <2>4. ASSUME NEW w \in Workers, Take(w) PROVE IInv'
      BY <2>4, StepTake
    <2>5. ASSUME NEW w \in Workers, Invoke(w) PROVE IInv'
      <3>1. CASE InitBody(w) \/ CleanUpBody(w) \/ UpdateBody(w) \/ IterateBody(w)
        BY <3>1, StepBodies
      <3>2. CASE ComputeBody(w)
        BY <3>2, StepCompute
      <3>3. CASE SpawnChunk(w)
        BY <3>3, StepSpawnChunk
      <3>4. CASE SpawnDone(w)
        BY <3>4, StepSpawnDone
      <3>5. CASE Joined(w)
        BY <3>5, StepJoined
      <3>6. CASE ClaimChunk(w) \/ NothingLeft(w) \/ LabelRow(w) \/ RowsDone(w)
        BY <3>6, StepRows
      <3>7. CASE ChunkTearDown(w)
        BY <3>7, StepChunkTearDown
      <3>8. CASE Recover(w)
        BY <3>8, StepRecover
      <3>9. CASE Release(w)
        BY <3>9, StepRelease
      <3>10. CASE Push(w)
        BY <3>10, StepPush
      <3>11. CASE TearDown(w)
        BY <3>11, StepTearDown
      <3>12. CASE Notify(w)
        BY <3>12, StepNotify
      <3> QED BY <2>5, <3>1, <3>2, <3>3, <3>4, <3>5, <3>6, <3>7, <3>8, <3>9, <3>10, <3>11, <3>12
              DEF Invoke
    <2>6. CASE UNCHANGED vars
      <3>1. UNCHANGED <<num_of_threads, pc, next, join_counter, topology_counter, num_topologies,
                        ready, ready_chunks, stack>>
        BY <2>6 DEF vars, caller, counters, queues
      <3>2. \A P : Count(P)' = Count(P)
        BY <3>1, CountSame
      <3>3. ShapeInv'
        BY <3>1 DEF IInv, ShapeInv
      <3> QED BY <3>1, <3>2, <3>3 DEF IInv, TurnInv, RowTaskInv, TopologyInv
    <2> QED BY <2>1, <2>2, <2>3, <2>4, <2>5, <2>6 DEF Next, TakeAny
  <1> QED BY <1>1, <1>2, PTL DEF Spec

-----------------------------------------------------------------------------
LEMMA FrameFacts ==
    ASSUME ShapeInv
    PROVE  /\ \A f \in Frames : FrameAt(f) \in Invocations
           /\ \A P : {f \in Frames : FrameAt(f) \in P} = In(stack, P)
  <1>1. ASSUME NEW f \in Frames PROVE FrameAt(f) \in Invocations
    <2>1. f[1] \in Workers /\ f[2] \in 1 .. 2 /\ f[2] <= Len(stack[f[1]])
      BY DEF Frames
    <2>2. stack[f[1]] \in Stacks
      BY <2>1 DEF ShapeInv
    <2>3. Len(stack[f[1]]) \in {0, 1, 2}
      BY <2>2, StackFacts
    <2>4. f[2] \in 1 .. Len(stack[f[1]])
      BY <2>1, <2>3
    <2> QED BY <2>2, <2>4, StackFacts DEF FrameAt
  <1>2. \A P : {f \in Frames : FrameAt(f) \in P} = In(stack, P)
    BY DEF Frames, FrameAt, In
  <1> QED BY <1>1, <1>2

(* The topology is torn down by the task that leaves last, for the count   *)
(* of the tasks that are pushed, about to be pushed or not torn down is    *)
(* exact; and compute_centroids waits for the row tasks there are.         *)
THEOREM CountersKept == Spec => []CountersExact
  <1>1. ASSUME IInv PROVE CountersExact
    <2>1. \A f \in Frames : FrameAt(f) \in Invocations
      BY <1>1, FrameFacts DEF IInv
    <2>2. Cardinality({f \in Frames : Holds(f)}) = Count(Holding)
      <3>1. {f \in Frames : Holds(f)} = {f \in Frames : FrameAt(f) \in Holding}
        BY <2>1 DEF Holds, Holding
      <3>2. {f \in Frames : Holds(f)} = In(stack, Holding)
        BY <1>1, <3>1, FrameFacts DEF IInv
      <3> QED BY <3>2, Zenon DEF Count
    <2>3. Cardinality({f \in Frames : FrameAt(f).at = "push"}) = Count(Pushing)
      <3>1. {f \in Frames : FrameAt(f).at = "push"} = {f \in Frames : FrameAt(f) \in Pushing}
        BY <2>1 DEF Pushing
      <3>2. {f \in Frames : FrameAt(f).at = "push"} = In(stack, Pushing)
        BY <1>1, <3>1, FrameFacts DEF IInv
      <3> QED BY <3>2, Zenon DEF Count
    <2>4. Cardinality({f \in Frames : FrameAt(f).task = "chunk"}) = Count(RowTasks)
      <3>1. {f \in Frames : FrameAt(f).task = "chunk"} = {f \in Frames : FrameAt(f) \in RowTasks}
        BY <2>1 DEF RowTasks
      <3>2. {f \in Frames : FrameAt(f).task = "chunk"} = In(stack, RowTasks)
        BY <1>1, <3>1, FrameFacts DEF IInv
      <3> QED BY <3>2, Zenon DEF Count
    <2>5. ASSUME NEW f \in Frames, FrameAt(f).at \in {"spawn", "join"} PROVE Count(Settled) > 0
      <3>1. FrameAt(f).task = "compute_centroids"
        BY <2>1, <2>5 DEF Invocations
      <3>2. FrameAt(f) \in Settled
        BY <2>1, <2>5, <3>1 DEF Settled
      <3>3. f \in In(stack, Settled)
        BY <1>1, <3>2, FrameFacts DEF IInv
      <3>4. Count(Settled) \in Nat /\ Count(Settled) # 0
        BY <3>3, InFinite, FS_EmptySet DEF Count
      <3> QED BY <3>4
    <2> QED BY <1>1, <2>2, <2>3, <2>4, <2>5 DEF IInv, TopologyInv, RowTaskInv, CountersExact
  <1>2. IInv => CountersExact
    BY <1>1
  <1> QED BY <1>2, TurnKept, PTL

(* The arrays of the fit need no lock: whenever two bodies run, one is a   *)
(* row task, and the other too or the compute_centroids that waits.        *)
THEOREM BodiesRunAlone == Spec => []BodiesAlone
  <1>1. ASSUME IInv PROVE BodiesAlone
    <2>1. \A f \in Frames : FrameAt(f) \in Invocations
      BY <1>1, FrameFacts DEF IInv
    <2>2. ASSUME NEW f \in In(stack, Running), NEW g \in In(stack, Running) PROVE f = g
      <3>1. IsFiniteSet(In(stack, Running)) /\ Cardinality(In(stack, Running)) <= 1
        <4>1. Cardinality(In(stack, Running)) \in Nat /\ Cardinality(ready) \in Nat
          BY <1>1, InFinite, Counts DEF IInv
        <4> QED BY <1>1, <4>1, InFinite DEF IInv, TurnInv, Count
      <3>2. /\ IsFiniteSet(In(stack, Running) \ {f})
            /\ Cardinality(In(stack, Running) \ {f}) = Cardinality(In(stack, Running)) - 1
        BY <3>1, FS_RemoveElement
      <3>3. Cardinality(In(stack, Running) \ {f}) \in Nat
        BY <3>2, FS_CardinalityType
      <3>4. Cardinality(In(stack, Running) \ {f}) = 0
        BY <3>1, <3>2, <3>3, InFinite
      <3>5. In(stack, Running) \ {f} = {}
        BY <3>2, <3>4, FS_EmptySet
      <3> QED BY <3>5
    <2>3. ASSUME NEW f \in InBody
          PROVE  f \in Frames /\ (f \in In(stack, Running) \/ FrameAt(f).task = "chunk")
      <3>1. f \in Frames /\ FrameAt(f) \in Invocations
            /\ FrameAt(f).at \in {"body", "inline", "spawn", "join", "claim", "rows"}
        BY <2>1 DEF InBody
      <3>2. FrameAt(f) \in Running \/ FrameAt(f).task = "chunk"
        <4>1. FrameAt(f).task \in Nodes \/ FrameAt(f).task = "chunk"
          BY <3>1 DEF Invocations, FrameType
        <4> QED BY <3>1, <4>1 DEF Running
      <3> QED BY <1>1, <3>1, <3>2, FrameFacts DEF IInv
    <2>4. ASSUME NEW f \in Frames, FrameAt(f).task = "chunk",
                 NEW g \in In(stack, Running)
          PROVE  FrameAt(g).task = "compute_centroids"
      <3>1. f \in In(stack, RowTasks)
        <4>1. FrameAt(f) \in RowTasks
          BY <2>1, <2>4 DEF RowTasks
        <4> QED BY <1>1, <4>1, FrameFacts DEF IInv
      <3>2. Count(RowTasks) \in Nat /\ Count(RowTasks) > 0
        <4>1. Count(RowTasks) \in Nat /\ Count(RowTasks) # 0
          BY <3>1, InFinite, FS_EmptySet DEF Count
        <4> QED BY <4>1
      <3>3. Count(Sharing) > 0
        BY <1>1, <3>2 DEF IInv, RowTaskInv, ShapeInv
      <3>4. PICK h : h \in In(stack, Sharing)
        <4>1. Cardinality(In(stack, Sharing)) # 0
          BY <3>3 DEF Count
        <4> QED BY <4>1, FS_EmptySet
      <3>5. h \in In(stack, Running)
        BY <3>4, Part DEF In
      <3>6. h = g
        BY <2>2, <3>5
      <3>7. FrameAt(g) \in Sharing
        BY <3>4, <3>6 DEF In, FrameAt
      <3> QED BY <3>7 DEF Sharing, Invocations
    <2> SUFFICES ASSUME NEW f \in InBody, NEW g \in InBody, f # g
                 PROVE  /\ {FrameAt(f).task, FrameAt(g).task} \subseteq {"chunk", "compute_centroids"}
                        /\ "chunk" \in {FrameAt(f).task, FrameAt(g).task}
      BY DEF BodiesAlone
    <2>5. ~ (f \in In(stack, Running) /\ g \in In(stack, Running))
      BY <2>2
    <2>6. FrameAt(f).task = "chunk" \/ FrameAt(g).task = "chunk"
      BY <2>3, <2>5
    <2>7. FrameAt(f).task \in {"chunk", "compute_centroids"}
      BY <2>3, <2>4, <2>6
    <2>8. FrameAt(g).task \in {"chunk", "compute_centroids"}
      BY <2>3, <2>4, <2>6
    <2> QED BY <2>6, <2>7, <2>8
  <1>2. IInv => BodiesAlone
    BY <1>1
  <1> QED BY <1>2, TurnKept, PTL

-----------------------------------------------------------------------------
(* The types of the arrays, and that the graph implements KMeans.          *)

(* The frame of the task of the graph that runs, if one does, and where    *)
(* the graph's turn is: there, or at the body of the task that is pushed.  *)
Tokens == {r \in Running : Count({r}) > 0}
Turn == {<<r.task, r.at>> : r \in Tokens} \cup {<<n, "body">> : n \in ready}

(* The rows a worker is about to label. *)
RowRange(r) == IF r.at \in {"inline", "rows"} THEN r.loop .. r.end - 1 ELSE {}
Share(w) == IF stack[w] = <<>> THEN {} ELSE RowRange(Top(w))

Left == ready_chunks + Count(RowTasks)

ArrayInv ==
    /\ centroids \in [Clusters -> Centroid]
    /\ labels \in [Rows -> Clusters]
    /\ sums \in [Clusters -> Vector]
    /\ counts \in [Clusters -> Nat]
    /\ before \in BOOLEAN

(* What holds of the round where the turn is: the sums are cleared from    *)
(* clean_up to update_clusters, and no row is left to claim once           *)
(* compute_centroids is through.                                           *)
Cleared == sums = ZeroSums /\ counts = ZeroCounts

TurnAt(n, a) ==
    /\ n = "init" => m = 0
    /\ ~ (n = "iterate_while" /\ a \in Leaving) => m <= M
    /\ \/ n = "clean_up" /\ a \in Leaving
       \/ n = "compute_centroids"
       \/ n = "update_clusters" /\ a = "body"
       => Cleared
    /\ \/ n = "compute_centroids" /\ a \in Leaving \cup {"inline"}
       \/ n = "update_clusters" /\ a = "body"
       => next = N

RoundInv ==
    /\ pc \in {"run", "wait", "returned"} /\ m \in 0 .. M + 1
    /\ \A t \in Turn : TurnAt(t[1], t[2])
    /\ pc = "run" => m = 0
    /\ pc = "wait" /\ Turn = {} => m = M + 1
    /\ pc = "returned" => m = M + 1 /\ before

(* compute_centroids has as many row tasks as it has spawned, until none   *)
(* of the rows is left; iterate_while releases clean_up while rounds are   *)
(* left, the others always release their successor.                        *)
TokenInv(r) ==
    /\ r.at = "body" => r.loop = 0
    /\ r.at \in {"spawn", "join"} =>
          /\ 0 < r.end /\ r.loop <= r.end /\ r.end <= MaxWorkers
          /\ r.at = "join" => r.loop = r.end
          /\ Left <= r.loop /\ (next = N \/ Left = r.loop)
    /\ r.task # "iterate_while" => r.released
    /\ r.task = "iterate_while" /\ r.at \in Leaving =>
          (r.released <=> m <= M) /\ (r.at = "push" => r.released)

TokensInv == \A r \in Tokens : TokenInv(r)

(* The rows are claimed once. *)
ShareInv ==
    \A w \in Workers :
       /\ Share(w) \subseteq 0 .. next - 1
       /\ \A v \in Workers \ {w} : Share(v) \cap Share(w) = {}
       /\ At(w, "chunk", "tear_down") => next = N

(* A join counter is whole, but from the release of its task to the        *)
(* recovery in the task's invocation.                                      *)
Pending(t, n) ==
    \/ t[1] = n /\ t[2] \in {"body", "inline", "spawn", "join", "recover"}
    \/ Successor[t[1]] = n /\ t[2] = "push"

JoinInv ==
    /\ join_counter \in [Nodes -> 0 .. MaxWorkers]
    /\ pc = "wait" => \A n \in Nodes \ {"init"} :
                         join_counter[n] = 1 \/ \E t \in Turn : Pending(t, n)

FitInv == ArrayInv /\ RoundInv /\ TokensInv /\ ShareInv /\ JoinInv

-----------------------------------------------------------------------------
(* The graph has one turn. *)
LEMMA OneToken ==
    IInv => \A r \in Tokens : Tokens = {r} /\ ready = {} /\ Turn = {<<r.task, r.at>>}
  <1> SUFFICES ASSUME IInv, NEW r \in Tokens
               PROVE  Tokens = {r} /\ ready = {} /\ Turn = {<<r.task, r.at>>}
    OBVIOUS
  <1>1. Count(Running) = 1 /\ ready = {}
    <2>1. Count({r}) <= Count(Running) /\ Count({r}) > 0
      BY Counts DEF IInv, Tokens
    <2>2. Count(Running) \in Nat /\ Cardinality(ready) \in Nat /\ Count({r}) \in Nat
          /\ (Cardinality(ready) = 0 <=> ready = {})
      BY Counts DEF IInv
    <2> QED BY <2>1, <2>2 DEF IInv, TurnInv
  <1>2. PICK f : In(stack, Running) = {f}
    BY <1>1, InFinite, FS_Singleton DEF Count
  <1>3. ASSUME NEW q \in Tokens PROVE f \in In(stack, {q})
    <2>1. In(stack, {q}) # {}
      BY <1>3, FS_EmptySet DEF Tokens, Count
    <2>2. In(stack, {q}) \subseteq In(stack, Running)
      BY <1>3 DEF In, Tokens
    <2> QED BY <1>2, <2>1, <2>2
  <1>4. ASSUME NEW q \in Tokens PROVE q = r
    BY <1>3 DEF In
  <1>5. Tokens = {r}
    BY <1>4
  <1> QED BY <1>1, <1>5 DEF Turn

LEMMA OnePushed ==
    IInv => \A n \in ready : Tokens = {} /\ ready = {n} /\ Turn = {<<n, "body">>}
  <1> SUFFICES ASSUME IInv, NEW n \in ready
               PROVE  Tokens = {} /\ ready = {n} /\ Turn = {<<n, "body">>}
    OBVIOUS
  <1>1. Tokens = {}
    BY OneToken
  <1>2. ready = {n}
    <2>1. IsFiniteSet(ready) /\ Cardinality(ready) \in Nat /\ Cardinality(ready) # 0
          /\ Count(Running) \in Nat
      BY Counts DEF IInv
    <2>2. Cardinality(ready) = 1
      BY <2>1 DEF IInv, TurnInv
    <2> QED BY <2>1, <2>2, FS_Singleton
  <1> QED BY <1>1, <1>2 DEF Turn

LEMMA TurnTop ==
    ASSUME IInv, NEW w \in Workers, stack[w] # <<>>, Top(w) \in Running
    PROVE  Tokens = {Top(w)} /\ ready = {} /\ Turn = {<<Top(w).task, Top(w).at>>}
  <1>1. Count({Top(w)}) > 0
    BY Counts DEF IInv
  <1> QED BY <1>1, OneToken DEF Tokens

(* How the steps of a worker move the turn and its share of the rows. *)
LEMMA PutMoves ==
    ASSUME IInv, NEW w \in Workers, NEW f \in Invocations, stack[w] # <<>>, Put(w, f),
           f.task = Top(w).task
    PROVE  /\ stack'[w] # <<>> /\ Top(w)' = f /\ Share(w)' = RowRange(f)
           /\ \A v \in Workers \ {w} : stack'[v] = stack[v] /\ Share(v)' = Share(v)
           /\ Count(RowTasks)' = Count(RowTasks)
           /\ Top(w) \in Running => Tokens' = {r \in Running : r = f}
           /\ Top(w) \notin Running /\ f \notin Running => Tokens' = Tokens
  <1>1. stack[w] \in Stacks /\ Top(w) \in Invocations
        /\ (Len(stack[w]) = 2 => f.task = "chunk")
    BY TopFacts DEF IInv, ShapeInv
  <1>2. /\ stack'[w] = <<f>> \o Tail(stack[w]) /\ \A v \in Workers \ {w} : stack'[v] = stack[v]
    BY DEF Put, IInv, ShapeInv
  <1>3. stack'[w] # <<>> /\ stack'[w][1] = f
    BY <1>1, <1>2, PutShape
  <1>4. Top(w)' = f /\ Share(w)' = RowRange(f)
    BY <1>3 DEF Top, Share
  <1>5. \A v \in Workers \ {w} : stack'[v] = stack[v] /\ Share(v)' = Share(v)
    BY <1>2 DEF Top, Share
  <1>6. /\ \A P : Count(P)' = Count(P) + One(f \in P) - One(Top(w) \in P)
        /\ \A P : Count(P) \in Nat
    BY <1>1, PutCount DEF IInv
  <1>7. Count(RowTasks)' = Count(RowTasks)
    <2>1. f \in RowTasks <=> Top(w) \in RowTasks
      BY <1>1 DEF RowTasks
    <2> QED BY <1>6, <2>1 DEF One
  <1>8. ASSUME Top(w) \in Running PROVE Tokens' = {r \in Running : r = f}
    <2>1. ASSUME NEW r \in Running PROVE Count({r})' > 0 <=> r = f
      <3>1. Count({r}) = One(r = Top(w))
        <4>1. CASE r = Top(w)
          <5>1. Count({r}) > 0 /\ Count({r}) <= Count(Running) /\ Count(Running) = 1
            BY <1>8, <4>1, Counts, Alone DEF IInv
          <5> QED BY <1>6, <4>1, <5>1 DEF One
        <4>2. CASE r # Top(w)
          <5>1. {r} \subseteq Running /\ Top(w) \notin {r}
            BY <4>2
          <5>2. Count({r}) = 0
            BY <1>8, <5>1, Alone DEF IInv
          <5> QED BY <4>2, <5>2 DEF One
        <4> QED BY <4>1, <4>2
      <3>2. Count({r})' = Count({r}) + One(f \in {r}) - One(Top(w) \in {r})
        BY <1>6
      <3> QED BY <3>1, <3>2 DEF One
    <2> QED BY <2>1 DEF Tokens
  <1>9. ASSUME Top(w) \notin Running, f \notin Running PROVE Tokens' = Tokens
    <2>1. ASSUME NEW r \in Running PROVE Count({r})' = Count({r})
      <3>1. Count({r})' = Count({r}) + One(f \in {r}) - One(Top(w) \in {r}) /\ Count({r}) \in Nat
        BY <1>6
      <3>2. f # r /\ Top(w) # r
        BY <1>9
      <3> QED BY <3>1, <3>2 DEF One
    <2> QED BY <2>1 DEF Tokens
  <1> QED BY <1>3, <1>4, <1>5, <1>7, <1>8, <1>9

LEMMA PopMoves ==
    ASSUME IInv, NEW w \in Workers, stack[w] # <<>>, Pop(w), Top(w) \notin Running
    PROVE  /\ Share(w)' = {} /\ ~ At(w, "chunk", "tear_down")'
           /\ \A v \in Workers \ {w} : stack'[v] = stack[v] /\ Share(v)' = Share(v)
           /\ Tokens' = Tokens
           /\ Count(RowTasks)' = Count(RowTasks) - One(Top(w).task = "chunk")
  <1>1. stack[w] \in Stacks /\ Top(w) \in Invocations
    BY TopFacts DEF IInv, ShapeInv
  <1>2. /\ stack'[w] = Tail(stack[w]) /\ \A v \in Workers \ {w} : stack'[v] = stack[v]
    BY DEF Pop, IInv, ShapeInv
  <1>3. stack'[w] # <<>> => stack'[w][1].at = "join"
    <2>1. /\ Tail(stack[w]) \in Seq(Invocations) /\ Len(Tail(stack[w])) = Len(stack[w]) - 1
          /\ Len(stack[w]) = 2 => Tail(stack[w])[1] = stack[w][2]
      BY <1>1, PopShape
    <2>2. Len(stack[w]) \in {1, 2} /\ (Len(stack[w]) = 2 => stack[w][2].at = "join")
      BY <1>1, StackFacts
    <2>3. Len(stack[w]) = 1 => Tail(stack[w]) = <<>>
      <3>1. \A s \in Seq(Invocations) : Len(s) = 0 => s = <<>>
        BY EmptySeq
      <3>2. Len(stack[w]) = 1 => Len(Tail(stack[w])) = 0
        BY <2>1
      <3> QED BY <2>1, <3>1, <3>2
    <2> QED BY <1>2, <2>1, <2>2, <2>3
  <1>4. Share(w)' = {} /\ ~ At(w, "chunk", "tear_down")'
    BY <1>3 DEF Share, Top, RowRange, At
  <1>5. \A v \in Workers \ {w} : stack'[v] = stack[v] /\ Share(v)' = Share(v)
    BY <1>2 DEF Top, Share
  <1>6. /\ \A P : Count(P)' = Count(P) - One(Top(w) \in P)
        /\ \A P : Count(P) \in Nat
    BY PopCount DEF IInv
  <1>7. Count(RowTasks)' = Count(RowTasks) - One(Top(w).task = "chunk")
    BY <1>1, <1>6 DEF RowTasks, One
  <1>8. Tokens' = Tokens
    <2>1. ASSUME NEW r \in Running PROVE Count({r})' = Count({r})
      <3>1. Count({r})' = Count({r}) - One(Top(w) \in {r}) /\ Count({r}) \in Nat
        BY <1>6
      <3> QED BY <3>1 DEF One
    <2> QED BY <2>1 DEF Tokens
  <1> QED BY <1>4, <1>5, <1>7, <1>8

LEMMA PushMoves ==
    ASSUME IInv, NEW w \in Workers, NEW f \in Invocations, Pushed(w, f),
           stack[w] = <<>> \/ (Top(w).at = "join" /\ f.task = "chunk"),
           f \in Running => Tokens = {}
    PROVE  /\ stack'[w] # <<>> /\ Top(w)' = f /\ Share(w)' = RowRange(f) /\ Share(w) = {}
           /\ \A v \in Workers \ {w} : stack'[v] = stack[v] /\ Share(v)' = Share(v)
           /\ Tokens' = Tokens \cup {r \in Running : r = f}
           /\ Count(RowTasks)' = Count(RowTasks) + One(f.task = "chunk")
  <1>1. /\ stack'[w] = <<f>> \o stack[w] /\ \A v \in Workers \ {w} : stack'[v] = stack[v]
        /\ stack[w] \in Stacks
    BY DEF Pushed, IInv, ShapeInv
  <1>2. stack'[w] # <<>> /\ stack'[w][1] = f
    <2>1. Len(stack[w]) <= 1
      <3>1. CASE stack[w] = <<>>
        BY <3>1
      <3>2. CASE stack[w] # <<>>
        <4>1. Top(w) \in Invocations /\ Top(w).at = "join"
              /\ (Len(stack[w]) = 2 => Top(w).task = "chunk")
          BY <3>2, TopFacts DEF IInv
        <4>2. Top(w).task # "chunk"
          BY <4>1 DEF Invocations, Nodes
        <4>3. Len(stack[w]) \in {0, 1, 2} /\ Len(stack[w]) # 2
          BY <1>1, <4>1, <4>2, StackFacts
        <4>4. \A n \in {0, 1, 2} : n # 2 => n <= 1
          OBVIOUS
        <4> QED BY <4>3, <4>4, Zenon
      <3> QED BY <3>1, <3>2
    <2>2. Len(stack'[w]) = Len(stack[w]) + 1 /\ stack'[w][1] = f /\ Len(stack[w]) \in Nat
      BY <1>1, <2>1, PushShape, StackFacts
    <2> QED BY <2>2
  <1>3. Top(w)' = f /\ Share(w)' = RowRange(f) /\ Share(w) = {}
    BY <1>2 DEF Top, Share, RowRange
  <1>4. \A v \in Workers \ {w} : stack'[v] = stack[v] /\ Share(v)' = Share(v)
    BY <1>1 DEF Top, Share
  <1>5. /\ \A P : Count(P)' = Count(P) + One(f \in P)
        /\ \A P : Count(P) \in Nat
    BY PushCount DEF IInv
  <1>6. Count(RowTasks)' = Count(RowTasks) + One(f.task = "chunk")
    BY <1>5 DEF RowTasks, One
  <1>7. ASSUME NEW r \in Running PROVE Count({r})' > 0 <=> Count({r}) > 0 \/ r = f
    <2>1. Count({r})' = Count({r}) + One(f \in {r}) /\ Count({r}) \in Nat
      BY <1>5
    <2> QED BY <2>1 DEF One
  <1>8. Tokens' = Tokens \cup {r \in Running : r = f}
    BY <1>7 DEF Tokens
  <1> QED BY <1>2, <1>3, <1>4, <1>6, <1>8

-----------------------------------------------------------------------------
(* What the refinement mapping sees of a state is where the turn is. *)
SamplingAt(n, a) == n = "init" /\ a = "body"
ComputingAt(n, a) ==
    \/ n = "compute_centroids" /\ a \in {"inline", "spawn", "join"} \cup Leaving
    \/ n = "update_clusters" /\ a = "body"
UpdatedAt(n, a) ==
    \/ n = "update_clusters" /\ a \in Leaving
    \/ n = "iterate_while" /\ a = "body"

LEMMA TokenFrames ==
    ShapeInv =>
      /\ \A f \in Frames : /\ FrameAt(f) \in Invocations
                           /\ FrameAt(f) \in Running => FrameAt(f) \in Tokens
                           /\ f[2] = 2 => FrameAt(f).at = "join"
      /\ \A r \in Tokens : \E f \in Frames : FrameAt(f) = r
  <1> SUFFICES ASSUME ShapeInv
               PROVE  /\ \A f \in Frames : /\ FrameAt(f) \in Invocations
                                           /\ FrameAt(f) \in Running => FrameAt(f) \in Tokens
                                           /\ f[2] = 2 => FrameAt(f).at = "join"
                      /\ \A r \in Tokens : \E f \in Frames : FrameAt(f) = r
    OBVIOUS
  <1>1. \A P : {f \in Frames : FrameAt(f) \in P} = In(stack, P)
    BY FrameFacts
  <1>2. \A f \in Frames : FrameAt(f) \in Invocations
    BY FrameFacts
  <1>3. ASSUME NEW f \in Frames, FrameAt(f) \in Running PROVE FrameAt(f) \in Tokens
    <2>1. f \in In(stack, {FrameAt(f)})
      BY <1>1
    <2>2. Count({FrameAt(f)}) \in Nat /\ Count({FrameAt(f)}) # 0
      BY <2>1, InFinite, FS_EmptySet DEF Count
    <2>3. Count({FrameAt(f)}) > 0
      BY <2>2
    <2> QED BY <1>3, <2>3 DEF Tokens
  <1>4. ASSUME NEW f \in Frames, f[2] = 2 PROVE FrameAt(f).at = "join"
    <2>1. f[1] \in Workers /\ 2 <= Len(stack[f[1]]) /\ stack[f[1]] \in Stacks
      BY <1>4 DEF Frames, ShapeInv
    <2>2. Len(stack[f[1]]) \in {0, 1, 2}
      BY <2>1, StackFacts
    <2>3. \A n \in {0, 1, 2} : 2 <= n => n = 2
      OBVIOUS
    <2>4. Len(stack[f[1]]) = 2
      BY <2>1, <2>2, <2>3, Zenon
    <2> QED BY <1>4, <2>1, <2>4, StackFacts DEF FrameAt
  <1>5. ASSUME NEW r \in Tokens PROVE \E f \in Frames : FrameAt(f) = r
    <2>1. In(stack, {r}) # {}
      BY FS_EmptySet DEF Tokens, Count
    <2> QED BY <1>1, <2>1
  <1> QED BY <1>2, <1>3, <1>4, <1>5

LEMMA Readings ==
    ShapeInv =>
      /\ Sampling <=> pc = "run" \/ \E t \in Turn : SamplingAt(t[1], t[2])
      /\ Computing <=> \E t \in Turn : ComputingAt(t[1], t[2])
      /\ Updated <=> \E t \in Turn : UpdatedAt(t[1], t[2])
      /\ Unlabelled = next .. N - 1 \cup UNION {Share(w) : w \in Workers}
  <1> SUFFICES ASSUME ShapeInv
               PROVE  /\ Sampling <=> pc = "run" \/ \E t \in Turn : SamplingAt(t[1], t[2])
                      /\ Computing <=> \E t \in Turn : ComputingAt(t[1], t[2])
                      /\ Updated <=> \E t \in Turn : UpdatedAt(t[1], t[2])
                      /\ Unlabelled = next .. N - 1 \cup UNION {Share(w) : w \in Workers}
    OBVIOUS
  <1>1. /\ \A r \in Tokens : \E t \in Turn : t[1] = r.task /\ t[2] = r.at
        /\ \A n \in ready : \E t \in Turn : t[1] = n /\ t[2] = "body"
        /\ \A t \in Turn : \/ \E r \in Tokens : t[1] = r.task /\ t[2] = r.at
                           \/ \E n \in ready : t[1] = n /\ t[2] = "body"
    <2>1. ASSUME NEW r \in Tokens PROVE <<r.task, r.at>> \in Turn
      BY DEF Turn
    <2>2. ASSUME NEW n \in ready PROVE <<n, "body">> \in Turn
      BY DEF Turn
    <2>3. ASSUME NEW t \in Turn
          PROVE  \/ \E r \in Tokens : t[1] = r.task /\ t[2] = r.at
                 \/ \E n \in ready : t[1] = n /\ t[2] = "body"
      BY DEF Turn
    <2> QED BY <2>1, <2>2, <2>3
  <1>2. /\ \A r \in Tokens : r \in Running
        /\ \A f \in Frames : FrameAt(f) \in Running <=>
              FrameAt(f).task \in Nodes /\ FrameAt(f).at \notin {"tear_down", "notify"}
    BY TokenFrames DEF Tokens, Running
  <1>3. /\ \A f \in Frames : FrameAt(f) \in Running => FrameAt(f) \in Tokens
        /\ \A r \in Tokens : \E f \in Frames : FrameAt(f) = r
    BY TokenFrames
  <1>4. Computing <=> \E t \in Turn : ComputingAt(t[1], t[2])
    <2>1. Computing <=> \/ "update_clusters" \in ready
                        \/ \E f \in Frames : ComputingAt(FrameAt(f).task, FrameAt(f).at)
      BY DEF Computing, Between, ComputingAt, Successor
    <2>2. (\E f \in Frames : ComputingAt(FrameAt(f).task, FrameAt(f).at))
             <=> \E r \in Tokens : ComputingAt(r.task, r.at)
      BY <1>2, <1>3 DEF ComputingAt, Leaving, Nodes
    <2>3. (\E n \in ready : ComputingAt(n, "body")) <=> "update_clusters" \in ready
      BY DEF ComputingAt, Leaving
    <2> QED BY <1>1, <2>1, <2>2, <2>3
  <1>5. Updated <=> \E t \in Turn : UpdatedAt(t[1], t[2])
    <2>1. Updated <=> \/ "iterate_while" \in ready
                      \/ \E f \in Frames : UpdatedAt(FrameAt(f).task, FrameAt(f).at)
      BY DEF Updated, Between, UpdatedAt, Successor
    <2>2. (\E f \in Frames : UpdatedAt(FrameAt(f).task, FrameAt(f).at))
             <=> \E r \in Tokens : UpdatedAt(r.task, r.at)
      BY <1>2, <1>3 DEF UpdatedAt, Leaving, Nodes
    <2>3. (\E n \in ready : UpdatedAt(n, "body")) <=> "iterate_while" \in ready
      BY DEF UpdatedAt, Leaving
    <2> QED BY <1>1, <2>1, <2>2, <2>3
  <1>6. Sampling <=> pc = "run" \/ \E t \in Turn : SamplingAt(t[1], t[2])
    <2>1. (\E w \in Workers : At(w, "init", "body"))
             <=> \E f \in Frames : SamplingAt(FrameAt(f).task, FrameAt(f).at)
      <3>1. ASSUME NEW w \in Workers, At(w, "init", "body")
            PROVE  <<w, 1>> \in Frames /\ FrameAt(<<w, 1>>) = Top(w)
        <4>1. stack[w] \in Stacks /\ stack[w] # <<>>
          BY <3>1 DEF ShapeInv, At
        <4>2. 1 <= Len(stack[w])
          BY <4>1, StackFacts
        <4> QED BY <4>2 DEF Frames, FrameAt, Top
      <3>2. ASSUME NEW f \in Frames, SamplingAt(FrameAt(f).task, FrameAt(f).at)
            PROVE  f[1] \in Workers /\ At(f[1], "init", "body")
        <4>1. f[1] \in Workers /\ f[2] \in 1 .. 2 /\ f[2] # 2 /\ f[2] <= Len(stack[f[1]])
          BY <3>2, TokenFrames DEF Frames, SamplingAt
        <4>2. f[2] = 1
          BY <4>1
        <4>3. stack[f[1]] # <<>>
          BY <4>1, <4>2
        <4> QED BY <3>2, <4>1, <4>2, <4>3 DEF At, Top, FrameAt, SamplingAt
      <3> QED BY <3>1, <3>2 DEF At, SamplingAt
    <2>2. (\E f \in Frames : SamplingAt(FrameAt(f).task, FrameAt(f).at))
             <=> \E r \in Tokens : SamplingAt(r.task, r.at)
      BY <1>2, <1>3 DEF SamplingAt, Nodes
    <2>3. (\E n \in ready : SamplingAt(n, "body")) <=> "init" \in ready
      BY DEF SamplingAt
    <2> QED BY <1>1, <2>1, <2>2, <2>3 DEF Sampling
  <1>7. Unlabelled = next .. N - 1 \cup UNION {Share(w) : w \in Workers}
    <2>1. ASSUME NEW f \in Frames, FrameAt(f).at \in {"inline", "rows"}
          PROVE  f[1] \in Workers /\ FrameAt(f).loop .. FrameAt(f).end - 1 = Share(f[1])
      <3>1. f[1] \in Workers /\ f[2] \in 1 .. 2 /\ f[2] # 2 /\ f[2] <= Len(stack[f[1]])
        BY <2>1, TokenFrames DEF Frames
      <3>2. f[2] = 1
        BY <3>1
      <3>3. stack[f[1]] # <<>>
        BY <3>1, <3>2
      <3> QED BY <2>1, <3>1, <3>2, <3>3 DEF Share, RowRange, Top, FrameAt
    <2>2. ASSUME NEW w \in Workers
          PROVE  \/ Share(w) = {}
                 \/ \E f \in Frames : /\ FrameAt(f).at \in {"inline", "rows"}
                                      /\ Share(w) = FrameAt(f).loop .. FrameAt(f).end - 1
      <3>1. CASE stack[w] = <<>>
        BY <3>1 DEF Share
      <3>2. CASE stack[w] # <<>>
        <4>1. 1 <= Len(stack[w])
          BY <3>2, StackFacts DEF ShapeInv
        <4>2. <<w, 1>> \in Frames /\ FrameAt(<<w, 1>>) = Top(w)
          BY <4>1 DEF Frames, FrameAt, Top
        <4> QED BY <3>2, <4>2 DEF Share, RowRange
      <3> QED BY <3>1, <3>2
    <2>3. UNION {FrameAt(f).loop .. FrameAt(f).end - 1 :
                    f \in {g \in Frames : FrameAt(g).at \in {"inline", "rows"}}}
             = UNION {Share(w) : w \in Workers}
      <3> DEFINE F == {g \in Frames : FrameAt(g).at \in {"inline", "rows"}}
                 R(f) == FrameAt(f).loop .. FrameAt(f).end - 1
      <3>1. \A f \in F : f[1] \in Workers /\ R(f) = Share(f[1])
        BY <2>1
      <3>2. \A w \in Workers : Share(w) = {} \/ \E f \in F : Share(w) = R(f)
        BY <2>2
      <3> HIDE DEF F, R
      <3>3. UNION {R(f) : f \in F} = UNION {Share(w) : w \in Workers}
        BY <3>1, <3>2
      <3> QED BY <3>3 DEF F, R
    <2> QED BY <2>3 DEF Unlabelled
  <1> QED BY <1>4, <1>5, <1>6, <1>7

-----------------------------------------------------------------------------
FitVars == <<FitPhase, centroids, labels, FitTodo, FitIteration, before>>
Refined == Fitting!Next \/ UNCHANGED FitVars

LEMMA SameVars == UNCHANGED FitVars <=> UNCHANGED Fitting!vars
  BY DEF FitVars, Fitting!vars

(* The instance has the operators of Lloyd under names of its own. *)
LEMMA SameSets == Fitting!Rows = Rows /\ Fitting!Clusters = Clusters /\ Fitting!Coords = Coords
  BY DEF Fitting!Rows, Rows, Fitting!Clusters, Clusters, Fitting!Coords, Coords

LEMMA SameL2 == \A p, c : Fitting!L2(p, c) = L2(p, c)
  BY DEF Fitting!L2, L2, Fitting!Coords, Coords, MapThenSumSet, Fitting!MapThenSumSet,
     MapThenFoldSet, Fitting!MapThenFoldSet

LEMMA SameNearest == \A p, j, c : Fitting!IsNearest(p, j, c) <=> IsNearest(p, j, c)
  BY SameL2, SameSets
  DEF Fitting!IsNearest, IsNearest, Fitting!Less, Less, Fitting!FloatMaxDistance,
      FloatMaxDistance

LEMMA SameSampled ==
    /\ \A i : Fitting!SampledCentroids(i) = SampledCentroids(i)
    /\ Fitting!ZeroCentroids = ZeroCentroids
  BY SameSets
  DEF Fitting!SampledCentroids, SampledCentroids, Fitting!PointAsCentroid, PointAsCentroid,
      Fitting!ZeroCentroids, ZeroCentroids, Fitting!ZeroVector, ZeroVector

LEMMA SameMeans == \A l : Fitting!Means(l) = Means(l)
  <1>1. \A l, k : Fitting!Members(l, k) = Members(l, k)
    BY SameSets DEF Fitting!Members, Members
  <1>2. \A l, k : Fitting!ClusterSum(l, k) = ClusterSum(l, k)
    BY DEF Fitting!ClusterSum, ClusterSum, Fitting!Members, Members, Fitting!Coords, Coords,
       Fitting!Rows, Rows, MapThenSumSet, Fitting!MapThenSumSet, MapThenFoldSet,
       Fitting!MapThenFoldSet
  <1>3. \A S : Fitting!Cardinality(S) = Cardinality(S)
    BY DEF Fitting!Cardinality, Cardinality, Fitting!IsFiniteSet, IsFiniteSet
  <1> QED BY <1>1, <1>2, <1>3, SameSets DEF Fitting!Means, Means, Fitting!Mean, Mean

LEMMA SameInjection == \A S, U : Fitting!Injection(S, U) = Injection(S, U)
  BY DEF Fitting!Injection, Injection, Fitting!IsInjective, IsInjective

(* The mapping, while the graph runs. *)
LEMMA View ==
    IInv /\ pc = "wait" =>
      /\ \A n, a : Turn = {<<n, a>>} =>
           /\ FitPhase = IF SamplingAt(n, a) THEN "sampling" ELSE "rounds"
           /\ FitTodo = IF ComputingAt(n, a) THEN Unlabelled ELSE Rows
           /\ FitIteration = IF SamplingAt(n, a) THEN IF before THEN M + 1 ELSE 0
                             ELSE IF UpdatedAt(n, a) THEN m + 1 ELSE m
      /\ Turn = {} => FitPhase = "rounds" /\ FitTodo = Rows /\ FitIteration = m
  <1> SUFFICES ASSUME IInv, pc = "wait"
               PROVE  /\ \A n, a : Turn = {<<n, a>>} =>
                           /\ FitPhase = IF SamplingAt(n, a) THEN "sampling" ELSE "rounds"
                           /\ FitTodo = IF ComputingAt(n, a) THEN Unlabelled ELSE Rows
                           /\ FitIteration = IF SamplingAt(n, a)
                                             THEN IF before THEN M + 1 ELSE 0
                                             ELSE IF UpdatedAt(n, a) THEN m + 1 ELSE m
                      /\ Turn = {} => FitPhase = "rounds" /\ FitTodo = Rows /\ FitIteration = m
    OBVIOUS
  <1>1. /\ Sampling <=> \E t \in Turn : SamplingAt(t[1], t[2])
        /\ Computing <=> \E t \in Turn : ComputingAt(t[1], t[2])
        /\ Updated <=> \E t \in Turn : UpdatedAt(t[1], t[2])
    BY Readings DEF IInv
  <1>2. ASSUME ~ (Sampling /\ Updated)
        PROVE  /\ FitPhase = IF Sampling THEN "sampling" ELSE "rounds"
               /\ FitTodo = IF Computing THEN Unlabelled ELSE Rows
               /\ FitIteration = IF Sampling THEN IF before THEN M + 1 ELSE 0
                                 ELSE IF Updated THEN m + 1 ELSE m
    BY <1>2 DEF FitPhase, FitTodo, FitIteration
  <1>3. ASSUME NEW n, NEW a, Turn = {<<n, a>>}
        PROVE  /\ Sampling <=> SamplingAt(n, a)
               /\ Computing <=> ComputingAt(n, a)
               /\ Updated <=> UpdatedAt(n, a)
    <2>1. \A t \in Turn : t[1] = n /\ t[2] = a
      BY <1>3
    <2>2. <<n, a>> \in Turn
      BY <1>3
    <2> QED BY <1>1, <2>1, <2>2
  <1>4. ASSUME NEW n, NEW a, Turn = {<<n, a>>}
        PROVE  /\ FitPhase = IF SamplingAt(n, a) THEN "sampling" ELSE "rounds"
               /\ FitTodo = IF ComputingAt(n, a) THEN Unlabelled ELSE Rows
               /\ FitIteration = IF SamplingAt(n, a) THEN IF before THEN M + 1 ELSE 0
                                 ELSE IF UpdatedAt(n, a) THEN m + 1 ELSE m
    <2>1. ~ (SamplingAt(n, a) /\ UpdatedAt(n, a))
      BY DEF SamplingAt, UpdatedAt
    <2> QED BY <1>2, <1>3, <1>4, <2>1
  <1>5. Turn = {} => ~ Sampling /\ ~ Computing /\ ~ Updated
    BY <1>1
  <1> QED BY <1>2, <1>4, <1>5

LEMMA ViewNext ==
    ASSUME IInv', pc' = "wait"
    PROVE  /\ \A n, a : Turn' = {<<n, a>>} =>
                /\ FitPhase' = IF SamplingAt(n, a) THEN "sampling" ELSE "rounds"
                /\ FitTodo' = IF ComputingAt(n, a) THEN Unlabelled' ELSE Rows
                /\ FitIteration' = IF SamplingAt(n, a) THEN IF before' THEN M + 1 ELSE 0
                                   ELSE IF UpdatedAt(n, a) THEN m' + 1 ELSE m'
           /\ Turn' = {} => FitPhase' = "rounds" /\ FitTodo' = Rows /\ FitIteration' = m'
  <1>1. (IInv /\ pc = "wait" =>
           /\ \A n, a : Turn = {<<n, a>>} =>
                /\ FitPhase = IF SamplingAt(n, a) THEN "sampling" ELSE "rounds"
                /\ FitTodo = IF ComputingAt(n, a) THEN Unlabelled ELSE Rows
                /\ FitIteration = IF SamplingAt(n, a) THEN IF before THEN M + 1 ELSE 0
                                  ELSE IF UpdatedAt(n, a) THEN m + 1 ELSE m
           /\ Turn = {} => FitPhase = "rounds" /\ FitTodo = Rows /\ FitIteration = m)'
    BY View, PTL
  <1> QED BY <1>1

LEMMA ReadingsNext ==
    ASSUME IInv'
    PROVE  /\ Sampling' <=> pc' = "run" \/ \E t \in Turn' : SamplingAt(t[1], t[2])
           /\ Computing' <=> \E t \in Turn' : ComputingAt(t[1], t[2])
           /\ Updated' <=> \E t \in Turn' : UpdatedAt(t[1], t[2])
           /\ Unlabelled' = next' .. N - 1 \cup UNION {Share(w)' : w \in Workers}
  <1>1. (ShapeInv => 
           /\ Sampling <=> pc = "run" \/ \E t \in Turn : SamplingAt(t[1], t[2])
           /\ Computing <=> \E t \in Turn : ComputingAt(t[1], t[2])
           /\ Updated <=> \E t \in Turn : UpdatedAt(t[1], t[2])
           /\ Unlabelled = next .. N - 1 \cup UNION {Share(w) : w \in Workers})'
    BY Readings, PTL
  <1> QED BY <1>1 DEF IInv

LEMMA UnlabelledNext ==
    ASSUME IInv'
    PROVE  Unlabelled' = next' .. N - 1 \cup UNION {Share(w)' : w \in Workers}
  BY ReadingsNext

-----------------------------------------------------------------------------
(* A worker moves the turn along in the task it runs. *)
LEMMA TurnMoves ==
    ASSUME IInv, IInv', NEW w \in Workers, NEW f \in Invocations, stack[w] # <<>>, Put(w, f),
           f.task = Top(w).task, Top(w) \in Running, f \in Running, UNCHANGED ready
    PROVE  /\ pc = "wait" /\ pc' = "wait" /\ ready = {}
           /\ Tokens = {Top(w)} /\ Turn = {<<Top(w).task, Top(w).at>>}
           /\ Tokens' = {f} /\ Turn' = {<<f.task, f.at>>}
           /\ Count(RowTasks)' = Count(RowTasks)
           /\ stack'[w] # <<>> /\ Top(w)' = f /\ Share(w)' = RowRange(f)
           /\ \A v \in Workers \ {w} : stack'[v] = stack[v] /\ Share(v)' = Share(v)
  <1>1. Tokens = {Top(w)} /\ ready = {} /\ Turn = {<<Top(w).task, Top(w).at>>}
    BY TurnTop
  <1>2. /\ stack'[w] # <<>> /\ Top(w)' = f /\ Share(w)' = RowRange(f)
        /\ \A v \in Workers \ {w} : stack'[v] = stack[v] /\ Share(v)' = Share(v)
        /\ Count(RowTasks)' = Count(RowTasks)
        /\ Tokens' = {r \in Running : r = f}
    BY PutMoves
  <1>3. Tokens' = {f}
    BY <1>2
  <1>4. Turn' = {<<f.task, f.at>>}
    BY <1>1, <1>3 DEF Turn
  <1>5. pc = "wait" /\ pc' = "wait"
    BY <1>2 DEF IInv, ShapeInv
  <1> QED BY <1>1, <1>2, <1>3, <1>4, <1>5

(* Where no row task is and the rows are not labelled inline, no worker    *)
(* has a share of them.                                                    *)
LEMMA NoShares ==
    ASSUME IInv, Count(RowTasks) = 0, \A t \in Turn : t[2] # "inline"
    PROVE  \A v \in Workers : Share(v) = {} /\ ~ At(v, "chunk", "tear_down")
  <1> SUFFICES ASSUME NEW v \in Workers, stack[v] # <<>>
               PROVE  Share(v) = {} /\ ~ At(v, "chunk", "tear_down")
    BY DEF Share, At
  <1>1. Top(v) \in Invocations
    BY TopFacts DEF IInv
  <1>2. Top(v).task # "chunk"
    <2>1. Top(v) \in RowTasks => Count(RowTasks) > 0
      BY Counts DEF IInv
    <2> QED BY <1>1, <2>1 DEF RowTasks
  <1>3. Top(v).at # "inline"
    <2> SUFFICES ASSUME Top(v).at = "inline" PROVE FALSE
      OBVIOUS
    <2>1. Top(v).task \in Nodes
      BY <1>1, <1>2 DEF Invocations, FrameType
    <2>2. Top(v) \in Running
      BY <1>1, <2>1 DEF Running
    <2>3. Turn = {<<Top(v).task, "inline">>}
      BY <2>2, TurnTop
    <2>4. <<Top(v).task, "inline">> \in Turn
      BY <2>3
    <2> QED BY <2>4
  <1>4. Top(v).at # "rows"
    BY <1>1, <1>2 DEF Invocations
  <1> QED BY <1>2, <1>3, <1>4 DEF Share, RowRange, At

LEMMA SharesKept ==
    ASSUME ShareInv, NEW w \in Workers, next' = next, Share(w)' \subseteq Share(w),
           At(w, "chunk", "tear_down")' => next = N,
           \A v \in Workers \ {w} : stack'[v] = stack[v] /\ Share(v)' = Share(v)
    PROVE  ShareInv'
  <1>1. \A v \in Workers : Share(v)' \subseteq Share(v)
    OBVIOUS
  <1>2. \A v \in Workers : At(v, "chunk", "tear_down")' => next = N
    BY DEF At, Top, ShareInv
  <1> QED BY <1>1, <1>2 DEF ShareInv

LEMMA SameUnlabelled ==
    ASSUME IInv, IInv', next' = next, \A v \in Workers : Share(v)' = Share(v)
    PROVE  Unlabelled' = Unlabelled
  <1>1. Unlabelled = next .. N - 1 \cup UNION {Share(v) : v \in Workers}
    BY Readings DEF IInv
  <1>2. Unlabelled' = next' .. N - 1 \cup UNION {Share(v)' : v \in Workers}
    BY UnlabelledNext
  <1> QED BY <1>1, <1>2

LEMMA RoundAt ==
    ASSUME pc' = "wait", m' \in 0 .. M + 1, NEW n, NEW a, Turn' = {<<n, a>>}, TurnAt(n, a)'
    PROVE  RoundInv'
  <1>1. \A t \in Turn' : t[1] = n /\ t[2] = a
    OBVIOUS
  <1>2. \A t \in Turn' : TurnAt(t[1], t[2])'
    BY <1>1
  <1> QED BY <1>2 DEF RoundInv

LEMMA RoundAtNow ==
    ASSUME RoundInv, NEW n, NEW a, <<n, a>> \in Turn
    PROVE  TurnAt(n, a) /\ m \in 0 .. M + 1
  BY DEF RoundInv

-----------------------------------------------------------------------------
(* The bodies of the tasks but compute_centroids. *)
LEMMA BodyMoves ==
    ASSUME IInv, IInv', FitInv, NEW w \in Workers,
           NEW n \in {"init", "clean_up", "update_clusters", "iterate_while"},
           At(w, n, "body"), NEW b \in BOOLEAN,
           Put(w, [Top(w) EXCEPT !.at = "recover", !.released = b]), Still, UNCHANGED next
    PROVE  /\ pc = "wait" /\ pc' = "wait"
           /\ Turn = {<<n, "body">>} /\ Turn' = {<<n, "recover">>}
           /\ n # "iterate_while" => Top(w).released
           /\ (n # "iterate_while" => b) /\ (n = "iterate_while" => (b <=> m' <= M))
                => TokensInv'
           /\ ShareInv' /\ JoinInv' /\ \A v \in Workers : Share(v) = {}
  <1> DEFINE f == [Top(w) EXCEPT !.at = "recover", !.released = b]
  <1>1. Top(w) \in Invocations /\ Top(w).task = n /\ Top(w).at = "body" /\ stack[w] # <<>>
    BY TopFacts DEF IInv, At
  <1>2. f \in FrameType /\ f.task = n /\ f.at = "recover" /\ f.released = b
    BY <1>1 DEF Invocations, FrameType
  <1>3. Put(w, f) /\ ready' = ready /\ join_counter' = join_counter /\ pc' = pc
    BY StillFacts
  <1> HIDE DEF f
  <1>4. n \in Nodes /\ f \in Invocations
    BY <1>2 DEF Nodes, Invocations
  <1>5. f \in Running /\ Top(w) \in Running /\ Top(w) \notin Sharing
    BY <1>1, <1>2, <1>4 DEF Running, Sharing
  <1>6. /\ pc = "wait" /\ pc' = "wait" /\ ready = {}
        /\ Tokens = {Top(w)} /\ Turn = {<<n, "body">>}
        /\ Tokens' = {f} /\ Turn' = {<<n, "recover">>}
        /\ Top(w)' = f /\ Share(w)' = RowRange(f)
        /\ \A v \in Workers \ {w} : stack'[v] = stack[v] /\ Share(v)' = Share(v)
    BY <1>1, <1>2, <1>3, <1>4, <1>5, TurnMoves
  <1>7. n # "iterate_while" => Top(w).released
    BY <1>1, <1>6 DEF FitInv, TokensInv, TokenInv
  <1>8. \A v \in Workers : Share(v) = {}
    <2>1. Count(RowTasks) = 0
      BY <1>1, <1>5, NoSharing
    <2>2. \A t \in Turn : t[2] # "inline"
      BY <1>6
    <2> QED BY <2>1, <2>2, NoShares
  <1>9. ShareInv'
    <2>1. Share(w)' \subseteq Share(w)
      BY <1>2, <1>6 DEF RowRange
    <2>2. ~ At(w, "chunk", "tear_down")'
      BY <1>2, <1>6 DEF At
    <2> QED BY <1>6, <2>1, <2>2, SharesKept DEF FitInv
  <1>10. JoinInv'
    <2>1. \A k : Pending(<<n, "body">>, k) => Pending(<<n, "recover">>, k)
      BY DEF Pending
    <2> QED BY <1>3, <1>6, <2>1 DEF FitInv, JoinInv
  <1>11. ASSUME n # "iterate_while" => b, n = "iterate_while" => (b <=> m' <= M)
         PROVE  TokensInv'
    BY <1>2, <1>6, <1>11 DEF TokensInv, TokenInv
  <1> QED BY <1>6, <1>7, <1>8, <1>9, <1>10, <1>11

(* The three bodies that leave released as it was. *)
LEMMA PlainBody ==
    ASSUME IInv, IInv', FitInv, NEW w \in Workers,
           NEW n \in {"init", "clean_up", "update_clusters"},
           At(w, n, "body"), GoTo(w, "recover"), Still, UNCHANGED next
    PROVE  /\ pc = "wait" /\ pc' = "wait"
           /\ Turn = {<<n, "body">>} /\ Turn' = {<<n, "recover">>}
           /\ TokensInv' /\ ShareInv' /\ JoinInv' /\ \A v \in Workers : Share(v) = {}
  <1>1. Top(w) \in Invocations /\ Top(w).released \in BOOLEAN
    BY TopFacts DEF IInv, At, Invocations, FrameType
  <1>2. [Top(w) EXCEPT !.at = "recover"]
           = [Top(w) EXCEPT !.at = "recover", !.released = Top(w).released]
    BY <1>1 DEF Invocations, FrameType
  <1>3. Put(w, [Top(w) EXCEPT !.at = "recover", !.released = Top(w).released])
    BY <1>2 DEF GoTo
  <1>4. n \in {"init", "clean_up", "update_clusters", "iterate_while"} /\ n # "iterate_while"
    OBVIOUS
  <1> QED BY <1>1, <1>3, <1>4, BodyMoves

LEMMA FitInit ==
    ASSUME IInv, IInv', FitInv, NEW w \in Workers, InitBody(w)
    PROVE FitInv' /\ Refined
  <1>1. PICK indices \in Injection(Clusters, Rows) : centroids' = SampledCentroids(indices)
    BY DEF InitBody
  <1>2. /\ At(w, "init", "body") /\ GoTo(w, "recover") /\ Still
        /\ UNCHANGED <<labels, sums, counts, m, next, before>>
    BY DEF InitBody, Still
  <1>3. /\ pc = "wait" /\ pc' = "wait"
        /\ Turn = {<<"init", "body">>} /\ Turn' = {<<"init", "recover">>}
        /\ TokensInv' /\ ShareInv' /\ JoinInv'
    BY <1>2, PlainBody
  <1>4. TurnAt("init", "body")
    BY <1>3 DEF FitInv, RoundInv
  <1>5. RoundInv'
    <2>1. TurnAt("init", "recover")' /\ m' \in 0 .. M + 1
      BY <1>2, <1>4, TaskflowAssumption DEF TurnAt
    <2> QED BY <1>3, <2>1, RoundAt
  <1>6. ArrayInv'
    <2>1. indices \in [Clusters -> Rows]
      BY <1>1 DEF Injection
    <2>2. centroids' \in [Clusters -> Centroid]
      BY <1>1, <2>1, SampledType
    <2> QED BY <1>2, <2>2 DEF FitInv, ArrayInv
  <1>7. Fitting!Sample
    <2>1. FitPhase = "sampling"
      BY <1>3, View DEF SamplingAt
    <2>2. FitPhase' = "rounds" /\ FitTodo' = Rows /\ FitIteration' = 0
      <3>1. /\ ~ SamplingAt("init", "recover") /\ ~ ComputingAt("init", "recover")
            /\ ~ UpdatedAt("init", "recover")
        BY DEF SamplingAt, ComputingAt, UpdatedAt
      <3>2. m' = 0
        BY <1>2, <1>4 DEF TurnAt
      <3> QED BY <1>3, <3>1, <3>2, ViewNext
    <2> QED BY <1>1, <1>2, <2>1, <2>2, SameSets, SameSampled, SameInjection DEF Fitting!Sample
  <1> QED BY <1>3, <1>5, <1>6, <1>7 DEF FitInv, Refined, Fitting!Next

LEMMA FitCleanUp ==
    ASSUME IInv, IInv', FitInv, NEW w \in Workers, CleanUpBody(w) PROVE FitInv' /\ Refined
  <1>1. /\ At(w, "clean_up", "body") /\ GoTo(w, "recover") /\ Still
        /\ sums' = ZeroSums /\ counts' = ZeroCounts
        /\ UNCHANGED <<centroids, labels, m, next, before>>
    BY DEF CleanUpBody, Still
  <1>2. /\ pc = "wait" /\ pc' = "wait"
        /\ Turn = {<<"clean_up", "body">>} /\ Turn' = {<<"clean_up", "recover">>}
        /\ TokensInv' /\ ShareInv' /\ JoinInv'
    BY <1>1, PlainBody
  <1>3. RoundInv'
    <2>1. TurnAt("clean_up", "body")
      BY <1>2 DEF FitInv, RoundInv
    <2>2. m' <= M /\ Cleared'
      BY <1>1, <2>1 DEF TurnAt, Cleared
    <2>3. TurnAt("clean_up", "recover")' /\ m' \in 0 .. M + 1
      BY <1>1, <2>2 DEF TurnAt, FitInv, RoundInv
    <2> QED BY <1>2, <2>3, RoundAt
  <1>4. ArrayInv'
    <2>1. ZeroSums \in [Clusters -> Vector] /\ ZeroCounts \in [Clusters -> Nat]
      BY DEF ZeroSums, ZeroCounts, ZeroVector, Vector
    <2> QED BY <1>1, <2>1 DEF FitInv, ArrayInv
  <1>5. UNCHANGED FitVars
    <2>1. FitPhase = "rounds" /\ FitTodo = Rows /\ FitIteration = m
      BY <1>2, View DEF SamplingAt, ComputingAt, UpdatedAt
    <2>2. FitPhase' = "rounds" /\ FitTodo' = Rows /\ FitIteration' = m'
      BY <1>2, ViewNext DEF SamplingAt, ComputingAt, UpdatedAt
    <2> QED BY <1>1, <2>1, <2>2 DEF FitVars
  <1> QED BY <1>2, <1>3, <1>4, <1>5 DEF FitInv, Refined

LEMMA FitUpdate ==
    ASSUME IInv, IInv', FitInv, NEW w \in Workers, UpdateBody(w) PROVE FitInv' /\ Refined
  <1>1. /\ At(w, "update_clusters", "body") /\ GoTo(w, "recover") /\ Still
        /\ sums' = [k \in Clusters |-> VectorSum(sums[k], ClusterSum(labels, k))]
        /\ counts' = [k \in Clusters |-> counts[k] + Cardinality(Members(labels, k))]
        /\ centroids' = [k \in Clusters |-> Mean(sums'[k], counts'[k])]
        /\ UNCHANGED <<labels, m, next, before>>
    BY DEF UpdateBody, Still
  <1>2. /\ pc = "wait" /\ pc' = "wait"
        /\ Turn = {<<"update_clusters", "body">>} /\ Turn' = {<<"update_clusters", "recover">>}
        /\ TokensInv' /\ ShareInv' /\ JoinInv' /\ \A v \in Workers : Share(v) = {}
    BY <1>1, PlainBody
  <1>3. m <= M /\ Cleared /\ next = N
    <2>1. TurnAt("update_clusters", "body")
      BY <1>2 DEF FitInv, RoundInv
    <2> QED BY <2>1 DEF TurnAt, Leaving
  <1>4. RoundInv'
    <2>1. TurnAt("update_clusters", "recover")' /\ m' \in 0 .. M + 1
      BY <1>1, <1>3 DEF TurnAt, FitInv, RoundInv
    <2> QED BY <1>2, <2>1, RoundAt
  <1>5. \A k \in Clusters : /\ sums'[k] = ClusterSum(labels, k) /\ sums'[k] \in Vector
                            /\ counts'[k] = Cardinality(Members(labels, k)) /\ counts'[k] \in Nat
    <2> SUFFICES ASSUME NEW k \in Clusters
                 PROVE  /\ sums'[k] = ClusterSum(labels, k) /\ sums'[k] \in Vector
                        /\ counts'[k] = Cardinality(Members(labels, k)) /\ counts'[k] \in Nat
      OBVIOUS
    <2>1. ClusterSum(labels, k) \in Vector
      BY ClusterSumType
    <2>2. VectorSum(ZeroVector, ClusterSum(labels, k)) = ClusterSum(labels, k)
      <3> DEFINE v == ClusterSum(labels, k)
      <3>1. v \in [Coords -> Int]
        BY <2>1 DEF Vector
      <3> HIDE DEF v
      <3>2. [d \in Coords |-> 0 + v[d]] = v
        BY <3>1
      <3> QED BY <3>2 DEF VectorSum, ZeroVector, v
    <2>3. Cardinality(Members(labels, k)) \in Nat
      BY MembersFinite
    <2>4. sums[k] = ZeroVector /\ counts[k] = 0
      BY <1>3 DEF Cleared, ZeroSums, ZeroCounts
    <2> QED BY <1>1, <2>1, <2>2, <2>3, <2>4
  <1>6. centroids' = Means(labels)
    BY <1>1, <1>5 DEF Means
  <1>7. ArrayInv'
    <2>1. sums' \in [Clusters -> Vector] /\ counts' \in [Clusters -> Nat]
      BY <1>1, <1>5
    <2>2. centroids' \in [Clusters -> Centroid]
      BY <1>6, MeansType
    <2> QED BY <1>1, <2>1, <2>2 DEF FitInv, ArrayInv
  <1>8. Fitting!UpdateCentroids
    <2>1. FitPhase = "rounds" /\ FitTodo = Unlabelled /\ FitIteration = m
      BY <1>2, View DEF SamplingAt, ComputingAt, UpdatedAt, Leaving
    <2>2. Unlabelled = {}
      <3>1. Unlabelled = next .. N - 1 \cup UNION {Share(v) : v \in Workers}
        BY Readings DEF IInv
      <3>2. next .. N - 1 = {}
        BY <1>3, LloydAssumption
      <3> QED BY <1>2, <3>1, <3>2
    <2>3. FitPhase' = "rounds" /\ FitTodo' = Rows /\ FitIteration' = m' + 1
      BY <1>2, ViewNext DEF SamplingAt, ComputingAt, UpdatedAt, Leaving
    <2>4. m < M + 1
      BY <1>3, TaskflowAssumption DEF FitInv, RoundInv
    <2> QED BY <1>1, <1>6, <2>1, <2>2, <2>3, <2>4, SameSets, SameMeans DEF Fitting!UpdateCentroids
  <1> QED BY <1>2, <1>4, <1>7, <1>8 DEF FitInv, Refined, Fitting!Next

LEMMA FitIterate ==
    ASSUME IInv, IInv', FitInv, NEW w \in Workers, IterateBody(w) PROVE FitInv' /\ Refined
  <1>1. /\ At(w, "iterate_while", "body") /\ Still /\ m' = m + 1
        /\ Put(w, [Top(w) EXCEPT !.at = "recover", !.released = m < M])
        /\ UNCHANGED <<centroids, labels, sums, counts, next, before>>
    BY DEF IterateBody, Still, arrays
  <1>2. /\ pc = "wait" /\ pc' = "wait"
        /\ Turn = {<<"iterate_while", "body">>} /\ Turn' = {<<"iterate_while", "recover">>}
        /\ ((m < M) <=> m' <= M) => TokensInv'
        /\ ShareInv' /\ JoinInv'
    <2>1. (m < M) \in BOOLEAN
      OBVIOUS
    <2> QED BY <1>1, <2>1, BodyMoves
  <1>3. m \in Nat /\ m <= M /\ M \in Nat
    <2>1. TurnAt("iterate_while", "body")
      BY <1>2 DEF FitInv, RoundInv
    <2> QED BY <2>1, TaskflowAssumption DEF FitInv, RoundInv, TurnAt, Leaving
  <1>4. RoundInv'
    <2>1. TurnAt("iterate_while", "recover")' /\ m' \in 0 .. M + 1
      BY <1>1, <1>3 DEF TurnAt, Leaving
    <2> QED BY <1>2, <2>1, RoundAt
  <1>5. TokensInv'
    BY <1>1, <1>2, <1>3
  <1>6. UNCHANGED FitVars
    <2>1. FitPhase = "rounds" /\ FitTodo = Rows /\ FitIteration = m + 1
      BY <1>2, View DEF SamplingAt, ComputingAt, UpdatedAt
    <2>2. FitPhase' = "rounds" /\ FitTodo' = Rows /\ FitIteration' = m'
      BY <1>2, ViewNext DEF SamplingAt, ComputingAt, UpdatedAt
    <2> QED BY <1>1, <2>1, <2>2 DEF FitVars
  <1> QED BY <1>1, <1>2, <1>4, <1>5, <1>6 DEF FitInv, ArrayInv, Refined

-----------------------------------------------------------------------------
(* compute_centroids, up to its recovery. *)
LEMMA ComputeMoves ==
    ASSUME IInv, IInv', FitInv, NEW w \in Workers, NEW a \in {"body", "inline", "spawn", "join"},
           At(w, "compute_centroids", a), NEW f \in FrameType, Put(w, f),
           f.task = "compute_centroids", f.at \in {"inline", "spawn", "join", "recover"},
           UNCHANGED <<ready, m, sums, counts>>,
           f.at \in {"inline", "recover"} => next' = N
    PROVE  /\ Top(w) \in FrameType /\ Top(w) \in Invocations /\ f \in Invocations
           /\ pc = "wait" /\ pc' = "wait" /\ ready = {}
           /\ Tokens = {Top(w)} /\ Turn = {<<"compute_centroids", a>>}
           /\ Tokens' = {f} /\ Turn' = {<<"compute_centroids", f.at>>}
           /\ Count(RowTasks)' = Count(RowTasks)
           /\ Share(w) = RowRange(Top(w)) /\ Share(w)' = RowRange(f)
           /\ ~ At(w, "chunk", "tear_down")'
           /\ \A v \in Workers \ {w} : stack'[v] = stack[v] /\ Share(v)' = Share(v)
           /\ RoundInv' /\ TokenInv(Top(w)) /\ Top(w) \in Running
           /\ (Top(w) \in Settled => join_counter["compute_centroids"] = Left)
  <1>1. /\ Top(w) \in Invocations /\ Top(w).task = "compute_centroids" /\ Top(w).at = a
        /\ stack[w] # <<>>
    BY TopFacts DEF IInv, At
  <1>2. "compute_centroids" \in Nodes /\ Top(w) \in FrameType /\ f \in Invocations
    BY <1>1 DEF Nodes, Invocations
  <1>3. f \in Running /\ Top(w) \in Running
    BY <1>1, <1>2 DEF Running
  <1>4. /\ pc = "wait" /\ pc' = "wait" /\ ready = {}
        /\ Tokens = {Top(w)} /\ Turn = {<<"compute_centroids", a>>}
        /\ Tokens' = {f} /\ Turn' = {<<"compute_centroids", f.at>>}
        /\ Count(RowTasks)' = Count(RowTasks)
        /\ stack'[w] # <<>> /\ Top(w)' = f /\ Share(w)' = RowRange(f)
        /\ \A v \in Workers \ {w} : stack'[v] = stack[v] /\ Share(v)' = Share(v)
    BY <1>1, <1>2, <1>3, TurnMoves
  <1>5. TurnAt("compute_centroids", a) /\ m \in 0 .. M + 1
    BY <1>4, RoundAtNow DEF FitInv
  <1>6. RoundInv'
    <2>1. m <= M /\ Cleared
      BY <1>5 DEF TurnAt
    <2>2. TurnAt("compute_centroids", f.at)'
      BY <2>1 DEF TurnAt, Cleared, Leaving
    <2> QED BY <1>4, <1>5, <2>2, RoundAt
  <1>7. TokenInv(Top(w))
    BY <1>4 DEF FitInv, TokensInv
  <1>8. Share(w) = RowRange(Top(w))
    BY <1>1 DEF Share
  <1>9. ~ At(w, "chunk", "tear_down")'
    BY <1>4 DEF At
  <1>10. Top(w) \in Settled => join_counter["compute_centroids"] = Left
    BY <1>1, Counts DEF IInv, RowTaskInv, Left
  <1> QED BY <1>1, <1>2, <1>3, <1>4, <1>6, <1>7, <1>8, <1>9, <1>10

(* The join counter of compute_centroids is its own until its recovery. *)
LEMMA ComputeJoin ==
    ASSUME FitInv, pc' = "wait", NEW a, NEW b \in {"body", "inline", "spawn", "join", "recover"},
           Turn = {<<"compute_centroids", a>>}, Turn' = {<<"compute_centroids", b>>},
           pc = "wait", a \in {"body", "inline", "spawn", "join"},
           NEW k \in 0 .. MaxWorkers,
           join_counter' = [join_counter EXCEPT !["compute_centroids"] = k]
    PROVE  JoinInv'
  <1>1. join_counter \in [Nodes -> 0 .. MaxWorkers]
    BY DEF FitInv, JoinInv
  <1>2. join_counter' \in [Nodes -> 0 .. MaxWorkers]
    BY <1>1
  <1>3. ASSUME NEW n \in Nodes \ {"init"}
        PROVE  join_counter'[n] = 1 \/ \E t \in Turn' : Pending(t, n)
    <2>1. CASE n = "compute_centroids"
      <3>1. Pending(<<"compute_centroids", b>>, n)
        BY <2>1 DEF Pending
      <3> QED BY <3>1
    <2>2. CASE n # "compute_centroids"
      <3>1. join_counter'[n] = join_counter[n]
        BY <1>1, <2>2
      <3>2. ~ Pending(<<"compute_centroids", a>>, n)
        BY <2>2 DEF Pending
      <3>3. \A t \in Turn : ~ Pending(t, n)
        BY <3>2
      <3> QED BY <3>1, <3>3 DEF FitInv, JoinInv
    <2> QED BY <2>1, <2>2
  <1> QED BY <1>2, <1>3 DEF JoinInv

LEMMA ComputeSame ==
    ASSUME FitInv, pc' = "wait", NEW a, NEW b \in {"body", "inline", "spawn", "join", "recover"},
           Turn = {<<"compute_centroids", a>>}, Turn' = {<<"compute_centroids", b>>},
           pc = "wait", a \in {"body", "inline", "spawn", "join"}, UNCHANGED join_counter
    PROVE  JoinInv'
  <1>1. join_counter \in [Nodes -> 0 .. MaxWorkers] /\ "compute_centroids" \in Nodes
    BY DEF FitInv, JoinInv, Nodes
  <1>2. join_counter' = [join_counter EXCEPT !["compute_centroids"]
                                             = join_counter["compute_centroids"]]
    BY <1>1
  <1>3. join_counter["compute_centroids"] \in 0 .. MaxWorkers
    BY <1>1
  <1> QED BY <1>2, <1>3, ComputeJoin

LEMMA FitCompute ==
    ASSUME IInv, IInv', FitInv, NEW w \in Workers, ComputeBody(w) PROVE FitInv' /\ Refined
  <1> DEFINE tasks == IF N < num_of_threads THEN N ELSE num_of_threads
  <1>1. /\ At(w, "compute_centroids", "body")
        /\ UNCHANGED <<centroids, labels, sums, counts, m, join_counter, ready, ready_chunks,
                       before>>
        /\ \/ /\ Put(w, [Top(w) EXCEPT !.at = "inline", !.end = N]) /\ next' = N
           \/ /\ Put(w, [Top(w) EXCEPT !.at = "spawn", !.end = tasks]) /\ next' = 0
              /\ num_of_threads > 1 /\ N > 1
    <2>1. num_of_threads \in Nat /\ N \in Nat
      BY LloydAssumption, TaskflowAssumption DEF IInv, ShapeInv, Workers
    <2> QED BY <2>1 DEF ComputeBody, arrays, counters, queues
  <1>2. /\ Top(w) \in FrameType /\ Top(w).task = "compute_centroids" /\ Top(w).at = "body"
        /\ N \in Nat /\ tasks \in Nat /\ tasks <= MaxWorkers
        /\ num_of_threads > 1 /\ N > 1 => tasks > 0
    <2>1. Top(w) \in Invocations
      BY <1>1, TopFacts DEF IInv, At
    <2>2. num_of_threads \in Nat /\ N \in Nat /\ num_of_threads <= MaxWorkers
          /\ MaxWorkers \in Nat
      BY LloydAssumption, TaskflowAssumption DEF IInv, ShapeInv, Workers
    <2> QED BY <1>1, <2>1, <2>2 DEF At, Invocations
  <1> HIDE DEF tasks
  <1>3. ArrayInv'
    BY <1>1 DEF FitInv, ArrayInv
  <1>4. /\ Turn = {<<"compute_centroids", "body">>} => Top(w).loop = 0 /\ Top(w).released
        /\ ready_chunks = 0 /\ Count(RowTasks) = 0
        /\ \A v \in Workers : Share(v) = {} /\ ~ At(v, "chunk", "tear_down")
        /\ Turn = {<<"compute_centroids", "body">>} /\ pc = "wait"
    <2>1. stack[w] # <<>> /\ Top(w) \in Invocations /\ pc = "wait"
      BY <1>1, TopFacts DEF IInv, At
    <2>2. "compute_centroids" \in Nodes
      BY DEF Nodes
    <2>3. Top(w) \in Running /\ Top(w) \notin Sharing
      BY <1>2, <2>1, <2>2 DEF Running, Sharing
    <2>4. ready_chunks = 0 /\ Count(RowTasks) = 0
      BY <2>1, <2>3, NoSharing
    <2>5. Tokens = {Top(w)} /\ Turn = {<<"compute_centroids", "body">>}
      BY <1>2, <2>1, <2>3, TurnTop
    <2>6. \A t \in Turn : t[2] # "inline"
      BY <2>5
    <2>7. \A v \in Workers : Share(v) = {} /\ ~ At(v, "chunk", "tear_down")
      BY <2>4, <2>6, NoShares
    <2>8. TokenInv(Top(w))
      BY <2>5 DEF FitInv, TokensInv
    <2> QED BY <1>2, <2>1, <2>4, <2>5, <2>7, <2>8 DEF TokenInv
  <1>5. /\ FitPhase = "rounds" /\ FitTodo = Rows /\ FitIteration = m
    BY <1>4, View DEF SamplingAt, ComputingAt, UpdatedAt, Leaving
  <1>6. ASSUME NEW f \in FrameType, Put(w, f), f.task = "compute_centroids",
               f.at \in {"inline", "spawn"}, f.at = "inline" => next' = N, TokenInv(f)',
               (next' = 0 /\ RowRange(f) = {}) \/ (next' = N /\ RowRange(f) = 0 .. N - 1)
        PROVE  FitInv' /\ Refined
    <2>1. /\ pc = "wait" /\ pc' = "wait" /\ ready = {}
          /\ Tokens' = {f} /\ Turn' = {<<"compute_centroids", f.at>>}
          /\ Share(w)' = RowRange(f) /\ ~ At(w, "chunk", "tear_down")'
          /\ \A v \in Workers \ {w} : stack'[v] = stack[v] /\ Share(v)' = Share(v)
          /\ RoundInv'
      BY <1>1, <1>6, ComputeMoves
    <2>2. TokensInv'
      BY <1>6, <2>1 DEF TokensInv
    <2>3. \A v \in Workers \ {w} : Share(v)' = {} /\ ~ At(v, "chunk", "tear_down")'
      BY <1>4, <2>1 DEF At, Top
    <2>4. Share(w)' \subseteq 0 .. next' - 1
      BY <1>2, <1>6, <2>1
    <2>5. ShareInv'
      <3> SUFFICES ASSUME NEW u \in Workers
                   PROVE  /\ Share(u)' \subseteq 0 .. next' - 1
                          /\ \A v \in Workers \ {u} : Share(v)' \cap Share(u)' = {}
                          /\ ~ At(u, "chunk", "tear_down")'
        BY DEF ShareInv
      <3> QED BY <2>1, <2>3, <2>4
    <2>6. JoinInv'
      BY <1>1, <1>4, <1>6, <2>1, ComputeSame
    <2>7. Unlabelled' = Rows
      <3>1. Unlabelled' = next' .. N - 1 \cup UNION {Share(v)' : v \in Workers}
        BY UnlabelledNext
      <3>2. UNION {Share(v)' : v \in Workers} = RowRange(f)
        BY <2>1, <2>3
      <3>3. next' .. N - 1 \cup RowRange(f) = 0 .. N - 1
        BY <1>2, <1>6
      <3> QED BY <3>1, <3>2, <3>3 DEF Rows
    <2>8. FitPhase' = "rounds" /\ FitTodo' = Unlabelled' /\ FitIteration' = m'
      BY <1>6, <2>1, ViewNext DEF SamplingAt, ComputingAt, UpdatedAt
    <2>9. UNCHANGED FitVars
      BY <1>1, <1>5, <2>7, <2>8 DEF FitVars
    <2> QED BY <1>3, <2>1, <2>2, <2>5, <2>6, <2>9 DEF FitInv, Refined
  <1>7. CASE Put(w, [Top(w) EXCEPT !.at = "inline", !.end = N]) /\ next' = N
    <2>0. PICK f : f = [Top(w) EXCEPT !.at = "inline", !.end = N]
      OBVIOUS
    <2>1. /\ f \in FrameType /\ f.task = "compute_centroids" /\ f.at = "inline"
          /\ f.loop = 0 /\ f.end = N /\ f.released
      BY <1>2, <1>4, <2>0 DEF FrameType
    <2>2. Put(w, f) /\ next' = N
      BY <1>7, <2>0
    <2>3. TokenInv(f)' /\ RowRange(f) = 0 .. N - 1
      BY <2>1 DEF TokenInv, RowRange
    <2> QED BY <1>6, <2>1, <2>2, <2>3
  <1>8. CASE /\ Put(w, [Top(w) EXCEPT !.at = "spawn", !.end = tasks]) /\ next' = 0
             /\ num_of_threads > 1 /\ N > 1
    <2>0. PICK f : f = [Top(w) EXCEPT !.at = "spawn", !.end = tasks]
      OBVIOUS
    <2>1. /\ f \in FrameType /\ f.task = "compute_centroids" /\ f.at = "spawn"
          /\ f.loop = 0 /\ f.end = tasks /\ f.released
      BY <1>2, <1>4, <2>0 DEF FrameType
    <2>2. Put(w, f) /\ next' = 0
      BY <1>8, <2>0
    <2>3. Left' = 0
      <3>1. Count(RowTasks)' = Count(RowTasks)
        BY <1>1, <2>1, <2>2, ComputeMoves
      <3> QED BY <1>1, <1>4, <3>1 DEF Left
    <2>4. TokenInv(f)' /\ RowRange(f) = {}
      <3>1. RowRange(f) = {}
        BY <2>1 DEF RowRange
      <3>2. 0 < f.end /\ f.loop <= f.end /\ f.end <= MaxWorkers
        BY <1>2, <1>8, <2>1
      <3> QED BY <2>1, <2>3, <3>1, <3>2 DEF TokenInv
    <2> QED BY <1>6, <2>1, <2>2, <2>4
  <1> QED BY <1>1, <1>7, <1>8

LEMMA FitSpawnChunk ==
    ASSUME IInv, IInv', FitInv, NEW w \in Workers, SpawnChunk(w) PROVE FitInv' /\ Refined
  <1> DEFINE k == join_counter["compute_centroids"] + 1
  <1>0. PICK f : f = [Top(w) EXCEPT !.loop = @ + 1]
    OBVIOUS
  <1>1. /\ At(w, "compute_centroids", "spawn") /\ Top(w).loop < Top(w).end /\ Put(w, f)
        /\ ready_chunks' = ready_chunks + 1
        /\ join_counter' = [join_counter EXCEPT !["compute_centroids"] = k]
        /\ UNCHANGED <<centroids, labels, sums, counts, m, next, ready, before>>
    BY <1>0 DEF SpawnChunk, arrays
  <1>2. Top(w) \in FrameType /\ Top(w).task = "compute_centroids" /\ Top(w).at = "spawn"
        /\ Top(w) \in Invocations
    BY <1>1, TopFacts DEF IInv, At, Invocations
  <1>3. /\ f \in FrameType /\ f.task = "compute_centroids" /\ f.at = "spawn"
        /\ f.loop = Top(w).loop + 1 /\ f.end = Top(w).end /\ f.released = Top(w).released
    BY <1>0, <1>2 DEF FrameType
  <1>4. /\ pc = "wait" /\ pc' = "wait"
        /\ Turn = {<<"compute_centroids", "spawn">>}
        /\ Tokens' = {f} /\ Turn' = {<<"compute_centroids", "spawn">>}
        /\ Count(RowTasks)' = Count(RowTasks)
        /\ Share(w) = RowRange(Top(w)) /\ Share(w)' = RowRange(f)
        /\ ~ At(w, "chunk", "tear_down")'
        /\ \A v \in Workers \ {w} : stack'[v] = stack[v] /\ Share(v)' = Share(v)
        /\ RoundInv' /\ TokenInv(Top(w))
        /\ (Top(w) \in Settled => join_counter["compute_centroids"] = Left)
    BY <1>1, <1>3, ComputeMoves
  <1>5. Share(w) = {} /\ Share(w)' = {}
    BY <1>2, <1>3, <1>4 DEF RowRange
  <1>6. Left \in Nat /\ Left' = Left + 1
    <2>1. ready_chunks \in Nat /\ Count(RowTasks) \in Nat
      BY Counts DEF IInv, ShapeInv
    <2> QED BY <1>1, <1>4, <2>1 DEF Left
  <1>7. /\ 0 < Top(w).end /\ Top(w).loop <= Top(w).end /\ Top(w).end <= MaxWorkers
        /\ Left <= Top(w).loop /\ (next = N \/ Left = Top(w).loop) /\ Top(w).released
        /\ Top(w).loop \in Nat /\ Top(w).end \in Nat
    BY <1>2, <1>4 DEF TokenInv, FrameType
  <1>8. TokensInv'
    <2>1. TokenInv(f)'
      BY <1>1, <1>3, <1>6, <1>7 DEF TokenInv
    <2> QED BY <1>4, <2>1 DEF TokensInv
  <1>9. ShareInv'
    BY <1>1, <1>4, <1>5, SharesKept DEF FitInv
  <1>10. JoinInv'
    <2>1. join_counter["compute_centroids"] = Left
      BY <1>2, <1>4 DEF Settled
    <2>2. k \in 0 .. MaxWorkers
      BY <1>1, <1>6, <1>7, <2>1, TaskflowAssumption
    <2> HIDE DEF k
    <2> QED BY <1>1, <1>4, <2>2, ComputeJoin
  <1>11. UNCHANGED FitVars
    <2>1. Unlabelled' = Unlabelled
      BY <1>1, <1>4, <1>5, SameUnlabelled
    <2>2. FitPhase = "rounds" /\ FitTodo = Unlabelled /\ FitIteration = m
      BY <1>4, View DEF SamplingAt, ComputingAt, UpdatedAt
    <2>3. FitPhase' = "rounds" /\ FitTodo' = Unlabelled' /\ FitIteration' = m'
      BY <1>4, ViewNext DEF SamplingAt, ComputingAt, UpdatedAt
    <2> QED BY <1>1, <2>1, <2>2, <2>3 DEF FitVars
  <1> QED BY <1>1, <1>4, <1>8, <1>9, <1>10, <1>11 DEF FitInv, ArrayInv, Refined

LEMMA FitSpawnDone ==
    ASSUME IInv, IInv', FitInv, NEW w \in Workers, SpawnDone(w) \/ Joined(w)
    PROVE  FitInv' /\ Refined
  <1>1. PICK a \in {"spawn", "join"}, b \in {"join", "recover"} :
           /\ At(w, "compute_centroids", a) /\ GoTo(w, b)
           /\ a = "spawn" => b = "join" /\ Top(w).loop >= Top(w).end
           /\ a = "join" => b = "recover" /\ join_counter["compute_centroids"] = 0
    BY DEF SpawnDone, Joined
  <1>2. UNCHANGED <<centroids, labels, sums, counts, m, next, join_counter, ready,
                    ready_chunks, before>>
    BY DEF SpawnDone, Joined, arrays, counters, queues
  <1>0. PICK f : f = [Top(w) EXCEPT !.at = b]
    OBVIOUS
  <1>3. /\ Top(w) \in FrameType /\ Top(w).task = "compute_centroids" /\ Top(w).at = a
        /\ Top(w) \in Invocations /\ stack[w] # <<>>
    BY <1>1, TopFacts DEF IInv, At, Invocations
  <1>4. /\ f \in FrameType /\ f.task = "compute_centroids" /\ f.at = b
        /\ f.loop = Top(w).loop /\ f.end = Top(w).end /\ f.released = Top(w).released
        /\ Put(w, f)
    BY <1>0, <1>1, <1>3 DEF FrameType, GoTo
  <1>5. Left \in Nat
    <2>1. ready_chunks \in Nat /\ Count(RowTasks) \in Nat
      BY Counts DEF IInv, ShapeInv
    <2> QED BY <2>1 DEF Left
  <1>6. TokenInv(Top(w)) /\ (join_counter["compute_centroids"] = Left)
    <2>1. "compute_centroids" \in Nodes
      BY DEF Nodes
    <2>2. Top(w) \in Running /\ Top(w) \in Settled
      BY <1>3, <2>1 DEF Running, Settled
    <2>3. TokenInv(Top(w))
      BY <1>3, <2>2, TurnTop DEF FitInv, TokensInv
    <2> QED BY <1>3, <2>2, <2>3, Counts DEF IInv, RowTaskInv, Left
  <1>7. /\ 0 < Top(w).end /\ Top(w).loop <= Top(w).end /\ Top(w).end <= MaxWorkers
        /\ (a = "join" => Top(w).loop = Top(w).end)
        /\ Left <= Top(w).loop /\ (next = N \/ Left = Top(w).loop) /\ Top(w).released
        /\ Top(w).loop \in Nat /\ Top(w).end \in Nat
    BY <1>3, <1>6 DEF TokenInv, FrameType
  <1>8. b = "recover" => next = N
    BY <1>1, <1>6, <1>7
  <1>9. /\ pc = "wait" /\ pc' = "wait"
        /\ Turn = {<<"compute_centroids", a>>}
        /\ Tokens' = {f} /\ Turn' = {<<"compute_centroids", b>>}
        /\ Count(RowTasks)' = Count(RowTasks)
        /\ Share(w) = RowRange(Top(w)) /\ Share(w)' = RowRange(f)
        /\ ~ At(w, "chunk", "tear_down")'
        /\ \A v \in Workers \ {w} : stack'[v] = stack[v] /\ Share(v)' = Share(v)
        /\ RoundInv'
    BY <1>1, <1>2, <1>4, <1>8, ComputeMoves
  <1>10. Share(w) = {} /\ Share(w)' = {}
    BY <1>3, <1>4, <1>9 DEF RowRange
  <1>11. TokensInv'
    <2>1. Left' = Left
      BY <1>2, <1>9 DEF Left
    <2>2. TokenInv(f)'
      BY <1>1, <1>2, <1>4, <1>7, <2>1 DEF TokenInv
    <2> QED BY <1>9, <2>2 DEF TokensInv
  <1>12. ShareInv'
    BY <1>2, <1>9, <1>10, SharesKept DEF FitInv
  <1>13. JoinInv'
    BY <1>2, <1>9, ComputeSame
  <1>14. UNCHANGED FitVars
    <2>1. Unlabelled' = Unlabelled
      BY <1>2, <1>9, <1>10, SameUnlabelled
    <2>2. FitPhase = "rounds" /\ FitTodo = Unlabelled /\ FitIteration = m
      BY <1>9, View DEF SamplingAt, ComputingAt, UpdatedAt
    <2>3. FitPhase' = "rounds" /\ FitTodo' = Unlabelled' /\ FitIteration' = m'
      BY <1>9, ViewNext DEF SamplingAt, ComputingAt, UpdatedAt, Leaving
    <2> QED BY <1>2, <2>1, <2>2, <2>3 DEF FitVars
  <1> QED BY <1>2, <1>9, <1>11, <1>12, <1>13, <1>14 DEF FitInv, ArrayInv, Refined

-----------------------------------------------------------------------------
(* The rows of compute_centroids. *)
LEMMA LeftNat == IInv => Left \in Nat
  BY Counts DEF IInv, ShapeInv, Left

LEMMA LeftNext == ASSUME IInv' PROVE Left' \in Nat
  <1>1. (IInv => Left \in Nat)'
    BY LeftNat, PTL
  <1> QED BY <1>1

(* While a row task is left, the turn is where its tasks are spawned or    *)
(* waited for.                                                             *)
LEMMA RowTurn ==
    ASSUME IInv, Left > 0
    PROVE  /\ pc = "wait" /\ ready = {}
           /\ \E r \in Settled : /\ r \in Running /\ r.task = "compute_centroids"
                                 /\ r.at \in {"spawn", "join"}
                                 /\ Tokens = {r} /\ Turn = {<<"compute_centroids", r.at>>}
           /\ join_counter["compute_centroids"] = Left
  <1>1. Count(Sharing) > 0
    BY DEF IInv, RowTaskInv, Left
  <1>2. pc = "wait"
    BY <1>1, Counts DEF IInv
  <1>3. PICK f : f \in In(stack, Sharing)
    <2>1. Cardinality(In(stack, Sharing)) # 0
      BY <1>1 DEF Count
    <2> QED BY <2>1, FS_EmptySet
  <1>4. PICK r \in Sharing : f \in In(stack, {r})
    BY <1>3 DEF In
  <1>5. r \in Running /\ r \in Settled
    BY Part
  <1>6. r.task = "compute_centroids" /\ r.at \in {"spawn", "join"}
    BY DEF Sharing, Invocations
  <1>7. Count({r}) > 0
    <2>1. Count({r}) # 0 /\ Count({r}) \in Nat
      BY <1>4, InFinite, FS_EmptySet DEF Count
    <2> QED BY <2>1
  <1>8. r \in Tokens
    BY <1>5, <1>7 DEF Tokens
  <1>9. Tokens = {r} /\ ready = {} /\ Turn = {<<r.task, r.at>>}
    BY <1>8, OneToken
  <1>10. join_counter["compute_centroids"] = Left
    <2>1. Count({r}) <= Count(Settled) /\ Count(Settled) \in Nat /\ Count({r}) \in Nat
      BY <1>5, Counts DEF IInv
    <2>2. Count(Settled) > 0
      BY <1>7, <2>1
    <2> QED BY <2>2 DEF IInv, RowTaskInv, Left
  <1> QED BY <1>2, <1>5, <1>6, <1>9, <1>10

LEMMA ChunkLeft ==
    ASSUME IInv, NEW w \in Workers, stack[w] # <<>>, Top(w).task = "chunk"
    PROVE  Left > 0 /\ Top(w) \in RowTasks /\ Top(w) \notin Running
           /\ Top(w) \in FrameType /\ Top(w).at \in {"claim", "rows", "tear_down"}
  <1>1. Top(w) \in Invocations
    BY TopFacts DEF IInv
  <1>2. Top(w) \in RowTasks
    BY <1>1 DEF RowTasks
  <1>3. ready_chunks \in Nat /\ Count(RowTasks) \in Nat /\ Count(RowTasks) > 0
    BY <1>2, Counts DEF IInv, ShapeInv
  <1>4. Top(w) \notin Running /\ Top(w).at \in {"claim", "rows", "tear_down"}
    BY <1>1 DEF Running, Invocations, Nodes
  <1> QED BY <1>1, <1>2, <1>3, <1>4 DEF Left, Invocations

(* Steps of row tasks keep the turn. *)
LEMMA RowKeeps ==
    ASSUME IInv, IInv', FitInv, Left > 0, Tokens' = Tokens, UNCHANGED <<pc, ready, m, sums, counts>>,
           Left' = Left \/ (Left' <= Left /\ next = N), next = N => next' = N
    PROVE  /\ pc = "wait" /\ pc' = "wait" /\ m <= M
           /\ \E a \in {"spawn", "join"} :
                 Turn = {<<"compute_centroids", a>>} /\ Turn' = {<<"compute_centroids", a>>}
           /\ RoundInv' /\ TokensInv' /\ (UNCHANGED join_counter => JoinInv')
  <1>1. PICK r \in Settled : /\ r \in Running /\ r.task = "compute_centroids"
                             /\ r.at \in {"spawn", "join"}
                             /\ Tokens = {r} /\ Turn = {<<"compute_centroids", r.at>>}
    BY RowTurn
  <1>2. pc = "wait" /\ pc' = "wait"
    BY RowTurn
  <1>3. Turn' = Turn
    BY DEF Turn
  <1>4. TurnAt("compute_centroids", r.at) /\ m \in 0 .. M + 1
    BY <1>1, RoundAtNow DEF FitInv
  <1>5. RoundInv'
    <2>1. TurnAt("compute_centroids", r.at)'
      <3> DEFINE a == r.at
      <3>1. m <= M /\ Cleared /\ a \in {"spawn", "join"}
        BY <1>1, <1>4 DEF TurnAt
      <3> HIDE DEF a
      <3>2. TurnAt("compute_centroids", a)'
        BY <3>1 DEF TurnAt, Cleared, Leaving
      <3> QED BY <3>2 DEF a
    <2> QED BY <1>1, <1>2, <1>3, <1>4, <2>1, RoundAt
  <1>6. TokensInv'
    <2>1. TokenInv(r)
      BY <1>1 DEF FitInv, TokensInv
    <2>2. r.loop \in Nat /\ Left \in Nat /\ Left' \in Nat
      BY LeftNat, LeftNext DEF Settled, Invocations, FrameType
    <2>3. TokenInv(r)'
      BY <1>1, <2>1, <2>2 DEF TokenInv, Leaving
    <2> QED BY <1>1, <2>3 DEF TokensInv
  <1>7. UNCHANGED join_counter => JoinInv'
    BY <1>3 DEF FitInv, JoinInv
  <1> QED BY <1>1, <1>2, <1>3, <1>4, <1>5, <1>6, <1>7 DEF TurnAt

LEMMA ChunkMoves ==
    ASSUME IInv, IInv', FitInv, NEW w \in Workers, stack[w] # <<>>, Top(w).task = "chunk",
           NEW f \in FrameType, f.task = "chunk", f.at \in {"claim", "rows", "tear_down"},
           Put(w, f), UNCHANGED <<pc, ready, ready_chunks, join_counter, m, sums, counts>>,
           next = N => next' = N
    PROVE  /\ pc = "wait" /\ pc' = "wait" /\ m <= M
           /\ \E a \in {"spawn", "join"} :
                 Turn = {<<"compute_centroids", a>>} /\ Turn' = {<<"compute_centroids", a>>}
           /\ RoundInv' /\ TokensInv' /\ JoinInv'
           /\ Share(w) = RowRange(Top(w)) /\ Share(w)' = RowRange(f) /\ Top(w)' = f
           /\ \A v \in Workers \ {w} : stack'[v] = stack[v] /\ Share(v)' = Share(v)
  <1>1. Left > 0 /\ Top(w) \notin Running
    BY ChunkLeft
  <1>2. f \in Invocations /\ f \notin Running
    BY DEF Invocations, Running, Nodes
  <1>3. /\ Top(w)' = f /\ Share(w)' = RowRange(f)
        /\ \A v \in Workers \ {w} : stack'[v] = stack[v] /\ Share(v)' = Share(v)
        /\ Count(RowTasks)' = Count(RowTasks) /\ Tokens' = Tokens
    BY <1>1, <1>2, PutMoves
  <1>4. Left' = Left
    BY <1>3 DEF Left
  <1>5. Share(w) = RowRange(Top(w))
    BY DEF Share
  <1> QED BY <1>1, <1>3, <1>4, <1>5, RowKeeps

LEMMA RowView ==
    ASSUME IInv, IInv', pc = "wait", pc' = "wait", m' = m,
           NEW a \in {"inline", "spawn", "join"}, NEW b \in {"inline", "spawn", "join", "recover"},
           Turn = {<<"compute_centroids", a>>}, Turn' = {<<"compute_centroids", b>>}
    PROVE  /\ FitPhase = "rounds" /\ FitTodo = Unlabelled /\ FitIteration = m
           /\ FitPhase' = "rounds" /\ FitTodo' = Unlabelled' /\ FitIteration' = m
  <1>1. FitPhase = "rounds" /\ FitTodo = Unlabelled /\ FitIteration = m
    BY View DEF SamplingAt, ComputingAt, UpdatedAt
  <1>2. FitPhase' = "rounds" /\ FitTodo' = Unlabelled' /\ FitIteration' = m'
    BY ViewNext DEF SamplingAt, ComputingAt, UpdatedAt, Leaving
  <1> QED BY <1>1, <1>2

-----------------------------------------------------------------------------
LEMMA FitClaim ==
    ASSUME IInv, IInv', FitInv, NEW w \in Workers, ClaimChunk(w)
    PROVE FitInv' /\ Refined
  <1>1. PICK end \in next + 1 .. N :
           next' = end /\ Put(w, [Top(w) EXCEPT !.at = "rows", !.loop = next, !.end = end])
    BY DEF ClaimChunk
  <1>2. /\ stack[w] # <<>> /\ Top(w).task = "chunk" /\ Top(w).at = "claim" /\ next < N
        /\ UNCHANGED <<pc, centroids, labels, sums, counts, m, join_counter, ready, ready_chunks,
                       before>>
    BY DEF ClaimChunk, At, caller, arrays, counters, queues
  <1>3. next \in Nat /\ N \in Nat /\ end \in Nat /\ next < end /\ end <= N
    BY LloydAssumption DEF IInv, ShapeInv
  <1>4. PICK f : f = [Top(w) EXCEPT !.at = "rows", !.loop = next, !.end = end]
    OBVIOUS
  <1>5. /\ f \in FrameType /\ f.task = "chunk" /\ f.at = "rows" /\ f.loop = next /\ f.end = end
    <2>1. Top(w) \in FrameType
      BY <1>2, ChunkLeft
    <2> QED BY <1>2, <1>3, <1>4, <2>1 DEF FrameType
  <1>6. /\ pc = "wait" /\ pc' = "wait"
        /\ \E a \in {"spawn", "join"} :
              Turn = {<<"compute_centroids", a>>} /\ Turn' = {<<"compute_centroids", a>>}
        /\ RoundInv' /\ TokensInv' /\ JoinInv'
        /\ Share(w) = RowRange(Top(w)) /\ Share(w)' = RowRange(f) /\ Top(w)' = f
        /\ \A v \in Workers \ {w} : stack'[v] = stack[v] /\ Share(v)' = Share(v)
    <2>1. Put(w, f)
      BY <1>1, <1>4
    <2>2. next # N
      BY <1>2, <1>3
    <2> QED BY <1>2, <1>5, <2>1, <2>2, ChunkMoves
  <1>7. Share(w) = {} /\ Share(w)' = next .. end - 1
    BY <1>2, <1>5, <1>6 DEF RowRange
  <1>8. ShareInv'
    <2>1. \A v \in Workers : Share(v) \subseteq 0 .. next - 1
      BY DEF FitInv, ShareInv
    <2>2. \A v \in Workers : Share(v)' \subseteq 0 .. next' - 1
      <3>1. 0 .. next - 1 \subseteq 0 .. end - 1 /\ next .. end - 1 \subseteq 0 .. end - 1
        BY <1>3
      <3> QED BY <1>1, <1>6, <1>7, <2>1, <3>1
    <2>3. \A v \in Workers \ {w} : Share(v)' \cap Share(w)' = {}
      <3>1. (0 .. next - 1) \cap (next .. end - 1) = {}
        BY <1>3
      <3> QED BY <1>6, <1>7, <2>1, <3>1
    <2>4. \A u, v \in Workers \ {w} : u # v => Share(v)' \cap Share(u)' = {}
      <3>1. \A u, v \in Workers : u # v => Share(v) \cap Share(u) = {}
        BY DEF FitInv, ShareInv
      <3> QED BY <1>6, <3>1
    <2>5. \A v \in Workers : ~ At(v, "chunk", "tear_down")'
      <3>1. ~ At(w, "chunk", "tear_down")'
        BY <1>5, <1>6 DEF At
      <3>2. \A v \in Workers \ {w} : ~ At(v, "chunk", "tear_down")
        BY <1>2, <1>3 DEF FitInv, ShareInv
      <3> QED BY <1>6, <3>1, <3>2 DEF At, Top
    <2> QED BY <2>2, <2>3, <2>4, <2>5 DEF ShareInv
  <1>9. Unlabelled' = Unlabelled
    <2>1. Unlabelled = next .. N - 1 \cup UNION {Share(v) : v \in Workers}
      BY Readings DEF IInv
    <2>2. Unlabelled' = next' .. N - 1 \cup UNION {Share(v)' : v \in Workers}
      BY UnlabelledNext
    <2>3. UNION {Share(v)' : v \in Workers} = (next .. end - 1) \cup UNION {Share(v) : v \in Workers}
      BY <1>6, <1>7
    <2>4. next .. N - 1 = (next .. end - 1) \cup (end .. N - 1)
      BY <1>3
    <2> QED BY <1>1, <2>1, <2>2, <2>3, <2>4
  <1>10. UNCHANGED FitVars
    BY <1>2, <1>6, <1>9, RowView DEF FitVars
  <1> QED BY <1>2, <1>6, <1>8, <1>10 DEF FitInv, ArrayInv, Refined

LEMMA FitNothingLeft ==
    ASSUME IInv, IInv', FitInv, NEW w \in Workers, NothingLeft(w) PROVE FitInv' /\ Refined
  <1>1. /\ stack[w] # <<>> /\ Top(w).task = "chunk" /\ Top(w).at = "claim" /\ next >= N
        /\ GoTo(w, "tear_down")
        /\ UNCHANGED <<pc, centroids, labels, sums, counts, m, next, join_counter, ready,
                       ready_chunks, before>>
    BY DEF NothingLeft, At, caller, arrays, counters, queues
  <1>2. next = N
    BY <1>1, LloydAssumption DEF IInv, ShapeInv
  <1>3. PICK f : f = [Top(w) EXCEPT !.at = "tear_down"]
    OBVIOUS
  <1>4. f \in FrameType /\ f.task = "chunk" /\ f.at = "tear_down" /\ Put(w, f)
    <2>1. Top(w) \in FrameType
      BY <1>1, ChunkLeft
    <2> QED BY <1>1, <1>3, <2>1 DEF FrameType, GoTo
  <1>5. /\ pc = "wait" /\ pc' = "wait"
        /\ \E a \in {"spawn", "join"} :
              Turn = {<<"compute_centroids", a>>} /\ Turn' = {<<"compute_centroids", a>>}
        /\ RoundInv' /\ TokensInv' /\ JoinInv'
        /\ Share(w) = RowRange(Top(w)) /\ Share(w)' = RowRange(f)
        /\ \A v \in Workers \ {w} : stack'[v] = stack[v] /\ Share(v)' = Share(v)
    BY <1>1, <1>4, ChunkMoves
  <1>6. Share(w) = {} /\ Share(w)' = {}
    BY <1>1, <1>4, <1>5 DEF RowRange
  <1>7. ShareInv'
    BY <1>1, <1>2, <1>5, <1>6, SharesKept DEF FitInv
  <1>8. UNCHANGED FitVars
    <2>1. Unlabelled' = Unlabelled
      BY <1>1, <1>5, <1>6, SameUnlabelled
    <2> QED BY <1>1, <1>5, <2>1, RowView DEF FitVars
  <1> QED BY <1>1, <1>5, <1>7, <1>8 DEF FitInv, ArrayInv, Refined

(* A row is labelled by the one worker that has it in its share. *)
LEMMA RowLabelled ==
    ASSUME IInv, IInv', FitInv, NEW w \in Workers, NEW i, NEW j \in Clusters,
           IsNearest(input_points[i], j, centroids), labels' = [labels EXCEPT ![i] = j],
           UNCHANGED <<centroids, sums, counts, next, before>>, m <= M,
           i \in Share(w), Share(w)' = Share(w) \ {i},
           \A v \in Workers \ {w} : Share(v)' = Share(v),
           FitPhase = "rounds", FitTodo = Unlabelled, FitIteration = m,
           FitPhase' = "rounds", FitTodo' = Unlabelled', FitIteration' = m
    PROVE  ArrayInv' /\ Refined
  <1>1. ArrayInv'
    BY DEF FitInv, ArrayInv
  <1>2. i \in 0 .. next - 1 /\ next \in Nat /\ next <= N /\ N \in Nat
    BY LloydAssumption DEF IInv, ShapeInv, FitInv, ShareInv
  <1>3. i \in Rows /\ i \notin next .. N - 1
    BY <1>2 DEF Rows
  <1>4. i \in Unlabelled /\ Unlabelled' = Unlabelled \ {i}
    <2>1. Unlabelled = next .. N - 1 \cup UNION {Share(v) : v \in Workers}
      BY Readings DEF IInv
    <2>2. Unlabelled' = next' .. N - 1 \cup UNION {Share(v)' : v \in Workers}
      BY UnlabelledNext
    <2>3. \A v \in Workers \ {w} : i \notin Share(v)
      BY DEF FitInv, ShareInv
    <2>4. UNION {Share(v)' : v \in Workers} = (UNION {Share(v) : v \in Workers}) \ {i}
      BY <2>3
    <2> QED BY <1>3, <2>1, <2>2, <2>4
  <1>5. m < M + 1
    BY TaskflowAssumption DEF FitInv, RoundInv
  <1>6. Fitting!AssignRow(i)
    BY <1>4, <1>5, SameSets, SameNearest DEF Fitting!AssignRow
  <1> QED BY <1>1, <1>3, <1>6, SameSets DEF Refined, Fitting!Next

LEMMA FitLabelRow ==
    ASSUME IInv, IInv', FitInv, NEW w \in Workers, LabelRow(w)
    PROVE FitInv' /\ Refined
  <1>1. PICK j \in Clusters : /\ IsNearest(input_points[Top(w).loop], j, centroids)
                              /\ labels' = [labels EXCEPT ![Top(w).loop] = j]
    BY DEF LabelRow
  <1>2. /\ stack[w] # <<>> /\ InRows(w) /\ Top(w).loop < Top(w).end
        /\ Put(w, [Top(w) EXCEPT !.loop = @ + 1])
        /\ UNCHANGED <<pc, centroids, sums, counts, m, next, join_counter, ready, ready_chunks,
                       before>>
    BY DEF LabelRow, InRows, At, caller, counters, queues
  <1>3. PICK f : f = [Top(w) EXCEPT !.loop = @ + 1]
    OBVIOUS
  <1>4. Top(w) \in FrameType /\ Top(w).loop \in Nat /\ Top(w).end \in Nat
        /\ Top(w).at \in {"inline", "rows"}
    BY <1>2, TopFacts DEF IInv, Invocations, FrameType, InRows, At
  <1>5. /\ f \in FrameType /\ f.task = Top(w).task /\ f.at = Top(w).at
        /\ f.loop = Top(w).loop + 1 /\ f.end = Top(w).end /\ f.released = Top(w).released
        /\ Put(w, f)
    BY <1>2, <1>3, <1>4 DEF FrameType
  <1>6. PICK i : i = Top(w).loop
    OBVIOUS
  <1>label. IsNearest(input_points[i], j, centroids) /\ labels' = [labels EXCEPT ![i] = j]
    BY <1>1, <1>6
  <1>7. i \in RowRange(Top(w)) /\ RowRange(f) = RowRange(Top(w)) \ {i}
    <2>1. RowRange(Top(w)) = i .. Top(w).end - 1 /\ RowRange(f) = i + 1 .. Top(w).end - 1
      BY <1>4, <1>5, <1>6 DEF RowRange
    <2>2. i \in Nat /\ Top(w).end \in Nat /\ i < Top(w).end
      BY <1>2, <1>4, <1>6
    <2> QED BY <2>1, <2>2
  <1>8. CASE At(w, "chunk", "rows")
    <2>1. Top(w).task = "chunk" /\ f.task = "chunk" /\ f.at = "rows"
      BY <1>5, <1>8 DEF At
    <2>2. /\ pc = "wait" /\ pc' = "wait" /\ m <= M
          /\ \E a \in {"spawn", "join"} :
                Turn = {<<"compute_centroids", a>>} /\ Turn' = {<<"compute_centroids", a>>}
          /\ RoundInv' /\ TokensInv' /\ JoinInv'
          /\ Share(w) = RowRange(Top(w)) /\ Share(w)' = RowRange(f) /\ Top(w)' = f
          /\ \A v \in Workers \ {w} : stack'[v] = stack[v] /\ Share(v)' = Share(v)
      BY <1>2, <1>5, <2>1, ChunkMoves
    <2>3. ShareInv'
      <3>1. ~ At(w, "chunk", "tear_down")'
        BY <2>1, <2>2 DEF At
      <3> QED BY <1>2, <1>7, <2>2, <3>1, SharesKept DEF FitInv
    <2>4. /\ FitPhase = "rounds" /\ FitTodo = Unlabelled /\ FitIteration = m
          /\ FitPhase' = "rounds" /\ FitTodo' = Unlabelled' /\ FitIteration' = m
      BY <1>2, <2>2, RowView
    <2>5. ArrayInv' /\ Refined
      <3>1. /\ i \in Share(w) /\ Share(w)' = Share(w) \ {i} /\ m <= M
            /\ \A v \in Workers \ {w} : Share(v)' = Share(v)
        BY <1>7, <2>2
      <3>2. UNCHANGED <<centroids, sums, counts, next, before>>
        BY <1>2
      <3> QED BY <1>label, <2>4, <3>1, <3>2, RowLabelled
    <2> QED BY <2>2, <2>3, <2>5 DEF FitInv
  <1>9. CASE At(w, "compute_centroids", "inline")
    <2>1. f.task = "compute_centroids" /\ f.at = "inline" /\ Top(w) \in Running /\ next = N
      <3>1. f.task = "compute_centroids" /\ f.at = "inline" /\ Top(w).task = "compute_centroids"
            /\ Top(w).at = "inline" /\ Top(w) \in Invocations
        BY <1>2, <1>5, <1>9, TopFacts DEF At, IInv
      <3>2. Top(w) \in Running
        BY <3>1 DEF Running, Nodes
      <3>3. Turn = {<<"compute_centroids", "inline">>}
        BY <1>2, <3>1, <3>2, TurnTop
      <3>4. TurnAt("compute_centroids", "inline")
        BY <3>3, RoundAtNow DEF FitInv
      <3> QED BY <3>1, <3>2, <3>4 DEF TurnAt
    <2>2. /\ pc = "wait" /\ pc' = "wait"
          /\ Turn = {<<"compute_centroids", "inline">>} /\ Turn' = {<<"compute_centroids", "inline">>}
          /\ Tokens' = {f} /\ RoundInv' /\ TokenInv(Top(w))
          /\ Share(w) = RowRange(Top(w)) /\ Share(w)' = RowRange(f)
          /\ ~ At(w, "chunk", "tear_down")'
          /\ \A v \in Workers \ {w} : stack'[v] = stack[v] /\ Share(v)' = Share(v)
      BY <1>2, <1>5, <1>9, <2>1, ComputeMoves
    <2>3. ShareInv'
      BY <1>2, <1>7, <2>2, SharesKept DEF FitInv
    <2>4. JoinInv'
      BY <1>2, <2>2, ComputeSame
    <2>5. TokensInv'
      <3>1. Top(w).released
        BY <1>5, <2>1, <2>2 DEF TokenInv
      <3>2. TokenInv(f)'
        BY <1>5, <2>1, <3>1 DEF TokenInv
      <3> QED BY <2>2, <3>2 DEF TokensInv
    <2>6. /\ FitPhase = "rounds" /\ FitTodo = Unlabelled /\ FitIteration = m
          /\ FitPhase' = "rounds" /\ FitTodo' = Unlabelled' /\ FitIteration' = m
      BY <1>2, <2>2, RowView
    <2>7. m <= M
      <3>1. TurnAt("compute_centroids", "inline")
        BY <2>2, RoundAtNow DEF FitInv
      <3> QED BY <3>1 DEF TurnAt
    <2>8. ArrayInv' /\ Refined
      BY <1>2, <1>label, <1>7, <2>2, <2>6, <2>7, RowLabelled
    <2> QED BY <2>2, <2>3, <2>4, <2>5, <2>8 DEF FitInv
  <1> QED BY <1>2, <1>8, <1>9 DEF InRows

LEMMA FitRowsDone ==
    ASSUME IInv, IInv', FitInv, NEW w \in Workers, RowsDone(w)
    PROVE FitInv' /\ Refined
  <1>1. /\ stack[w] # <<>> /\ InRows(w) /\ Top(w).loop >= Top(w).end
        /\ GoTo(w, IF Top(w).task = "chunk" THEN "claim" ELSE "recover")
        /\ UNCHANGED <<pc, centroids, labels, sums, counts, m, next, join_counter, ready,
                       ready_chunks, before>>
    BY DEF RowsDone, InRows, At, caller, arrays, counters, queues
  <1>2. PICK b : b = IF Top(w).task = "chunk" THEN "claim" ELSE "recover"
    OBVIOUS
  <1>3. PICK f : f = [Top(w) EXCEPT !.at = b]
    OBVIOUS
  <1>4. Top(w) \in FrameType /\ Top(w).loop \in Nat /\ Top(w).end \in Nat /\ Top(w) \in Invocations
    BY <1>1, TopFacts DEF IInv, Invocations, FrameType
  <1>5. /\ f \in FrameType /\ f.task = Top(w).task /\ f.at = b /\ Put(w, f)
        /\ f.loop = Top(w).loop /\ f.end = Top(w).end /\ f.released = Top(w).released
    BY <1>1, <1>2, <1>3, <1>4 DEF FrameType, GoTo
  <1>6. RowRange(Top(w)) = {} /\ RowRange(f) = {}
    <2>1. Top(w).loop .. Top(w).end - 1 = {}
      BY <1>1, <1>4
    <2> QED BY <1>2, <1>5, <2>1 DEF RowRange
  <1>7. ArrayInv'
    BY <1>1 DEF FitInv, ArrayInv
  <1>8. CASE At(w, "chunk", "rows")
    <2>1. Top(w).task = "chunk" /\ f.task = "chunk" /\ f.at = "claim"
      BY <1>2, <1>5, <1>8 DEF At
    <2>2. /\ pc = "wait" /\ pc' = "wait"
          /\ \E a \in {"spawn", "join"} :
                Turn = {<<"compute_centroids", a>>} /\ Turn' = {<<"compute_centroids", a>>}
          /\ RoundInv' /\ TokensInv' /\ JoinInv'
          /\ Share(w) = RowRange(Top(w)) /\ Share(w)' = RowRange(f) /\ Top(w)' = f
          /\ \A v \in Workers \ {w} : stack'[v] = stack[v] /\ Share(v)' = Share(v)
      BY <1>1, <1>5, <2>1, ChunkMoves
    <2>3. ShareInv'
      <3>1. ~ At(w, "chunk", "tear_down")'
        BY <2>1, <2>2 DEF At
      <3> QED BY <1>1, <1>6, <2>2, <3>1, SharesKept DEF FitInv
    <2>4. UNCHANGED FitVars
      <3>1. Unlabelled' = Unlabelled
        BY <1>1, <1>6, <2>2, SameUnlabelled
      <3> QED BY <1>1, <2>2, <3>1, RowView DEF FitVars
    <2> QED BY <1>7, <2>2, <2>3, <2>4 DEF FitInv, Refined
  <1>9. CASE At(w, "compute_centroids", "inline")
    <2>1. /\ f.task = "compute_centroids" /\ f.at = "recover" /\ Top(w).task = "compute_centroids"
          /\ Top(w).at = "inline"
      BY <1>2, <1>5, <1>9 DEF At
    <2>2. next = N
      <3>1. Top(w) \in Running
        BY <1>4, <2>1 DEF Running, Nodes
      <3>2. Turn = {<<"compute_centroids", "inline">>}
        BY <1>1, <2>1, <3>1, TurnTop
      <3>3. TurnAt("compute_centroids", "inline")
        BY <3>2, RoundAtNow DEF FitInv
      <3> QED BY <3>3 DEF TurnAt
    <2>3. /\ pc = "wait" /\ pc' = "wait"
          /\ Turn = {<<"compute_centroids", "inline">>} /\ Turn' = {<<"compute_centroids", "recover">>}
          /\ Tokens' = {f} /\ RoundInv' /\ TokenInv(Top(w))
          /\ Share(w) = RowRange(Top(w)) /\ Share(w)' = RowRange(f)
          /\ ~ At(w, "chunk", "tear_down")'
          /\ \A v \in Workers \ {w} : stack'[v] = stack[v] /\ Share(v)' = Share(v)
      BY <1>1, <1>5, <1>9, <2>1, <2>2, ComputeMoves
    <2>4. ShareInv'
      BY <1>1, <1>6, <2>3, SharesKept DEF FitInv
    <2>5. JoinInv'
      BY <1>1, <2>3, ComputeSame
    <2>6. TokensInv'
      <3>1. Top(w).released
        BY <2>1, <2>3 DEF TokenInv
      <3>2. TokenInv(f)'
        BY <1>5, <2>1, <3>1 DEF TokenInv
      <3> QED BY <2>3, <3>2 DEF TokensInv
    <2>7. UNCHANGED FitVars
      <3>1. Unlabelled' = Unlabelled
        BY <1>1, <1>6, <2>3, SameUnlabelled
      <3> QED BY <1>1, <2>3, <3>1, RowView DEF FitVars
    <2> QED BY <1>7, <2>3, <2>4, <2>5, <2>6, <2>7 DEF FitInv, Refined
  <1> QED BY <1>1, <1>8, <1>9 DEF InRows

LEMMA FitChunkTearDown ==
    ASSUME IInv, IInv', FitInv, NEW w \in Workers, ChunkTearDown(w) PROVE FitInv' /\ Refined
  <1>1. /\ At(w, "chunk", "tear_down") /\ stack[w] # <<>> /\ Top(w).task = "chunk" /\ Pop(w)
        /\ join_counter' = [join_counter EXCEPT !["compute_centroids"] = @ - 1]
        /\ UNCHANGED <<pc, centroids, labels, sums, counts, m, next, ready, ready_chunks, before>>
    BY DEF ChunkTearDown, At, caller, arrays, queues
  <1>2. Left > 0 /\ Top(w) \notin Running /\ Top(w).at = "tear_down"
    BY <1>1, ChunkLeft DEF At
  <1>3. /\ Share(w)' = {} /\ ~ At(w, "chunk", "tear_down")'
        /\ \A v \in Workers \ {w} : stack'[v] = stack[v] /\ Share(v)' = Share(v)
        /\ Tokens' = Tokens
        /\ Count(RowTasks)' = Count(RowTasks) - 1
    BY <1>1, <1>2, PopMoves DEF One
  <1>4. Left' = Left - 1 /\ Left \in Nat
    <2>1. ready_chunks \in Nat /\ Count(RowTasks) \in Nat
      BY Counts DEF IInv, ShapeInv
    <2> QED BY <1>1, <1>3, <2>1 DEF Left
  <1>5. next = N
    BY <1>1 DEF FitInv, ShareInv
  <1>6. /\ pc = "wait" /\ pc' = "wait"
        /\ \E a \in {"spawn", "join"} :
              Turn = {<<"compute_centroids", a>>} /\ Turn' = {<<"compute_centroids", a>>}
        /\ RoundInv' /\ TokensInv'
    <2>1. Left' <= Left
      BY <1>4
    <2> QED BY <1>1, <1>2, <1>3, <1>5, <2>1, RowKeeps
  <1>7. Share(w) = {}
    BY <1>1, <1>2 DEF Share, RowRange
  <1>8. ShareInv'
    BY <1>1, <1>3, <1>7, SharesKept DEF FitInv
  <1>9. JoinInv'
    <2>1. join_counter["compute_centroids"] = Left
      BY <1>2, RowTurn
    <2>2. join_counter["compute_centroids"] \in 0 .. MaxWorkers
      BY DEF FitInv, JoinInv, Nodes
    <2>3. Left - 1 \in 0 .. MaxWorkers
      <3>1. Left \in 0 .. MaxWorkers
        BY <2>1, <2>2
      <3> QED BY <1>2, <3>1, TaskflowAssumption
    <2>4. join_counter' = [join_counter EXCEPT !["compute_centroids"] = Left - 1]
      BY <1>1, <2>1
    <2> QED BY <1>6, <2>3, <2>4, ComputeJoin
  <1>10. UNCHANGED FitVars
    <2>1. Unlabelled' = Unlabelled
      BY <1>1, <1>3, <1>7, SameUnlabelled
    <2> QED BY <1>1, <1>6, <2>1, RowView DEF FitVars
  <1> QED BY <1>1, <1>6, <1>8, <1>9, <1>10 DEF FitInv, ArrayInv, Refined

-----------------------------------------------------------------------------
(* Steps that leave the turn where it is. *)
LEMMA SameTokens ==
    ASSUME FitInv, Tokens' = Tokens, Left' = Left, UNCHANGED <<m, next>>
    PROVE  TokensInv'
  <1> SUFFICES ASSUME NEW r \in Tokens' PROVE TokenInv(r)'
    BY DEF TokensInv
  <1>1. TokenInv(r)
    BY DEF FitInv, TokensInv
  <1> QED BY <1>1 DEF TokenInv

LEMMA SameTurn ==
    ASSUME IInv, IInv', FitInv, Turn' = Turn, TokensInv',
           \A v \in Workers : Share(v)' = Share(v) /\ (At(v, "chunk", "tear_down")'
                                                         => At(v, "chunk", "tear_down")),
           UNCHANGED <<pc, centroids, labels, sums, counts, m, next, join_counter, before>>
    PROVE  FitInv' /\ Refined
  <1>1. ArrayInv' /\ RoundInv' /\ ShareInv' /\ JoinInv'
    <2>1. ArrayInv'
      BY DEF FitInv, ArrayInv
    <2>2. RoundInv'
      BY DEF FitInv, RoundInv, TurnAt, Cleared
    <2>3. ShareInv'
      BY DEF FitInv, ShareInv
    <2>4. JoinInv'
      BY DEF FitInv, JoinInv
    <2> QED BY <2>1, <2>2, <2>3, <2>4
  <1>2. UNCHANGED FitVars
    <2>1. /\ Sampling <=> pc = "run" \/ \E t \in Turn : SamplingAt(t[1], t[2])
          /\ Computing <=> \E t \in Turn : ComputingAt(t[1], t[2])
          /\ Updated <=> \E t \in Turn : UpdatedAt(t[1], t[2])
      BY Readings DEF IInv
    <2>2. /\ Sampling' <=> pc' = "run" \/ \E t \in Turn' : SamplingAt(t[1], t[2])
          /\ Computing' <=> \E t \in Turn' : ComputingAt(t[1], t[2])
          /\ Updated' <=> \E t \in Turn' : UpdatedAt(t[1], t[2])
      BY ReadingsNext
    <2>3. (Sampling' <=> Sampling) /\ (Computing' <=> Computing) /\ (Updated' <=> Updated)
      BY <2>1, <2>2
    <2>4. Unlabelled' = Unlabelled
      BY SameUnlabelled
    <2> QED BY <2>3, <2>4 DEF FitVars, FitPhase, FitTodo, FitIteration
  <1> QED BY <1>1, <1>2 DEF FitInv, Refined

LEMMA FitTake == ASSUME IInv, IInv', FitInv, NEW w \in Workers, Take(w) PROVE FitInv' /\ Refined
  <1>1. /\ stack[w] # <<>> => Top(w).at = "join" /\ Top(w) \in Invocations
        /\ UNCHANGED <<pc, centroids, labels, sums, counts, m, next, join_counter, before>>
    BY TopFacts DEF IInv, Take, caller, arrays, counters
  <1>2. ASSUME NEW t \in ready, ready' = ready \ {t}, Pushed(w, Frame(t)), UNCHANGED ready_chunks
        PROVE  FitInv' /\ Refined
    <2>1. Tokens = {} /\ ready = {t} /\ Turn = {<<t, "body">>} /\ t \in Nodes /\ t # "chunk"
      BY OnePushed DEF IInv, ShapeInv, Nodes
    <2>2. PICK f : f = Frame(t)
      OBVIOUS
    <2>3. f \in FrameType /\ f.task = t /\ f.at = "body" /\ f.loop = 0 /\ f.released
      BY <2>1, <2>2 DEF Frame, FrameType
    <2>4. f \in Invocations /\ f \in Running
      BY <2>1, <2>3 DEF Invocations, Running
    <2>5. stack[w] = <<>>
      <3> SUFFICES ASSUME stack[w] # <<>> PROVE FALSE
        OBVIOUS
      <3>1. Top(w) \in Running
        BY <1>1 DEF Invocations, Running, Nodes
      <3> QED BY <2>1, <3>1, TurnTop
    <2>6. /\ Top(w)' = f /\ Share(w)' = RowRange(f) /\ Share(w) = {}
          /\ \A v \in Workers \ {w} : stack'[v] = stack[v] /\ Share(v)' = Share(v)
          /\ Tokens' = Tokens \cup {r \in Running : r = f}
      BY <1>2, <2>1, <2>2, <2>4, <2>5, PushMoves
    <2>7. Tokens' = {f}
      BY <2>1, <2>4, <2>6
    <2>8. Turn' = Turn
      BY <1>2, <2>1, <2>3, <2>7 DEF Turn
    <2>9. TokensInv'
      <3>1. TokenInv(f)'
        BY <2>3 DEF TokenInv, Leaving
      <3> QED BY <2>7, <3>1 DEF TokensInv
    <2>10. \A v \in Workers : Share(v)' = Share(v) /\ (At(v, "chunk", "tear_down")'
                                                         => At(v, "chunk", "tear_down"))
      BY <2>3, <2>6 DEF RowRange, At, Top
    <2> QED BY <1>1, <2>8, <2>9, <2>10, SameTurn
  <1>3. ASSUME ready_chunks > 0, ready_chunks' = ready_chunks - 1, Pushed(w, Frame("chunk")),
               UNCHANGED ready
        PROVE  FitInv' /\ Refined
    <2>1. PICK f : f = Frame("chunk")
      OBVIOUS
    <2>2. f \in FrameType /\ f.task = "chunk" /\ f.at = "claim"
      BY <2>1 DEF Frame, FrameType
    <2>3. f \in Invocations /\ f \notin Running
      BY <2>2 DEF Invocations, Running, Nodes
    <2>4. /\ Top(w)' = f /\ Share(w)' = RowRange(f) /\ Share(w) = {}
          /\ \A v \in Workers \ {w} : stack'[v] = stack[v] /\ Share(v)' = Share(v)
          /\ Tokens' = Tokens \cup {r \in Running : r = f}
          /\ Count(RowTasks)' = Count(RowTasks) + 1
      BY <1>1, <1>3, <2>1, <2>2, <2>3, PushMoves DEF One
    <2>5. Tokens' = Tokens
      BY <2>3, <2>4
    <2>6. Turn' = Turn
      BY <1>3, <2>5 DEF Turn
    <2>7. Left' = Left
      <3>1. ready_chunks \in Nat /\ Count(RowTasks) \in Nat
        BY Counts DEF IInv, ShapeInv
      <3> QED BY <1>3, <2>4, <3>1 DEF Left
    <2>8. TokensInv'
      BY <1>1, <2>5, <2>7, SameTokens
    <2>9. \A v \in Workers : Share(v)' = Share(v) /\ (At(v, "chunk", "tear_down")'
                                                        => At(v, "chunk", "tear_down"))
      BY <2>2, <2>4 DEF RowRange, At, Top
    <2> QED BY <1>1, <2>6, <2>8, <2>9, SameTurn
  <1> QED BY <1>2, <1>3 DEF Take, Pushed

(* The end of an invocation, which the graph does not wait for. *)
LEMMA FitLeave ==
    ASSUME IInv, IInv', FitInv, NEW w \in Workers, TearDown(w) \/ Notify(w)
    PROVE  FitInv' /\ Refined
  <1>1. PICK n \in Nodes, a \in {"tear_down", "notify"} : At(w, n, a)
    BY DEF TearDown, Notify
  <1>2. /\ GoTo(w, "notify") \/ Pop(w)
        /\ UNCHANGED <<pc, centroids, labels, sums, counts, m, next, join_counter, ready,
                       ready_chunks, before>>
    BY DEF TearDown, Notify, caller, arrays, counters, queues
  <1>3. /\ Top(w) \in Invocations /\ Top(w) \in FrameType /\ Top(w).task = n /\ Top(w).at = a
        /\ stack[w] # <<>> /\ n # "chunk"
    BY <1>1, TopFacts DEF IInv, At, Invocations, Nodes
  <1>4. Top(w) \notin Running /\ Share(w) = {}
    BY <1>3 DEF Running, Share, RowRange
  <1>5. /\ Tokens' = Tokens /\ Count(RowTasks)' = Count(RowTasks)
        /\ Share(w)' = {} /\ ~ At(w, "chunk", "tear_down")'
        /\ \A v \in Workers \ {w} : stack'[v] = stack[v] /\ Share(v)' = Share(v)
    <2>1. CASE Pop(w)
      <3>1. Count(RowTasks)' = Count(RowTasks) - 0
        BY <1>3, <1>4, <2>1, PopMoves DEF One
      <3>2. Count(RowTasks) \in Nat
        BY Counts DEF IInv
      <3> QED BY <1>3, <1>4, <2>1, <3>1, <3>2, PopMoves
    <2>2. CASE GoTo(w, "notify")
      <3>1. PICK f : f = [Top(w) EXCEPT !.at = "notify"]
        OBVIOUS
      <3>2. f \in FrameType /\ f.task = n /\ f.at = "notify" /\ Put(w, f)
        BY <1>3, <2>2, <3>1 DEF FrameType, GoTo
      <3>3. f \in Invocations /\ f \notin Running
        BY <3>2 DEF Invocations, Running
      <3>4. /\ Top(w)' = f /\ Share(w)' = RowRange(f)
            /\ \A v \in Workers \ {w} : stack'[v] = stack[v] /\ Share(v)' = Share(v)
            /\ Count(RowTasks)' = Count(RowTasks) /\ Tokens' = Tokens
        BY <1>3, <1>4, <3>2, <3>3, PutMoves
      <3> QED BY <3>2, <3>4 DEF RowRange, At
    <2> QED BY <1>2, <2>1, <2>2
  <1>6. Turn' = Turn /\ Left' = Left
    BY <1>2, <1>5 DEF Turn, Left
  <1>7. TokensInv'
    BY <1>2, <1>5, <1>6, SameTokens
  <1>8. \A v \in Workers : Share(v)' = Share(v) /\ (At(v, "chunk", "tear_down")'
                                                      => At(v, "chunk", "tear_down"))
    BY <1>4, <1>5 DEF At, Top
  <1> QED BY <1>2, <1>6, <1>7, <1>8, SameTurn

-----------------------------------------------------------------------------
(* The tail of an invocation, while it has the turn. *)
LEMMA StrongOne ==
    /\ Cardinality(StrongDependents("init")) = 0
    /\ \A n \in Nodes \ {"init"} : Cardinality(StrongDependents(n)) = 1
  <1>1. /\ StrongDependents("init") = {}
        /\ StrongDependents("clean_up") = {"init"}
        /\ StrongDependents("compute_centroids") = {"clean_up"}
        /\ StrongDependents("update_clusters") = {"compute_centroids"}
        /\ StrongDependents("iterate_while") = {"update_clusters"}
    BY DEF StrongDependents, Successor, Nodes
  <1>2. Cardinality(StrongDependents("init")) = 0
    BY <1>1, FS_EmptySet
  <1>3. \A x : Cardinality({x}) = 1
    BY FS_Singleton
  <1>4. ASSUME NEW n \in Nodes \ {"init"} PROVE Cardinality(StrongDependents(n)) = 1
    <2>1. \E x : StrongDependents(n) = {x}
      BY <1>1 DEF Nodes
    <2> QED BY <1>3, <2>1
  <1> QED BY <1>2, <1>4

LEMMA TailFacts ==
    ASSUME IInv, IInv', FitInv, NEW w \in Workers, NEW n \in Nodes, NEW a \in Leaving, At(w, n, a),
           NEW b \in Leaving \cup {"tear_down"}, GoTo(w, b), UNCHANGED <<pc, m, next>>
    PROVE  /\ pc = "wait" /\ pc' = "wait" /\ m \in 0 .. M + 1
           /\ Turn = {<<n, a>>} /\ TurnAt(n, a) /\ TokenInv(Top(w)) /\ Top(w).task = n /\ Top(w).at = a
           /\ \E f \in Invocations :
                 /\ f.task = n /\ f.at = b /\ f.released = Top(w).released
                 /\ Tokens' = IF b \in Leaving THEN {f} ELSE {}
           /\ ready = {} /\ ShareInv' /\ Unlabelled' = Unlabelled
           /\ \A k \in Nodes \ {"init"} : join_counter[k] = 1 \/ Pending(<<n, a>>, k)
           /\ join_counter \in [Nodes -> 0 .. MaxWorkers]
  <1>1. /\ Top(w) \in Invocations /\ Top(w) \in FrameType /\ Top(w).task = n /\ Top(w).at = a
        /\ stack[w] # <<>> /\ n # "chunk" /\ pc = "wait"
    BY TopFacts DEF IInv, At, Invocations, Nodes
  <1>2. PICK f : f = [Top(w) EXCEPT !.at = b]
    OBVIOUS
  <1>3. f \in FrameType /\ f.task = n /\ f.at = b /\ f.released = Top(w).released /\ Put(w, f)
    <2>1. b \in {"recover", "release", "push", "tear_down"}
      BY DEF Leaving
    <2> QED BY <1>1, <1>2, <2>1 DEF FrameType, GoTo
  <1>4. /\ f \in Invocations /\ Top(w) \in Running /\ Top(w) \notin Sharing
        /\ f \in Running <=> b \in Leaving
    BY <1>1, <1>3 DEF Invocations, Running, Sharing, Leaving
  <1>5. Tokens = {Top(w)} /\ ready = {} /\ Turn = {<<n, a>>}
    BY <1>1, <1>4, TurnTop
  <1>6. /\ Top(w)' = f /\ Share(w)' = RowRange(f)
        /\ \A v \in Workers \ {w} : stack'[v] = stack[v] /\ Share(v)' = Share(v)
        /\ Tokens' = {r \in Running : r = f}
    BY <1>1, <1>3, <1>4, PutMoves
  <1>7. Tokens' = IF b \in Leaving THEN {f} ELSE {}
    BY <1>4, <1>6
  <1>8. TurnAt(n, a) /\ m \in 0 .. M + 1 /\ TokenInv(Top(w))
    BY <1>5, RoundAtNow DEF FitInv, TokensInv
  <1>9. Share(w) = {} /\ Share(w)' = {} /\ ~ At(w, "chunk", "tear_down")'
    BY <1>1, <1>3, <1>6 DEF Share, RowRange, Leaving, At
  <1>10. ShareInv' /\ Unlabelled' = Unlabelled
    BY <1>6, <1>9, SharesKept, SameUnlabelled DEF FitInv
  <1>11. \A k \in Nodes \ {"init"} : join_counter[k] = 1 \/ Pending(<<n, a>>, k)
    BY <1>1, <1>5 DEF FitInv, JoinInv
  <1>12. join_counter \in [Nodes -> 0 .. MaxWorkers]
    BY DEF FitInv, JoinInv
  <1> QED BY <1>1, <1>3, <1>4, <1>5, <1>7, <1>8, <1>10, <1>11, <1>12

LEMMA FitRecover ==
    ASSUME IInv, IInv', FitInv, NEW w \in Workers, Recover(w)
    PROVE FitInv' /\ Refined
  <1>1. PICK n \in Nodes :
           /\ At(w, n, "recover")
           /\ join_counter' = [join_counter EXCEPT ![n] = Cardinality(StrongDependents(n))]
    BY DEF Recover
  <1>2. /\ GoTo(w, "release")
        /\ UNCHANGED <<pc, centroids, labels, sums, counts, m, next, ready, ready_chunks, before>>
    BY DEF Recover, caller, arrays, queues
  <1>3. "recover" \in Leaving /\ "release" \in Leaving
    BY DEF Leaving
  <1>4. /\ pc = "wait" /\ pc' = "wait" /\ m \in 0 .. M + 1
        /\ Turn = {<<n, "recover">>} /\ TurnAt(n, "recover") /\ TokenInv(Top(w))
        /\ Top(w).task = n /\ Top(w).at = "recover"
        /\ ready = {} /\ ShareInv' /\ Unlabelled' = Unlabelled
        /\ \A k \in Nodes \ {"init"} : join_counter[k] = 1 \/ Pending(<<n, "recover">>, k)
        /\ join_counter \in [Nodes -> 0 .. MaxWorkers]
    BY <1>1, <1>2, <1>3, TailFacts
  <1>5. PICK f \in Invocations : /\ f.task = n /\ f.at = "release" /\ f.released = Top(w).released
                                 /\ Tokens' = {f}
    BY <1>1, <1>2, <1>3, TailFacts
  <1>6. Turn' = {<<n, "release">>}
    BY <1>2, <1>4, <1>5 DEF Turn
  <1>7. RoundInv'
    <2>1. TurnAt(n, "release")'
      BY <1>2, <1>4 DEF TurnAt, Cleared, Leaving
    <2> QED BY <1>2, <1>4, <1>6, <2>1, RoundAt
  <1>8. TokensInv'
    <2>1. TokenInv(f)'
      BY <1>2, <1>4, <1>5 DEF TokenInv, Leaving
    <2> QED BY <1>5, <2>1 DEF TokensInv
  <1>9. JoinInv'
    <2>1. Cardinality(StrongDependents(n)) \in 0 .. 1 /\ 0 .. 1 \subseteq 0 .. MaxWorkers
      BY StrongOne, TaskflowAssumption
    <2>2. join_counter' \in [Nodes -> 0 .. MaxWorkers]
      BY <1>1, <1>4, <2>1
    <2>3. ASSUME NEW k \in Nodes \ {"init"} PROVE join_counter'[k] = 1
      <3>1. CASE k = n
        BY <1>1, <1>4, <3>1, StrongOne
      <3>2. CASE k # n
        <4>1. ~ Pending(<<n, "recover">>, k)
          BY <3>2 DEF Pending
        <4> QED BY <1>1, <1>4, <3>2, <4>1
      <3> QED BY <3>1, <3>2
    <2> QED BY <2>2, <2>3 DEF JoinInv
  <1>10. UNCHANGED FitVars
    <2>1. /\ ~ SamplingAt(n, "recover") /\ ~ SamplingAt(n, "release")
          /\ ComputingAt(n, "recover") <=> ComputingAt(n, "release")
          /\ UpdatedAt(n, "recover") <=> UpdatedAt(n, "release")
      BY DEF SamplingAt, ComputingAt, UpdatedAt, Leaving
    <2>2. /\ FitPhase = "rounds" /\ FitTodo = (IF ComputingAt(n, "recover") THEN Unlabelled ELSE Rows)
          /\ FitIteration = IF UpdatedAt(n, "recover") THEN m + 1 ELSE m
      BY <1>4, <2>1, View
    <2>3. /\ FitPhase' = "rounds" /\ FitTodo' = (IF ComputingAt(n, "release") THEN Unlabelled' ELSE Rows)
          /\ FitIteration' = IF UpdatedAt(n, "release") THEN m' + 1 ELSE m'
      BY <1>4, <1>6, <2>1, ViewNext
    <2> QED BY <1>2, <1>4, <2>1, <2>2, <2>3 DEF FitVars
  <1> QED BY <1>2, <1>4, <1>7, <1>8, <1>9, <1>10 DEF FitInv, ArrayInv, Refined

-----------------------------------------------------------------------------
(* The join counter of a successor is whole when its one strong dependent  *)
(* releases it: iterate_while sets the counter to 0, the others count it   *)
(* down to 0.                                                              *)
LEMMA FitRelease ==
    ASSUME IInv, IInv', FitInv, NEW w \in Workers, Release(w)
    PROVE FitInv' /\ Refined
  <1>1. PICK n \in Nodes :
           /\ At(w, n, "release")
           /\ LET s == Successor[n]
                  left == IF n = "iterate_while" THEN 0 ELSE join_counter[s] - 1
              IN  IF ~ Top(w).released
                  THEN UNCHANGED counters /\ GoTo(w, "tear_down")
                  ELSE /\ join_counter' = [join_counter EXCEPT ![s] = left]
                       /\ IF left = 0
                          THEN /\ topology_counter' = topology_counter + 1
                               /\ GoTo(w, "push")
                          ELSE /\ UNCHANGED topology_counter
                               /\ GoTo(w, "tear_down")
    BY DEF Release
  <1>2. UNCHANGED <<pc, centroids, labels, sums, counts, m, next, ready, ready_chunks, before>>
    BY DEF Release, caller, arrays, queues
  <1>3. /\ "release" \in Leaving /\ "push" \in Leaving /\ "tear_down" \notin Leaving
        /\ \E b \in {"push", "tear_down"} : GoTo(w, b)
    BY <1>1 DEF Leaving
  <1>4. /\ pc = "wait" /\ pc' = "wait" /\ m \in 0 .. M + 1
        /\ Turn = {<<n, "release">>} /\ TurnAt(n, "release") /\ TokenInv(Top(w))
        /\ Top(w).task = n /\ Top(w).at = "release"
        /\ ready = {} /\ ShareInv' /\ Unlabelled' = Unlabelled
        /\ \A k \in Nodes \ {"init"} : join_counter[k] = 1 \/ Pending(<<n, "release">>, k)
        /\ join_counter \in [Nodes -> 0 .. MaxWorkers]
    BY <1>1, <1>2, <1>3, TailFacts
  <1>5. \A k \in Nodes \ {"init"} : join_counter[k] = 1
    <2>1. \A k : ~ Pending(<<n, "release">>, k)
      BY DEF Pending
    <2> QED BY <1>4, <2>1
  <1>6. Successor[n] \in Nodes \ {"init"}
    BY DEF Successor, Nodes
  <1>7. ArrayInv'
    BY <1>2 DEF FitInv, ArrayInv
  <1>8. /\ FitPhase = "rounds"
        /\ FitTodo = (IF ComputingAt(n, "release") THEN Unlabelled ELSE Rows)
        /\ FitIteration = IF UpdatedAt(n, "release") THEN m + 1 ELSE m
    BY <1>4, View DEF SamplingAt
  <1>9. CASE Top(w).released
    <2>1. GoTo(w, "push") /\ join_counter' = [join_counter EXCEPT ![Successor[n]] = 0]
      <3>1. join_counter[Successor[n]] - 1 = 0
        BY <1>5, <1>6
      <3> QED BY <1>1, <1>9, <3>1
    <2>2. PICK f \in Invocations : /\ f.task = n /\ f.at = "push" /\ f.released = Top(w).released
                                   /\ Tokens' = {f}
      BY <1>1, <1>2, <1>3, <2>1, TailFacts
    <2>3. Turn' = {<<n, "push">>}
      BY <1>2, <1>4, <2>2 DEF Turn
    <2>4. RoundInv'
      <3>1. TurnAt(n, "push")'
        BY <1>2, <1>4 DEF TurnAt, Cleared, Leaving
      <3> QED BY <1>2, <1>4, <2>3, <3>1, RoundAt
    <2>5. TokensInv'
      <3>1. TokenInv(f)'
        BY <1>2, <1>4, <1>9, <2>2 DEF TokenInv, Leaving
      <3> QED BY <2>2, <3>1 DEF TokensInv
    <2>6. JoinInv'
      <3>1. 0 \in 0 .. MaxWorkers
        BY TaskflowAssumption
      <3>2. join_counter' \in [Nodes -> 0 .. MaxWorkers]
        BY <1>4, <1>6, <2>1, <3>1
      <3>3. ASSUME NEW k \in Nodes \ {"init"} PROVE join_counter'[k] = 1 \/ Pending(<<n, "push">>, k)
        BY <1>4, <1>5, <2>1 DEF Pending
      <3> QED BY <2>3, <3>2, <3>3 DEF JoinInv
    <2>7. UNCHANGED FitVars
      <3>1. /\ ~ SamplingAt(n, "push")
            /\ ComputingAt(n, "release") <=> ComputingAt(n, "push")
            /\ UpdatedAt(n, "release") <=> UpdatedAt(n, "push")
        BY DEF SamplingAt, ComputingAt, UpdatedAt, Leaving
      <3>2. /\ FitPhase' = "rounds"
            /\ FitTodo' = (IF ComputingAt(n, "push") THEN Unlabelled' ELSE Rows)
            /\ FitIteration' = IF UpdatedAt(n, "push") THEN m' + 1 ELSE m'
        BY <1>4, <2>3, <3>1, ViewNext
      <3> QED BY <1>2, <1>4, <1>8, <3>1, <3>2 DEF FitVars
    <2> QED BY <1>4, <1>7, <2>4, <2>5, <2>6, <2>7 DEF FitInv, Refined
  <1>10. CASE ~ Top(w).released
    <2>1. GoTo(w, "tear_down") /\ UNCHANGED join_counter
      BY <1>1, <1>10 DEF counters
    <2>2. Tokens' = {}
      BY <1>1, <1>2, <1>3, <2>1, TailFacts
    <2>3. Turn' = {}
      BY <1>2, <1>4, <2>2 DEF Turn
    <2>4. n = "iterate_while" /\ m = M + 1
      <3>1. n = "iterate_while" /\ ~ (m <= M)
        BY <1>4, <1>10 DEF TokenInv, Leaving
      <3> QED BY <1>4, <3>1, TaskflowAssumption
    <2>5. RoundInv'
      BY <1>2, <1>4, <2>3, <2>4 DEF RoundInv
    <2>6. TokensInv'
      BY <2>2 DEF TokensInv
    <2>7. JoinInv'
      BY <1>4, <1>5, <2>1 DEF JoinInv
    <2>8. UNCHANGED FitVars
      <3>1. ~ ComputingAt(n, "release") /\ ~ UpdatedAt(n, "release")
        BY <2>4 DEF ComputingAt, UpdatedAt
      <3>2. FitPhase' = "rounds" /\ FitTodo' = Rows /\ FitIteration' = m'
        BY <1>4, <2>3, ViewNext
      <3> QED BY <1>2, <1>8, <3>1, <3>2 DEF FitVars
    <2> QED BY <1>4, <1>7, <2>5, <2>6, <2>7, <2>8 DEF FitInv, Refined
  <1> QED BY <1>9, <1>10

LEMMA FitPush == ASSUME IInv, IInv', FitInv, NEW w \in Workers, Push(w) PROVE FitInv' /\ Refined
  <1>1. PICK n \in Nodes : At(w, n, "push") /\ ready' = ready \cup {Successor[n]}
    BY DEF Push
  <1>2. /\ GoTo(w, "tear_down")
        /\ UNCHANGED <<pc, centroids, labels, sums, counts, m, next, join_counter, ready_chunks,
                       before>>
    BY DEF Push, caller, arrays, counters
  <1>3. "push" \in Leaving /\ "tear_down" \notin Leaving
    BY DEF Leaving
  <1>4. /\ pc = "wait" /\ pc' = "wait" /\ m \in 0 .. M + 1
        /\ Turn = {<<n, "push">>} /\ TurnAt(n, "push") /\ TokenInv(Top(w))
        /\ Top(w).task = n /\ Top(w).at = "push"
        /\ ready = {} /\ ShareInv' /\ Unlabelled' = Unlabelled
        /\ \A k \in Nodes \ {"init"} : join_counter[k] = 1 \/ Pending(<<n, "push">>, k)
        /\ join_counter \in [Nodes -> 0 .. MaxWorkers]
        /\ Tokens' = {}
    BY <1>1, <1>2, <1>3, TailFacts
  <1>5. PICK s : s = Successor[n]
    OBVIOUS
  <1>6. Turn' = {<<s, "body">>}
    BY <1>1, <1>4, <1>5 DEF Turn
  <1>7. RoundInv'
    <2>1. m <= M
      BY <1>4 DEF TurnAt, TokenInv, Leaving
    <2>2. s # "init"
      BY <1>5 DEF Successor, Nodes
    <2>3. s = "compute_centroids" => n = "clean_up"
      BY <1>5 DEF Successor, Nodes
    <2>4. s = "update_clusters" => n = "compute_centroids"
      BY <1>5 DEF Successor, Nodes
    <2>5. s \in {"compute_centroids", "update_clusters"} => Cleared
      BY <1>4, <2>3, <2>4 DEF TurnAt, Leaving
    <2>6. s = "update_clusters" => next = N
      BY <1>4, <2>4 DEF TurnAt, Leaving
    <2>7. TurnAt(s, "body")'
      BY <1>2, <2>1, <2>2, <2>5, <2>6 DEF TurnAt, Cleared, Leaving
    <2> QED BY <1>2, <1>4, <1>6, <2>7, RoundAt
  <1>8. TokensInv'
    BY <1>4 DEF TokensInv
  <1>9. JoinInv'
    <2>1. ASSUME NEW k \in Nodes \ {"init"} PROVE join_counter[k] = 1 \/ Pending(<<s, "body">>, k)
      <3>1. Pending(<<n, "push">>, k) => k = s
        BY <1>5 DEF Pending
      <3>2. k = s => Pending(<<s, "body">>, k)
        BY DEF Pending
      <3> QED BY <1>4, <3>1, <3>2
    <2> QED BY <1>2, <1>4, <1>6, <2>1 DEF JoinInv
  <1>10. UNCHANGED FitVars
    <2>1. /\ ~ SamplingAt(n, "push") /\ ~ SamplingAt(s, "body")
          /\ ComputingAt(n, "push") <=> ComputingAt(s, "body")
          /\ UpdatedAt(n, "push") <=> UpdatedAt(s, "body")
      BY <1>5 DEF SamplingAt, ComputingAt, UpdatedAt, Leaving, Successor, Nodes
    <2>2. /\ FitPhase = "rounds" /\ FitTodo = (IF ComputingAt(n, "push") THEN Unlabelled ELSE Rows)
          /\ FitIteration = IF UpdatedAt(n, "push") THEN m + 1 ELSE m
      BY <1>4, <2>1, View
    <2>3. /\ FitPhase' = "rounds" /\ FitTodo' = (IF ComputingAt(s, "body") THEN Unlabelled' ELSE Rows)
          /\ FitIteration' = IF UpdatedAt(s, "body") THEN m' + 1 ELSE m'
      BY <1>4, <1>6, <2>1, ViewNext
    <2> QED BY <1>2, <1>4, <2>1, <2>2, <2>3 DEF FitVars
  <1> QED BY <1>2, <1>4, <1>7, <1>8, <1>9, <1>10 DEF FitInv, ArrayInv, Refined

-----------------------------------------------------------------------------
(* The thread that calls fit. *)
LEMMA NoTurn ==
    IInv /\ (\A w \in Workers : stack[w] = <<>>) =>
        /\ Tokens = {} /\ Turn = {<<n, "body">> : n \in ready}
        /\ \A w \in Workers : Share(w) = {} /\ ~ At(w, "chunk", "tear_down")
  <1> SUFFICES ASSUME IInv, \A w \in Workers : stack[w] = <<>>
               PROVE  /\ Tokens = {} /\ Turn = {<<n, "body">> : n \in ready}
                      /\ \A w \in Workers : Share(w) = {} /\ ~ At(w, "chunk", "tear_down")
    OBVIOUS
  <1>1. \A P : Count(P) = 0
    BY Counts DEF IInv
  <1>2. Tokens = {}
    BY <1>1 DEF Tokens
  <1> QED BY <1>2 DEF Turn, Share, At

LEMMA ViewIdle ==
    IInv /\ Turn = {} =>
        /\ FitPhase = IF pc = "run" THEN "sampling"
                      ELSE IF pc = "returned" THEN "returned" ELSE "rounds"
        /\ FitTodo = Rows
        /\ FitIteration = IF pc = "run" THEN IF before THEN M + 1 ELSE 0 ELSE m
  <1> SUFFICES ASSUME IInv, Turn = {}
               PROVE  /\ FitPhase = IF pc = "run" THEN "sampling"
                                    ELSE IF pc = "returned" THEN "returned" ELSE "rounds"
                      /\ FitTodo = Rows
                      /\ FitIteration = IF pc = "run" THEN IF before THEN M + 1 ELSE 0 ELSE m
    OBVIOUS
  <1>1. (Sampling <=> pc = "run") /\ ~ Computing /\ ~ Updated
    BY Readings DEF IInv
  <1> QED BY <1>1 DEF FitPhase, FitTodo, FitIteration

LEMMA ViewIdleNext ==
    ASSUME IInv', Turn' = {}
    PROVE  /\ FitPhase' = IF pc' = "run" THEN "sampling"
                          ELSE IF pc' = "returned" THEN "returned" ELSE "rounds"
           /\ FitTodo' = Rows
           /\ FitIteration' = IF pc' = "run" THEN IF before' THEN M + 1 ELSE 0 ELSE m'
  <1>1. (IInv /\ Turn = {} =>
           /\ FitPhase = IF pc = "run" THEN "sampling"
                         ELSE IF pc = "returned" THEN "returned" ELSE "rounds"
           /\ FitTodo = Rows
           /\ FitIteration = IF pc = "run" THEN IF before THEN M + 1 ELSE 0 ELSE m)'
    BY ViewIdle, PTL
  <1> QED BY <1>1

LEMMA NoTurnNext ==
    ASSUME IInv', \A w \in Workers : stack'[w] = <<>>
    PROVE  /\ Tokens' = {} /\ Turn' = {<<n, "body">> : n \in ready'}
           /\ ShareInv' /\ TokensInv'
  <1>1. (IInv /\ (\A w \in Workers : stack[w] = <<>>) =>
           /\ Tokens = {} /\ Turn = {<<n, "body">> : n \in ready}
           /\ \A w \in Workers : Share(w) = {} /\ ~ At(w, "chunk", "tear_down"))'
    BY NoTurn, PTL
  <1>2. /\ Tokens' = {} /\ Turn' = {<<n, "body">> : n \in ready'}
        /\ \A w \in Workers : Share(w)' = {} /\ ~ At(w, "chunk", "tear_down")'
    BY <1>1
  <1> QED BY <1>2 DEF ShareInv, TokensInv

LEMMA FitRun == ASSUME IInv, IInv', FitInv, Run PROVE FitInv' /\ Refined
  <1>1. /\ pc = "run" /\ pc' = "wait" /\ ready = {} /\ ready' = {"init"}
        /\ \A w \in Workers : stack[w] = <<>> /\ stack'[w] = <<>>
        /\ join_counter' = [n \in Nodes |-> Cardinality(StrongDependents(n))]
        /\ UNCHANGED <<centroids, labels, sums, counts, m, next, before>>
    BY DEF Run, arrays, IInv, ShapeInv
  <1>2. Turn = {} /\ Turn' = {<<"init", "body">>} /\ ShareInv' /\ TokensInv'
    BY <1>1, NoTurn, NoTurnNext
  <1>3. m = 0
    BY <1>1 DEF FitInv, RoundInv
  <1>4. RoundInv'
    <2>1. TurnAt("init", "body")' /\ m' \in 0 .. M + 1
      BY <1>1, <1>3, TaskflowAssumption DEF TurnAt
    <2> QED BY <1>1, <1>2, <2>1, RoundAt
  <1>5. JoinInv'
    <2>1. \A n \in Nodes : Cardinality(StrongDependents(n)) \in 0 .. MaxWorkers
      <3>1. \A n \in Nodes : Cardinality(StrongDependents(n)) \in {0, 1}
        BY StrongOne
      <3>2. {0, 1} \subseteq 0 .. MaxWorkers
        BY TaskflowAssumption
      <3> QED BY <3>1, <3>2
    <2> QED BY <1>1, <2>1, StrongOne DEF JoinInv
  <1>6. UNCHANGED FitVars
    <2>1. FitPhase = "sampling" /\ FitTodo = Rows /\ FitIteration = (IF before THEN M + 1 ELSE 0)
      BY <1>1, <1>2, ViewIdle
    <2>2. FitPhase' = "sampling" /\ FitTodo' = Rows /\ FitIteration' = (IF before' THEN M + 1 ELSE 0)
      BY <1>1, <1>2, ViewNext DEF SamplingAt, ComputingAt
    <2> QED BY <1>1, <2>1, <2>2 DEF FitVars
  <1> QED BY <1>1, <1>2, <1>4, <1>5, <1>6 DEF FitInv, ArrayInv, Refined

LEMMA FitReturn == ASSUME IInv, IInv', FitInv, Return PROVE FitInv' /\ Refined
  <1>1. /\ pc = "wait" /\ pc' = "returned" /\ before'
        /\ \A w \in Workers : stack[w] = <<>> /\ stack'[w] = <<>>
        /\ UNCHANGED <<centroids, labels, sums, counts, m, next, join_counter, ready>>
    BY DEF Return, arrays, counters, queues
  <1>2. ready' = {}
    BY <1>1 DEF IInv, ShapeInv
  <1>3. Turn = {} /\ Turn' = {} /\ ShareInv' /\ TokensInv'
    BY <1>1, <1>2, NoTurn, NoTurnNext
  <1>4. m = M + 1
    BY <1>1, <1>3 DEF FitInv, RoundInv
  <1>5. RoundInv' /\ JoinInv'
    BY <1>1, <1>3, <1>4 DEF FitInv, RoundInv, JoinInv
  <1>6. ArrayInv'
    BY <1>1 DEF FitInv, ArrayInv, Return
  <1>7. Fitting!Finish
    <2>1. FitPhase = "rounds" /\ FitTodo = Rows /\ FitIteration = M + 1
      BY <1>1, <1>3, <1>4, ViewIdle
    <2>2. FitPhase' = "returned" /\ FitTodo' = Rows /\ FitIteration' = M + 1
      BY <1>1, <1>3, <1>4, ViewIdleNext
    <2>3. before' = TRUE
      BY DEF Return
    <2> QED BY <1>1, <2>1, <2>2, <2>3 DEF Fitting!Finish
  <1> QED BY <1>3, <1>5, <1>6, <1>7 DEF FitInv, Refined, Fitting!Next

LEMMA FitRefit == ASSUME IInv, IInv', FitInv, Refit PROVE FitInv' /\ Refined
  <1>1. /\ pc = "returned" /\ pc' = "run" /\ ready = {} /\ ready' = {}
        /\ \A w \in Workers : stack[w] = <<>> /\ stack'[w] = <<>>
        /\ centroids' = ZeroCentroids /\ sums' = ZeroSums /\ counts' = ZeroCounts /\ m' = 0
        /\ join_counter' = ZeroJoinCounters
        /\ UNCHANGED <<labels, next, before>>
    BY DEF Refit, queues, IInv, ShapeInv
  <1>2. Turn = {} /\ Turn' = {} /\ ShareInv' /\ TokensInv'
    BY <1>1, NoTurn, NoTurnNext
  <1>3. RoundInv'
    BY <1>1, <1>2, TaskflowAssumption DEF RoundInv
  <1>4. JoinInv'
    <2>1. join_counter' \in [Nodes -> 0 .. MaxWorkers]
      BY <1>1, TaskflowAssumption DEF ZeroJoinCounters
    <2> QED BY <1>1, <2>1 DEF JoinInv
  <1>5. ArrayInv'
    <2>1. ZeroSums \in [Clusters -> Vector] /\ ZeroCounts \in [Clusters -> Nat]
      BY DEF ZeroSums, ZeroCounts, ZeroVector, Vector
    <2>2. ZeroCentroids \in [Clusters -> Centroid]
      BY DEF ZeroCentroids, PointAsCentroid, Centroid, ZeroVector, Vector
    <2> QED BY <1>1, <2>1, <2>2 DEF FitInv, ArrayInv
  <1>6. Fitting!Refit
    <2>1. before /\ m = M + 1
      BY <1>1 DEF FitInv, RoundInv
    <2>2. FitPhase = "returned" /\ FitTodo = Rows /\ FitIteration = M + 1
      BY <1>1, <1>2, <2>1, ViewIdle
    <2>3. FitPhase' = "sampling" /\ FitTodo' = Rows /\ FitIteration' = M + 1
      BY <1>1, <1>2, <2>1, ViewIdleNext
    <2> QED BY <1>1, <2>2, <2>3, SameSampled DEF Fitting!Refit
  <1> QED BY <1>2, <1>3, <1>4, <1>5, <1>6 DEF FitInv, Refined, Fitting!Next

LEMMA FitStutter == ASSUME IInv, IInv', FitInv, UNCHANGED vars PROVE FitInv' /\ Refined
  <1>1. UNCHANGED <<pc, centroids, labels, sums, counts, m, next, join_counter, before, ready,
                    ready_chunks, stack>>
    BY DEF vars, caller, arrays, counters, queues
  <1>2. Tokens' = Tokens /\ Turn' = Turn /\ Left' = Left
    BY <1>1 DEF Tokens, Turn, Left, Count, In
  <1>3. TokensInv'
    BY <1>1, <1>2, SameTokens
  <1>4. \A v \in Workers : Share(v)' = Share(v) /\ (At(v, "chunk", "tear_down")'
                                                      => At(v, "chunk", "tear_down"))
    BY <1>1 DEF Share, At, Top
  <1> QED BY <1>1, <1>2, <1>3, <1>4, SameTurn

LEMMA FitInitially == ASSUME Init PROVE FitInv /\ Fitting!Init
  <1>1. IInv /\ ready = {} /\ \A w \in Workers : stack[w] = <<>>
    BY Initially DEF Init
  <1>2. Turn = {} /\ Tokens = {} /\ \A w \in Workers : Share(w) = {} /\ ~ At(w, "chunk", "tear_down")
    BY <1>1, NoTurn
  <1>3. ArrayInv
    <2>1. ZeroSums \in [Clusters -> Vector] /\ ZeroCounts \in [Clusters -> Nat]
      BY DEF ZeroSums, ZeroCounts, ZeroVector, Vector
    <2>2. ZeroCentroids \in [Clusters -> Centroid]
      BY DEF ZeroCentroids, PointAsCentroid, Centroid, ZeroVector, Vector
    <2>3. 0 \in Clusters
      BY LloydAssumption DEF Clusters
    <2> QED BY <2>1, <2>2, <2>3 DEF Init, ArrayInv
  <1>4. RoundInv
    BY <1>2, TaskflowAssumption DEF Init, RoundInv
  <1>5. JoinInv
    BY TaskflowAssumption DEF Init, JoinInv, ZeroJoinCounters
  <1>6. TokensInv /\ ShareInv
    BY <1>2 DEF TokensInv, ShareInv
  <1>7. Fitting!Init
    <2>1. FitPhase = "sampling" /\ FitTodo = Rows /\ FitIteration = 0
      BY <1>1, <1>2, ViewIdle DEF Init
    <2> QED BY <2>1, SameSets, SameSampled DEF Init, Fitting!Init
  <1> QED BY <1>3, <1>4, <1>5, <1>6, <1>7 DEF FitInv

LEMMA FitStep == ASSUME IInv, IInv', FitInv, [Next]_vars PROVE FitInv' /\ Refined
  <1>1. CASE Run
    BY <1>1, FitRun
  <1>2. CASE Return
    BY <1>2, FitReturn
  <1>3. CASE Refit
    BY <1>3, FitRefit
  <1>4. ASSUME NEW w \in Workers, Take(w) PROVE FitInv' /\ Refined
    BY <1>4, FitTake
  <1>5. ASSUME NEW w \in Workers, Invoke(w) PROVE FitInv' /\ Refined
    <2>1. CASE InitBody(w)
      BY <2>1, FitInit
    <2>2. CASE CleanUpBody(w)
      BY <2>2, FitCleanUp
    <2>3. CASE UpdateBody(w)
      BY <2>3, FitUpdate
    <2>4. CASE IterateBody(w)
      BY <2>4, FitIterate
    <2>5. CASE ComputeBody(w)
      BY <2>5, FitCompute
    <2>6. CASE SpawnChunk(w)
      BY <2>6, FitSpawnChunk
    <2>7. CASE SpawnDone(w) \/ Joined(w)
      BY <2>7, FitSpawnDone
    <2>8. CASE ClaimChunk(w)
      BY <2>8, FitClaim
    <2>9. CASE NothingLeft(w)
      BY <2>9, FitNothingLeft
    <2>10. CASE LabelRow(w)
      BY <2>10, FitLabelRow
    <2>11. CASE RowsDone(w)
      BY <2>11, FitRowsDone
    <2>12. CASE ChunkTearDown(w)
      BY <2>12, FitChunkTearDown
    <2>13. CASE Recover(w)
      BY <2>13, FitRecover
    <2>14. CASE Release(w)
      BY <2>14, FitRelease
    <2>15. CASE Push(w)
      BY <2>15, FitPush
    <2>16. CASE TearDown(w) \/ Notify(w)
      BY <2>16, FitLeave
    <2> QED BY <1>5, <2>1, <2>2, <2>3, <2>4, <2>5, <2>6, <2>7, <2>8, <2>9, <2>10, <2>11, <2>12,
               <2>13, <2>14, <2>15, <2>16 DEF Invoke
  <1>6. CASE UNCHANGED vars
    BY <1>6, FitStutter
  <1> QED BY <1>1, <1>2, <1>3, <1>4, <1>5, <1>6 DEF Next, TakeAny

(* What the turn, the shares of the rows and the join counters are, of     *)
(* every reachable state.                                                  *)
THEOREM FitKept == Spec => []FitInv
  <1>1. Init => FitInv
    BY FitInitially
  <1>2. IInv /\ IInv' /\ FitInv /\ [Next]_vars => FitInv'
    BY FitStep
  <1> QED BY <1>1, <1>2, TurnKept, PTL DEF Spec

(* Every execution of the task graph, by any number of workers, is one of  *)
(* the fit KMeans describes, with M + 1 rounds.                            *)
THEOREM Refinement == Spec => Fitting!Spec
  <1>1. Init => Fitting!Init
    BY FitInitially
  <1>2. IInv /\ IInv' /\ FitInv /\ [Next]_vars => [Fitting!Next]_(Fitting!vars)
    BY FitStep, SameVars DEF Refined
  <1> QED BY <1>1, <1>2, TurnKept, FitKept, PTL DEF Spec, Fitting!Spec

(* A worker holds at most one task of the graph. *)
LEMMA OneHeld == ASSUME ShapeInv PROVE Count(Holding) <= MaxWorkers
  <1> DEFINE S == In(stack, Holding)
             held == [f \in S |-> f[1]]
  <1>1. ASSUME NEW f \in S PROVE f[1] \in Workers /\ f = <<f[1], Len(stack[f[1]])>>
    <2>1. /\ f \in Workers \X (1 .. 2) /\ f[2] <= Len(stack[f[1]])
          /\ stack[f[1]][f[2]] \in Holding
      BY DEF In
    <2>2. f[1] \in Workers /\ f[2] \in {1, 2} /\ f = <<f[1], f[2]>>
      <3>1. f[1] \in Workers /\ f[2] \in 1 .. 2 /\ f = <<f[1], f[2]>>
        BY <2>1
      <3> QED BY <3>1
    <2>3. stack[f[1]] \in Stacks
      BY <2>2 DEF ShapeInv
    <2>4. Len(stack[f[1]]) \in {0, 1, 2}
          /\ (Len(stack[f[1]]) = 2 => stack[f[1]][1].task = "chunk")
      BY <2>3, StackFacts
    <2>5. \A r \in Holding : r.task # "chunk"
      BY DEF Holding, Nodes
    <2>6. f[2] = 1 => Len(stack[f[1]]) # 2
      BY <2>1, <2>4, <2>5
    <2>7. \A i \in {1, 2}, n \in {0, 1, 2} : i <= n /\ (i = 1 => n # 2) => i = n
      OBVIOUS
    <2>8. f[2] = Len(stack[f[1]])
      BY <2>1, <2>2, <2>4, <2>6, <2>7, Zenon
    <2> QED BY <2>2, <2>8
  <1>2. held \in Injection(S, Workers)
    <2>1. held \in [S -> Workers]
      BY <1>1
    <2>2. \A f, g \in S : held[f] = held[g] => f = g
      <3> SUFFICES ASSUME NEW f \in S, NEW g \in S, f[1] = g[1] PROVE f = g
        OBVIOUS
      <3> HIDE DEF S
      <3> QED BY <1>1
    <2> HIDE DEF held, S
    <2>3. IsInjective(held)
      BY <2>1, <2>2 DEF IsInjective
    <2> QED BY <2>1, <2>3 DEF Injection
  <1>3. IsFiniteSet(Workers) /\ Cardinality(Workers) = MaxWorkers
    <2>1. 1 \in Int /\ MaxWorkers \in Int /\ ~ (1 > MaxWorkers) /\ MaxWorkers - 1 + 1 = MaxWorkers
      BY TaskflowAssumption
    <2>2. /\ IsFiniteSet(1 .. MaxWorkers)
          /\ Cardinality(1 .. MaxWorkers) = IF 1 > MaxWorkers THEN 0 ELSE MaxWorkers - 1 + 1
      BY <2>1, FS_Interval
    <2> QED BY <2>1, <2>2 DEF Workers
  <1> HIDE DEF held
  <1>4. Cardinality(S) <= Cardinality(Workers)
    BY <1>2, <1>3, FS_Injection
  <1> QED BY <1>3, <1>4 DEF Count

(* The counters and the queue of the graph stay within the workers there   *)
(* are, and the centroids, the labels and the sums within their types.     *)
THEOREM TypeCorrect == Spec => []TypeOK
  <1>1. ASSUME IInv, FitInv PROVE TypeOK
    <2>1. /\ num_of_threads \in Workers /\ next \in 0 .. N /\ ready \subseteq Nodes
          /\ ready_chunks \in Nat /\ stack \in [Workers -> Stacks]
      BY <1>1 DEF IInv, ShapeInv
    <2>2. /\ centroids \in [Clusters -> Centroid] /\ labels \in [Rows -> Clusters]
          /\ sums \in [Clusters -> Vector] /\ counts \in [Clusters -> Nat] /\ before \in BOOLEAN
      BY <1>1 DEF FitInv, ArrayInv
    <2>3. pc \in {"run", "wait", "returned"} /\ m \in 0 .. M + 1
      BY <1>1 DEF FitInv, RoundInv
    <2>4. join_counter \in [Nodes -> 0 .. MaxWorkers + 1]
      <3>1. 0 .. MaxWorkers \subseteq 0 .. MaxWorkers + 1
        BY TaskflowAssumption
      <3>2. join_counter \in [Nodes -> 0 .. MaxWorkers]
        BY <1>1 DEF FitInv, JoinInv
      <3> QED BY <3>1, <3>2
    <2>5. topology_counter \in 0 .. 2 * MaxWorkers /\ num_topologies \in 0 .. 1
      <3>1. /\ Cardinality(ready) \in Nat /\ Count(Holding) \in Nat /\ Count(Pushing) \in Nat
            /\ Count(Running) \in Nat /\ Count(Notifying) \in Nat
            /\ Count(Pushing) <= Count(Running)
        BY <1>1, Counts, Part DEF IInv
      <3>2. Cardinality(ready) + Count(Running) <= 1 /\ Count(Holding) <= MaxWorkers
        BY <1>1, OneHeld DEF IInv, TurnInv
      <3>3. topology_counter = Cardinality(ready) + Count(Holding) + Count(Pushing)
            /\ num_topologies = (IF topology_counter > 0 THEN 1 ELSE 0) + Count(Notifying)
            /\ num_topologies <= 1
        BY <1>1 DEF IInv, TopologyInv
      <3> QED BY <3>1, <3>2, <3>3, TaskflowAssumption
    <2>6. ready_chunks \in 0 .. MaxWorkers
      <3>1. ready_chunks <= Left /\ Left \in Nat
        <4>1. Count(RowTasks) \in Nat
          BY <1>1, Counts DEF IInv
        <4> QED BY <2>1, <4>1 DEF Left
      <3>2. ASSUME Left > 0 PROVE Left <= MaxWorkers
        <4>1. PICK r \in Settled : r.at \in {"spawn", "join"} /\ Tokens = {r}
          BY <1>1, <3>2, RowTurn
        <4>2. TokenInv(r)
          BY <1>1, <4>1 DEF FitInv, TokensInv
        <4>3. r.loop \in Nat /\ r.end \in Nat
          BY DEF Settled, Invocations, FrameType
        <4> QED BY <3>1, <4>1, <4>2, <4>3, TaskflowAssumption DEF TokenInv
      <3> QED BY <2>1, <3>1, <3>2, TaskflowAssumption
    <2>7. ASSUME NEW w \in Workers PROVE Len(stack[w]) <= 2 /\ Range(stack[w]) \subseteq FrameType
      <3>1. stack[w] \in Stacks
        BY <2>1
      <3>2. stack[w] \in Seq(Invocations) /\ Len(stack[w]) <= 2
        BY <3>1 DEF Stacks
      <3>3. \A i \in DOMAIN stack[w] : stack[w][i] \in Invocations
        BY <3>2
      <3> QED BY <3>2, <3>3 DEF Range, Invocations
    <2> QED BY <2>1, <2>2, <2>3, <2>4, <2>5, <2>6, <2>7 DEF TypeOK
  <1>2. IInv /\ FitInv => TypeOK
    BY <1>1
  <1> QED BY <1>2, TurnKept, FitKept, PTL

-----------------------------------------------------------------------------
(* The objective. *)
LEMMA SameObjective == \A l, c : Fitting!Objective(l, c) = Objective(l, c)
  BY DEF Fitting!Objective, Objective, Fitting!L2, L2, Fitting!Coords, Coords, Fitting!Rows,
     Rows, Fitting!Clusters, Clusters, MapThenSumSet, Fitting!MapThenSumSet,
     FoldFunctionOnSet, Fitting!FoldFunctionOnSet, MapThenFoldSet, Fitting!MapThenFoldSet

LEMMA FitSteps ==
    ASSUME Fitting!Next
    PROVE  /\ CentroidStep(labels, centroids, centroids')
           /\ FitPhase = "rounds" => RoundStep(labels, centroids, labels', centroids')
  <1>1. CASE Fitting!Sample
    <2>1. PICK s \in Injection(Clusters, Rows) : centroids' = SampledCentroids(s)
      BY <1>1, SameSets, SameSampled, SameInjection DEF Fitting!Sample
    <2>2. s \in [Clusters -> Rows] /\ FitPhase # "rounds"
      BY <1>1 DEF Injection, Fitting!Sample
    <2> QED BY <2>1, <2>2 DEF CentroidStep
  <1>2. CASE \E r \in Fitting!Rows : Fitting!AssignRow(r)
    BY <1>2, SameSets, SameNearest DEF Fitting!AssignRow, CentroidStep, RoundStep
  <1>3. CASE Fitting!UpdateCentroids
    BY <1>3, SameMeans DEF Fitting!UpdateCentroids, CentroidStep, RoundStep
  <1>4. CASE Fitting!Finish
    BY <1>4 DEF Fitting!Finish, CentroidStep, RoundStep
  <1>5. CASE Fitting!Refit
    BY <1>5, SameSampled DEF Fitting!Refit, CentroidStep
  <1> QED BY <1>1, <1>2, <1>3, <1>4, <1>5 DEF Fitting!Next

LEMMA FitTypes ==
    ASSUME TypeOK
    PROVE  labels \in [Rows -> Clusters] /\ centroids \in [Clusters -> Centroid]
  BY DEF TypeOK

(* Every row has a centroid nearer than numeric_limits<T>::max(), from     *)
(* which the scan starts: its label is then that of a nearest one.         *)
AllReachable == FitPhase = "rounds" => Reachable(centroids)

(* Within a call the clustering never gets worse, as long as every row has *)
(* a centroid within range: neither a label nor a mean raises the sum of   *)
(* the squared distances.                                                  *)
THEOREM NeverRisesInReach == Spec /\ []AllReachable => Fitting!ObjectiveNeverRises
  <1> DEFINE Lowers ==
               FitPhase = "rounds" =>
                 ~ Fitting!Less(Fitting!Objective(labels, centroids),
                                Fitting!Objective(labels', centroids'))
  <1>1. TypeOK /\ AllReachable /\ [Fitting!Next]_(Fitting!vars) => [Lowers]_(Fitting!vars)
    BY FitSteps, FitTypes, RoundStepLowers, SameObjective DEF AllReachable, Fitting!Less, Less
  <1>2. Fitting!ObjectiveNeverRises <=> [][Lowers]_(Fitting!vars)
    BY DEF Fitting!ObjectiveNeverRises
  <1> HIDE DEF Lowers
  <1> QED BY <1>1, <1>2, TypeCorrect, Refinement, PTL DEF Fitting!Spec

(* With data in range nothing more is needed, whatever the workers do.     *)
THEOREM NeverRises == ASSUME DataInRange PROVE Spec => Fitting!ObjectiveNeverRises
  <1>1. PICK b \in Nat : InRange(b)
    BY DEF DataInRange
  <1> DEFINE BoxInv == Boxed(centroids, b)
  <1>2. Fitting!Init => BoxInv
    BY SameSampled, ZeroInBox DEF Fitting!Init, Boxed
  <1>3. BoxInv /\ [Fitting!Next]_(Fitting!vars) => BoxInv'
    BY <1>1, FitSteps, CentroidStepBoxed DEF Fitting!vars
  <1>4. BoxInv /\ TypeOK => AllReachable
    BY <1>1, FitTypes, BoxedReachable DEF AllReachable
  <1> HIDE DEF BoxInv
  <1> QED BY <1>2, <1>3, <1>4, TypeCorrect, Refinement, NeverRisesInReach, PTL DEF Fitting!Spec
=============================================================================
