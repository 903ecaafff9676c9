--------------------------- MODULE Notifier_proofs ---------------------------
(***************************************************************************)
(* The notifier implements EventCount, for any number of waiters and of    *)
(* threads that notify them: turns are given out without gap or overlap,   *)
(* no sleeper is lost from the lock-free stack, and none is in two hands.  *)
(***************************************************************************)
EXTENDS Notifier, FiniteSetTheorems, TLAPS

(* The waiters in prewait have the turns 0 .. prewait - 1, one each. *)
TurnInv ==
    /\ prewait = Cardinality(Awaited)
    /\ \A w \in Awaited : turn[w] < prewait
    /\ \A w, u \in Awaited : turn[w] = turn[u] => w = u
    /\ \A i \in 0 .. prewait - 1 : \E w \in Awaited : turn[w] = i

CommitInv == \A w \in Waiters : at[w] = "commit" => signal[w] = "not signaled"

(* No waiter on the chain from l can be reached from its own next pointer. *)
Acyclic(f, l) == \A w \in Reach(f, l) : w \notin Reach(f, f[w])

(* The lists that threads walk end, and go on past the waiter let go. *)
ListOK(t) ==
    /\ at[t] \in {"pop", "swap", "popped", "unpark", "signal", "wake"} => list[t] \in Waiters
    /\ at[t] = "unpark" => Acyclic(next, list[t])
    /\ at[t] \in {"signal", "wake"} => Acyclic(next, link[t])
    /\ at[t] = "signal" => list[t] \notin Reach(next, link[t])

ListInv == Acyclic(next, stack) /\ \A t \in Threads : ListOK(t)

(* SleepersAreHeld, waiter by waiter. *)
HeldInv ==
    /\ \A w \in Waiters : w \in Sleepers <=> w \in Stacked \/ \E t \in Threads : w \in InHand(t)
    /\ \A t \in Threads : \A w \in InHand(t) : w \notin Stacked
    /\ \A t, u \in Threads : t # u => \A w \in InHand(t) : w \notin InHand(u)

(* A copy of _state that is not outdated shows a head that is still there, *)
(* with the same next pointer, or one that was popped and not pushed again. *)
CopyOK(t) ==
    copy[t] # None =>
        /\ at[t] \in {"pop", "swap"} /\ copy[t] = list[t]
        /\ copy[t] = stack \/ copy[t] \notin Stacked
        /\ at[t] = "swap" /\ copy[t] = stack => link[t] = next[stack]

CopyInv == \A t \in Threads : CopyOK(t)

IInv == TypeOK /\ TurnInv /\ CommitInv /\ HeldInv /\ ListInv /\ CopyInv

-----------------------------------------------------------------------------
(* Chains of next pointers. *)
Links == [Waiters -> Waiters \cup {None}]

LEMMA ReachNone == ASSUME NEW f \in Links PROVE Reach(f, None) = {}
  <1>1. {} \in SUBSET Waiters /\ None \in {} \cup {None}
        /\ \A v \in {} : f[v] \in {} \cup {None}
    OBVIOUS
  <1> QED BY <1>1 DEF Reach

LEMMA ReachStart == ASSUME NEW f \in Links, NEW l \in Waiters PROVE l \in Reach(f, l)
  BY NotifierAssumption DEF Reach

LEMMA ReachStep ==
    ASSUME NEW f \in Links, NEW l, NEW w \in Reach(f, l), f[w] # None
    PROVE  f[w] \in Reach(f, l)
  BY DEF Reach, Links

(* What holds the start of a chain and that no pointer leaves holds it all. *)
LEMMA ReachLeast ==
    ASSUME NEW f \in Links, NEW l, NEW S \in SUBSET Waiters, l \in S \cup {None},
           \A v \in S : f[v] \in S \cup {None}
    PROVE  Reach(f, l) \subseteq S
  BY DEF Reach

LEMMA ReachSub == ASSUME NEW f, NEW l PROVE Reach(f, l) \in SUBSET Waiters
  BY DEF Reach

LEMMA ReachInside ==
    ASSUME NEW f \in Links, NEW l, NEW w \in Reach(f, l)
    PROVE  Reach(f, w) \subseteq Reach(f, l) /\ Reach(f, f[w]) \subseteq Reach(f, l)
  <1>1. \A v \in Reach(f, l) : f[v] \in Reach(f, l) \cup {None}
    BY ReachStep
  <1>2. w \in Reach(f, l) \cup {None} /\ f[w] \in Reach(f, l) \cup {None}
    BY <1>1
  <1> QED BY <1>1, <1>2, ReachLeast, ReachSub

LEMMA ReachFirst ==
    ASSUME NEW f \in Links, NEW l \in Waiters
    PROVE  Reach(f, l) = {l} \cup Reach(f, f[l])
  <1> DEFINE S == {l} \cup Reach(f, f[l])
  <1>1. S \in SUBSET Waiters
    BY ReachSub
  <1>2. \A v \in S : f[v] \in S \cup {None}
    <2>1. f[l] \in S \cup {None}
      <3>1. f[l] \in Waiters => f[l] \in Reach(f, f[l])
        BY ReachStart
      <3> QED BY <3>1 DEF Links
    <2>2. \A v \in Reach(f, f[l]) : f[v] \in S \cup {None}
      BY ReachStep
    <2> QED BY <2>1, <2>2
  <1> HIDE DEF S
  <1>3. l \in S
    BY DEF S
  <1>4. Reach(f, l) \subseteq S
    BY <1>1, <1>2, <1>3, ReachLeast
  <1>5. S \subseteq Reach(f, l)
    BY ReachStart, ReachInside DEF S
  <1> QED BY <1>4, <1>5 DEF S

(* Pointers outside a chain do not matter to it. *)
LEMMA ReachFrame ==
    ASSUME NEW f \in Links, NEW g \in Links, NEW l \in Waiters \cup {None},
           \A w \in Reach(f, l) : g[w] = f[w]
    PROVE  Reach(g, l) = Reach(f, l)
  <1>1. l \in Reach(f, l) \cup {None}
    BY ReachStart
  <1>2. Reach(g, l) \subseteq Reach(f, l)
    BY <1>1, ReachStep, ReachSub, ReachLeast
  <1>3. \A v \in Reach(g, l) : f[v] \in Reach(g, l) \cup {None}
    BY <1>2, ReachStep
  <1>4. l \in Reach(g, l) \cup {None}
    BY ReachStart
  <1>5. Reach(f, l) \subseteq Reach(g, l)
    BY <1>3, <1>4, ReachSub, ReachLeast
  <1> QED BY <1>2, <1>5

LEMMA AcyclicFrame ==
    ASSUME NEW f \in Links, NEW g \in Links, NEW l \in Waiters \cup {None},
           \A w \in Reach(f, l) : g[w] = f[w], Acyclic(f, l)
    PROVE  Acyclic(g, l)
  <1>1. Reach(g, l) = Reach(f, l)
    BY ReachFrame
  <1>2. ASSUME NEW w \in Reach(f, l) PROVE Reach(g, g[w]) = Reach(f, f[w])
    <2>1. g[w] = f[w] /\ f[w] \in Waiters \cup {None}
      BY ReachSub DEF Links
    <2>2. \A v \in Reach(f, f[w]) : g[v] = f[v]
      BY ReachInside
    <2> QED BY <2>1, <2>2, ReachFrame
  <1>3. \A w \in Reach(f, l) : w \notin Reach(f, f[w])
    BY DEF Acyclic
  <1> QED BY <1>1, <1>2, <1>3 DEF Acyclic

LEMMA AcyclicNone == ASSUME NEW f \in Links PROVE Acyclic(f, None)
  BY ReachNone DEF Acyclic

LEMMA AcyclicNext ==
    ASSUME NEW f \in Links, NEW l \in Waiters, Acyclic(f, l)
    PROVE  Acyclic(f, f[l]) /\ l \notin Reach(f, f[l])
  BY ReachFirst DEF Acyclic

LEMMA AcyclicPush ==
    ASSUME NEW f \in Links, NEW l \in Waiters, Acyclic(f, f[l]), l \notin Reach(f, f[l])
    PROVE  Acyclic(f, l)
  BY ReachFirst DEF Acyclic
-----------------------------------------------------------------------------
(* Turns. *)
Prewaiting == {"recheck", "cancel", "commit"}

LEMMA TurnTypes ==
    ASSUME TypeOK
    PROVE  /\ prewait \in Nat /\ turn \in [Waiters -> Int]
           /\ Cardinality(Waiters) \in Nat /\ IsFiniteSet(Waiters) /\ IsFiniteSet(Awaited)
           /\ \A w \in Waiters : w \in Awaited <=> at[w] \in Prewaiting /\ turn[w] >= 0
           /\ Awaited \in SUBSET Waiters
  <1>1. IsFiniteSet(Waiters) /\ Cardinality(Waiters) \in Nat
    BY NotifierAssumption, FS_CardinalityType
  <1>2. Awaited \in SUBSET Waiters /\ \A w \in Waiters :
           w \in Awaited <=> at[w] \in Prewaiting /\ turn[w] >= 0
    BY DEF Awaited, Pending, Prewaiting
  <1>3. IsFiniteSet(Awaited)
    BY <1>1, <1>2, FS_Subset
  <1>4. prewait \in Nat
    <2>1. prewait \in 0 .. Cardinality(Waiters)
      BY DEF TypeOK
    <2> QED BY <1>1, <2>1
  <1>5. turn \in [Waiters -> Int]
    <2>1. DOMAIN turn = Waiters /\ turn = [w \in Waiters |-> turn[w]]
      BY DEF TypeOK
    <2>2. \A w \in Waiters : turn[w] \in -1 .. Cardinality(Waiters)
      BY DEF TypeOK
    <2>3. \A w \in Waiters : turn[w] \in Int
      BY <1>1, <2>2
    <2> QED BY <2>1, <2>3
  <1> QED BY <1>1, <1>2, <1>3, <1>4, <1>5

LEMMA TurnKept ==
    ASSUME IInv, UNCHANGED <<prewait, turn>>,
           \A w \in Waiters : turn[w] >= 0 => (at'[w] \in Prewaiting <=> at[w] \in Prewaiting)
    PROVE  TurnInv' /\ Awaited' = Awaited
  <1>1. Awaited' = Awaited
    BY DEF Awaited, Pending, Prewaiting
  <1> QED BY <1>1 DEF IInv, TurnInv

(* w, whose turn it is, leaves prewait. *)
LEMMA TurnAdvanced ==
    ASSUME IInv, NEW w \in Awaited, turn[w] = 0, prewait' = prewait - 1, AdvanceEpoch(1),
           \A u \in Waiters \ {w} : at'[u] \in Prewaiting <=> at[u] \in Prewaiting
    PROVE  /\ TurnInv' /\ Awaited' = Awaited \ {w}
           /\ prewait' \in 0 .. Cardinality(Waiters)
           /\ turn' \in [Waiters -> -1 .. Cardinality(Waiters)]
           /\ copy' = [t \in Threads |-> None]
  <1>1. TypeOK /\ TurnInv
    BY DEF IInv
  <1>2. /\ \A u \in Waiters : turn'[u] = IF turn[u] < 1 THEN -1 ELSE turn[u] - 1
        /\ copy' = [t \in Threads |-> None]
    BY DEF AdvanceEpoch
  <1>3. \A u \in Waiters : turn[u] \in Int
    BY <1>1, TurnTypes
  <1>4. \A u \in Awaited \ {w} : turn[u] >= 1
    BY <1>1, <1>3, TurnTypes DEF TurnInv
  <1>5. w \in Waiters /\ turn'[w] = -1
    BY <1>1, <1>2, TurnTypes
  <1>6. \A u \in Waiters : u \in Awaited' <=> at'[u] \in Prewaiting /\ turn'[u] >= 0
    BY DEF Awaited, Pending, Prewaiting
  <1>7. \A u \in Waiters : u \in Awaited' <=> u \in Awaited \ {w}
    BY <1>1, <1>2, <1>3, <1>4, <1>5, <1>6, TurnTypes
  <1>8. Awaited' = Awaited \ {w}
    BY <1>1, <1>7, TurnTypes DEF Awaited, Pending
  <1>9. Cardinality(Awaited') = Cardinality(Awaited) - 1
    BY <1>1, <1>8, FS_RemoveElement, TurnTypes
  <1>10. \A u \in Awaited' : turn'[u] = turn[u] - 1
    BY <1>1, <1>2, <1>3, <1>4, <1>8, TurnTypes
  <1>11. prewait > 0 /\ prewait' \in 0 .. Cardinality(Waiters) /\ prewait' \in Nat
    <2>1. turn[w] < prewait /\ prewait \in 0 .. Cardinality(Waiters)
      BY <1>1 DEF TurnInv, TypeOK
    <2> QED BY <1>1, <2>1, TurnTypes
  <1>12. turn' \in [Waiters -> -1 .. Cardinality(Waiters)]
    <2>1. \A u \in Waiters : turn[u] \in -1 .. Cardinality(Waiters)
      BY <1>1 DEF TypeOK
    <2>2. DOMAIN turn' = Waiters /\ turn' = [u \in Waiters |-> turn'[u]]
      BY DEF AdvanceEpoch
    <2>3. \A u \in Waiters : turn'[u] \in -1 .. Cardinality(Waiters)
      BY <1>1, <1>2, <2>1, TurnTypes
    <2> QED BY <2>2, <2>3
  <1>13. TurnInv'
    <2>1. \A u \in Awaited' : turn'[u] < prewait'
      BY <1>1, <1>3, <1>8, <1>10, TurnTypes DEF TurnInv
    <2>2. \A u, v \in Awaited' : turn'[u] = turn'[v] => u = v
      BY <1>1, <1>3, <1>8, <1>10, TurnTypes DEF TurnInv
    <2>3. ASSUME NEW i \in 0 .. prewait' - 1 PROVE \E u \in Awaited' : turn'[u] = i
      <3>1. i + 1 \in 0 .. prewait - 1 /\ i \in Int
        BY <1>1, <1>11, TurnTypes
      <3>2. PICK u \in Awaited : turn[u] = i + 1
        BY <1>1, <3>1 DEF TurnInv
      <3>3. u # w
        BY <3>1, <3>2
      <3> QED BY <1>8, <1>10, <3>1, <3>2, <3>3
    <2>4. prewait' = Cardinality(Awaited')
      BY <1>1, <1>9 DEF TurnInv
    <2> QED BY <2>1, <2>2, <2>3, <2>4 DEF TurnInv
  <1> QED BY <1>2, <1>8, <1>11, <1>12, <1>13

LEMMA TurnPrepared ==
    ASSUME IInv, NEW w \in Waiters, at[w] \notin Prewaiting, at'[w] \in Prewaiting,
           \A u \in Waiters \ {w} : at'[u] = at[u],
           turn' = [turn EXCEPT ![w] = prewait], prewait' = prewait + 1
    PROVE  /\ TurnInv' /\ Awaited' = Awaited \cup {w} /\ w \notin Awaited
           /\ prewait' \in 0 .. Cardinality(Waiters)
           /\ turn' \in [Waiters -> -1 .. Cardinality(Waiters)]
  <1>1. TypeOK /\ TurnInv
    BY DEF IInv
  <1>2. turn'[w] = prewait /\ \A u \in Waiters \ {w} : turn'[u] = turn[u]
    BY <1>1 DEF TypeOK
  <1>3. \A u \in Waiters : u \in Awaited' <=> at'[u] \in Prewaiting /\ turn'[u] >= 0
    BY DEF Awaited, Pending, Prewaiting
  <1>4. Awaited' = Awaited \cup {w} /\ w \notin Awaited
    <2>1. \A u \in Waiters : u \in Awaited' <=> u \in Awaited \cup {w}
      BY <1>1, <1>2, <1>3, TurnTypes
    <2> QED BY <1>1, <2>1, TurnTypes DEF Awaited, Pending
  <1>5. Cardinality(Awaited') = Cardinality(Awaited) + 1
    BY <1>1, <1>4, FS_AddElement, TurnTypes
  <1>6. prewait' \in 0 .. Cardinality(Waiters)
    <2>1. Awaited' \in SUBSET Waiters
      BY DEF Awaited, Pending
    <2>2. Cardinality(Awaited') <= Cardinality(Waiters)
      BY <1>1, <2>1, FS_Subset, TurnTypes
    <2> QED BY <1>1, <1>5, <2>2, TurnTypes DEF TurnInv
  <1>7. turn' \in [Waiters -> -1 .. Cardinality(Waiters)]
    <2>1. prewait \in 0 .. Cardinality(Waiters) /\ Cardinality(Waiters) \in Nat
      BY <1>1, TurnTypes DEF TypeOK
    <2>2. prewait \in -1 .. Cardinality(Waiters)
      BY <2>1
    <2> QED BY <1>1, <2>2 DEF TypeOK
  <1>8. TurnInv'
    <2>1. \A u \in Awaited : turn[u] \in Int /\ turn'[u] = turn[u] /\ turn[u] < prewait
      BY <1>1, <1>2, <1>4, TurnTypes DEF TurnInv
    <2>2. \A u \in Awaited' : turn'[u] < prewait'
      BY <1>1, <1>2, <1>4, <2>1, TurnTypes
    <2>3. \A u, v \in Awaited' : turn'[u] = turn'[v] => u = v
      BY <1>1, <1>2, <1>4, <2>1, TurnTypes DEF TurnInv
    <2>4. ASSUME NEW i \in 0 .. prewait' - 1 PROVE \E u \in Awaited' : turn'[u] = i
      <3>1. i = prewait \/ i \in 0 .. prewait - 1
        BY <1>1, TurnTypes
      <3> QED BY <1>1, <1>2, <1>4, <2>1, <3>1 DEF TurnInv
    <2> QED BY <1>1, <1>5, <2>2, <2>3, <2>4 DEF TurnInv
  <1> QED BY <1>4, <1>6, <1>7, <1>8

LEMMA TurnCleared ==
    ASSUME IInv, prewait' = 0, AdvanceEpoch(prewait),
           \A w \in Waiters : at'[w] \in Prewaiting <=> at[w] \in Prewaiting
    PROVE  /\ TurnInv' /\ Awaited' = {}
           /\ prewait' \in 0 .. Cardinality(Waiters)
           /\ turn' \in [Waiters -> -1 .. Cardinality(Waiters)]
  <1>1. TypeOK /\ TurnInv
    BY DEF IInv
  <1>2. turn' = [w \in Waiters |-> IF turn[w] < prewait THEN -1 ELSE turn[w] - prewait]
    BY DEF AdvanceEpoch
  <1>3. \A w \in Waiters : turn[w] \in -1 .. Cardinality(Waiters)
    BY <1>1 DEF TypeOK
  <1>4. turn' \in [Waiters -> -1 .. Cardinality(Waiters)]
    BY <1>1, <1>2, <1>3, TurnTypes
  <1>5. \A w \in Waiters : at'[w] \in Prewaiting => turn'[w] < 0
    BY <1>1, <1>2, <1>3, TurnTypes DEF TurnInv
  <1>6. Awaited' = {}
    BY <1>4, <1>5, TurnTypes, <1>1 DEF Awaited, Pending, Prewaiting
  <1> QED BY <1>1, <1>4, <1>6, TurnTypes, FS_EmptySet DEF TurnInv
-----------------------------------------------------------------------------
(* Hands. *)
Hands == {"popped", "unpark", "signal", "wake"}
Places == {"look", "prepare", "recheck", "cancel", "commit", "park", "asleep", "notify", "pop",
           "swap", "popped", "unpark", "signal", "wake"}

LEMMA HandOf ==
    ASSUME NEW t
    PROVE  /\ at[t] \notin Hands => InHand(t) = {}
           /\ at[t] = "popped" => InHand(t) = {list[t]}
           /\ at[t] = "unpark" => InHand(t) = Reach(next, list[t])
           /\ at[t] = "signal" => InHand(t) = {list[t]} \cup Reach(next, link[t])
           /\ at[t] = "wake" => InHand(t) = Reach(next, link[t])
  BY DEF InHand, Hands, ChainFrom

LEMMA HandOfNext ==
    ASSUME NEW t
    PROVE  /\ at'[t] \notin Hands => InHand(t)' = {}
           /\ at'[t] = "popped" => InHand(t)' = {list'[t]}
           /\ at'[t] = "unpark" => InHand(t)' = Reach(next', list'[t])
           /\ at'[t] = "signal" => InHand(t)' = {list'[t]} \cup Reach(next', link'[t])
           /\ at'[t] = "wake" => InHand(t)' = Reach(next', link'[t])
  BY DEF InHand, Hands, ChainFrom, Reach

LEMMA ListOKNext ==
    ASSUME NEW t,
           at'[t] \in {"pop", "swap"} \cup Hands => list'[t] \in Waiters,
           at'[t] = "unpark" => Acyclic(next', list'[t]),
           at'[t] \in {"signal", "wake"} => Acyclic(next', link'[t]),
           at'[t] = "signal" => list'[t] \notin Reach(next', link'[t])
    PROVE  ListOK(t)'
  BY DEF ListOK, Hands, Acyclic, Reach

LEMMA Types ==
    ASSUME IInv
    PROVE  /\ TypeOK /\ next \in Links /\ stack \in Waiters \cup {None}
           /\ Waiters \subseteq Threads /\ None \notin Threads
           /\ \A t \in Threads : link[t] \in Waiters \cup {None} /\ list[t] \in Waiters \cup {None}
           /\ \A t \in Threads : at[t] \in Places
  BY NotifierAssumption DEF IInv, TypeOK, Links, Threads, Places

(* What t holds is asleep, and of one thread only. *)
LEMMA Held ==
    ASSUME IInv, NEW t \in Threads
    PROVE  /\ InHand(t) \subseteq Waiters
           /\ \A w \in InHand(t) : w \in Sleepers /\ w \notin Stacked
           /\ \A w \in Stacked : w \in Sleepers
           /\ ListOK(t) /\ CopyOK(t)
  <1>1. ListOK(t) /\ CopyOK(t)
    BY DEF IInv, ListInv, CopyInv
  <1>2. InHand(t) \subseteq Waiters
    BY <1>1, HandOf, ReachSub DEF ListOK, Hands
  <1>3. Stacked \subseteq Waiters
    BY ReachSub DEF Stacked, ChainFrom
  <1> QED BY <1>1, <1>2, <1>3 DEF IInv, HeldInv

LEMMA HeldApart ==
    ASSUME IInv, NEW t \in Threads, NEW u \in Threads, t # u, NEW w \in InHand(t)
    PROVE  w \notin InHand(u)
  BY DEF IInv, HeldInv

(* A thread that does not move keeps its list, if its pointers are kept. *)
LEMMA HandKept ==
    ASSUME IInv, NEW t \in Threads, next' \in Links,
           at'[t] = at[t], list'[t] = list[t], link'[t] = link[t],
           \A w \in InHand(t) : next'[w] = next[w]
    PROVE  InHand(t)' = InHand(t) /\ ListOK(t)'
  <1> USE Types, Held, HandOf, HandOfNext
  <1>1. CASE at[t] \notin Hands
    BY <1>1 DEF ListOK, Hands
  <1>2. CASE at[t] = "popped"
    BY <1>2 DEF ListOK
  <1>3. CASE at[t] = "unpark"
    <2>1. Reach(next', list[t]) = Reach(next, list[t])
      BY <1>3, ReachFrame
    <2>2. Acyclic(next', list[t])
      BY <1>3, AcyclicFrame DEF ListOK
    <2>3. list[t] \in Waiters
      BY <1>3 DEF ListOK
    <2>4. ListOK(t)'
      BY <1>3, <2>2, <2>3, ListOKNext
    <2>5. InHand(t)' = InHand(t)
      BY <1>3, <2>1
    <2> QED BY <2>4, <2>5
  <1>4. CASE at[t] \in {"signal", "wake"}
    <2>1. \A w \in Reach(next, link[t]) : next'[w] = next[w]
      BY <1>4
    <2>2. Reach(next', link[t]) = Reach(next, link[t])
      BY <2>1, ReachFrame
    <2>3. Acyclic(next', link[t])
      BY <1>4, <2>1, AcyclicFrame DEF ListOK
    <2>4. at[t] = "signal" => list[t] \notin Reach(next', link[t])
      BY <2>2 DEF ListOK
    <2>5. list[t] \in Waiters
      BY <1>4 DEF ListOK
    <2>6. ListOK(t)'
      BY <1>4, <2>3, <2>4, <2>5, ListOKNext
    <2>7. InHand(t)' = InHand(t)
      BY <1>4, <2>2
    <2> QED BY <2>6, <2>7
  <1> QED BY <1>1, <1>2, <1>3, <1>4 DEF Hands

(* Steps of t outside of the lists, that neither wake nor lay a sleeper. *)
QuietMove(t, place) ==
    /\ UNCHANGED <<stack, next>>
    /\ at[t] \notin Hands /\ place \in Places \ Hands /\ at' = [at EXCEPT ![t] = place]
    /\ \A u \in Threads \ {t} :
          list'[u] = list[u] /\ link'[u] = link[u] /\ copy'[u] \in {None, copy[u]}
    /\ \A w \in Waiters \ {t} : signal'[w] = signal[w]
    /\ t \in Waiters =>
          /\ t \in Sleepers <=> place \in {"park", "asleep"} /\ signal'[t] # "signaled"
          /\ place = "commit" => signal'[t] = "not signaled"
    /\ place \in {"pop", "swap"} => list'[t] \in Waiters
    /\ CopyOK(t)'

LEMMA Quiet ==
    ASSUME IInv, NEW t \in Threads, NEW place, QuietMove(t, place)
    PROVE  CommitInv' /\ HeldInv' /\ ListInv' /\ CopyInv' /\ Stacked' = Stacked
  <1> USE Types DEF QuietMove
  <1>1. at'[t] = place /\ \A u \in Threads \ {t} : at'[u] = at[u]
    BY DEF TypeOK
  <1>2. Stacked' = Stacked
    BY DEF Stacked, ChainFrom, Reach
  <1>3. \A u \in Threads : InHand(u)' = InHand(u) /\ ListOK(u)'
    <2>1. ASSUME NEW u \in Threads \ {t} PROVE InHand(u)' = InHand(u) /\ ListOK(u)'
      BY <1>1, HandKept
    <2>2. InHand(t)' = InHand(t) /\ ListOK(t)'
      BY <1>1, HandOf, HandOfNext DEF ListOK, Hands
    <2> QED BY <2>1, <2>2
  <1>4. \A w \in Waiters : w \in Sleepers' <=> w \in Sleepers
    BY <1>1 DEF Sleepers
  <1>5. HeldInv'
    <2>1. \A w \in Waiters : (\E u \in Threads : w \in InHand(u)') <=> \E u \in Threads : w \in InHand(u)
      BY <1>3
    <2>2. \A w \in Waiters :
             w \in Sleepers' <=> w \in Stacked' \/ \E u \in Threads : w \in InHand(u)'
      BY <1>2, <1>4, <2>1 DEF IInv, HeldInv
    <2>3. \A u \in Threads : \A w \in InHand(u)' : w \notin Stacked'
      <3> SUFFICES ASSUME NEW u \in Threads, NEW w \in InHand(u)' PROVE w \notin Stacked'
        OBVIOUS
      <3>1. w \in InHand(u)
        BY <1>3
      <3> QED BY <1>2, <3>1, Held
    <2>4. \A u, v \in Threads : u # v => \A w \in InHand(u)' : w \notin InHand(v)'
      <3> SUFFICES ASSUME NEW u \in Threads, NEW v \in Threads, u # v, NEW w \in InHand(u)'
                   PROVE  w \notin InHand(v)'
        OBVIOUS
      <3>1. w \in InHand(u) /\ InHand(v)' = InHand(v)
        BY <1>3
      <3> QED BY <3>1, HeldApart
    <2> QED BY <2>2, <2>3, <2>4, Zenon DEF HeldInv
  <1>6. ListInv'
    BY <1>3 DEF IInv, ListInv, Acyclic, Reach
  <1>7. CopyInv'
    <2>1. ASSUME NEW u \in Threads \ {t} PROVE CopyOK(u)'
      BY <1>1, <1>2 DEF IInv, CopyInv, CopyOK
    <2> QED BY <2>1 DEF CopyInv
  <1>8. CommitInv'
    BY <1>1 DEF IInv, CommitInv
  <1> QED BY <1>2, <1>5, <1>6, <1>7, <1>8
RefStep == [Promise!Next]_(Promise!vars)

LEMMA Still ==
    ASSUME IInv, NEW t \in Threads, NEW place, QuietMove(t, place), TypeOK',
           UNCHANGED <<prewait, turn>>,
           t \in Waiters /\ turn[t] >= 0 => (place \in Prewaiting <=> at[t] \in Prewaiting)
    PROVE  IInv' /\ RefStep
  <1>1. CommitInv' /\ HeldInv' /\ ListInv' /\ CopyInv' /\ Stacked' = Stacked
    BY Quiet
  <1>2. \A w \in Waiters : turn[w] >= 0 => (at'[w] \in Prewaiting <=> at[w] \in Prewaiting)
    BY Types DEF QuietMove, TypeOK
  <1>3. TurnInv' /\ Awaited' = Awaited
    BY <1>2, TurnKept
  <1> QED BY <1>1, <1>3 DEF IInv, RefStep, Promise!vars

(* Where copies are good, and the ranges that TypeOK gives. *)
LEMMA Ranges ==
    ASSUME IInv, NEW t \in Threads
    PROVE  /\ copy[t] # None => at[t] \in {"pop", "swap"}
           /\ at \in [Threads -> Places] /\ all \in [Threads -> BOOLEAN]
           /\ copy \in [Threads -> Waiters \cup {None}]
           /\ link \in [Threads -> Waiters \cup {None}]
           /\ list \in [Threads -> Waiters \cup {None}]
           /\ signal \in [Waiters -> {"not signaled", "waiting", "signaled"}]
           /\ items \in Nat /\ left \in Nat /\ items <= MaxItems /\ left <= MaxItems
  <1>1. copy[t] # None => at[t] \in {"pop", "swap"}
    BY DEF IInv, CopyInv, CopyOK
  <1>2. items \in 0 .. MaxItems /\ left \in 0 .. MaxItems /\ MaxItems \in Nat
    BY NotifierAssumption DEF IInv, TypeOK
  <1>3. items \in Nat /\ left \in Nat /\ items <= MaxItems /\ left <= MaxItems
    BY <1>2
  <1> QED BY <1>1, <1>3 DEF IInv, TypeOK, Places
-----------------------------------------------------------------------------
(* The waiter's steps that leave _state alone. *)
LEMMA StepTakeItem == ASSUME IInv, NEW w \in Waiters, TakeItem(w) PROVE IInv' /\ RefStep
  <1> USE Types DEF TakeItem, state, waiter, call
  <1>1. items' \in 0 .. MaxItems
    <2>1. items \in Nat /\ items <= MaxItems /\ MaxItems \in Nat
      BY Ranges, NotifierAssumption
    <2> QED BY <2>1
  <1>2. TypeOK'
    BY <1>1 DEF TypeOK
  <1>3. at' = [at EXCEPT ![w] = at[w]]
    BY Ranges
  <1>4. CopyOK(w)'
    BY Ranges DEF CopyOK
  <1>5. QuietMove(w, at[w])
    BY <1>3, <1>4 DEF QuietMove, Hands, Sleepers, Places
  <1> QED BY <1>2, <1>5, Still

LEMMA StepFindNothing == ASSUME IInv, NEW w \in Waiters, FindNothing(w) PROVE IInv' /\ RefStep
  <1> USE Types DEF FindNothing, Goto, state, waiter, call, client
  <1>1. TypeOK'
    BY DEF TypeOK
  <1>2. CopyOK(w)'
    BY Ranges DEF CopyOK
  <1>3. QuietMove(w, "prepare")
    BY <1>2 DEF QuietMove, Hands, Sleepers, Places
  <1> QED BY <1>1, <1>3, Still DEF Prewaiting

LEMMA StepReconsider == ASSUME IInv, NEW w \in Waiters, Reconsider(w) PROVE IInv' /\ RefStep
  <1> USE Types DEF Reconsider, Goto, state, waiter, call, client
  <1>1. TypeOK'
    BY DEF TypeOK
  <1>2. CopyOK(w)'
    BY Ranges DEF CopyOK
  <1>3. QuietMove(w, "cancel")
    BY <1>2 DEF QuietMove, Hands, Sleepers, Places
  <1> QED BY <1>1, <1>3, Still DEF Prewaiting

LEMMA StepRecheck == ASSUME IInv, NEW w \in Waiters, Recheck(w) PROVE IInv' /\ RefStep
  <1> USE Types DEF Recheck, Goto, state, call, client
  <1>1. TypeOK'
    BY DEF TypeOK
  <1>2. CopyOK(w)'
    BY Ranges DEF CopyOK
  <1>3. signal'[w] = "not signaled" /\ \A u \in Waiters \ {w} : signal'[u] = signal[u]
    BY Ranges
  <1>4. QuietMove(w, "commit")
    BY <1>2, <1>3 DEF QuietMove, Hands, Sleepers, Places
  <1> QED BY <1>1, <1>4, Still DEF Prewaiting

LEMMA StepAlreadyNotified ==
    ASSUME IInv, NEW w \in Waiters, AlreadyNotified(w)
    PROVE  IInv' /\ RefStep
  <1> USE Types DEF AlreadyNotified, Goto, state, waiter, call, client
  <1>1. TypeOK'
    BY DEF TypeOK
  <1>2. CopyOK(w)'
    BY Ranges DEF CopyOK
  <1>3. QuietMove(w, "look")
    BY <1>2 DEF QuietMove, Hands, Sleepers, Places
  <1>4. ~ (turn[w] >= 0)
    BY TurnTypes
  <1> QED BY <1>1, <1>3, <1>4, Still DEF Prewaiting

LEMMA StepPark == ASSUME IInv, NEW w \in Waiters, Park(w) PROVE IInv' /\ RefStep
  <1> USE Types DEF Park, Goto, state, call, client
  <1>1. CopyOK(w)'
    BY Ranges DEF CopyOK
  <1>2. CASE signal[w] = "signaled"
    <2>1. TypeOK'
      BY <1>2 DEF TypeOK
    <2>2. QuietMove(w, "look")
      BY <1>1, <1>2 DEF QuietMove, Hands, Sleepers, Places
    <2> QED BY <2>1, <2>2, Still DEF Prewaiting
  <1>3. CASE signal[w] # "signaled"
    <2>1. TypeOK'
      BY <1>3 DEF TypeOK
    <2>2. signal'[w] = "waiting" /\ \A u \in Waiters \ {w} : signal'[u] = signal[u]
      BY <1>3, Ranges
    <2>3. QuietMove(w, "asleep")
      BY <1>1, <1>3, <2>2 DEF QuietMove, Hands, Sleepers, Places
    <2> QED BY <2>1, <2>3, Still DEF Prewaiting
  <1> QED BY <1>2, <1>3

LEMMA StepWakeUp ==
    ASSUME IInv, NEW w \in Waiters, WakeUp(w) \/ SpuriousWakeUp(w)
    PROVE  IInv' /\ RefStep
  <1> USE Types DEF WakeUp, SpuriousWakeUp, Goto, state, waiter, call, client
  <1>0. /\ at[w] = "asleep" /\ at' = [at EXCEPT ![w] = "park"]
        /\ UNCHANGED <<stack, prewait, turn, next, signal, all, copy, link, list, items, left>>
        /\ notified \subseteq Waiters => notified' \subseteq Waiters
    OBVIOUS
  <1>1. TypeOK'
    BY <1>0 DEF TypeOK
  <1>2. CopyOK(w)'
    <2>1. copy[w] = None /\ copy' = copy
      BY <1>0, Ranges
    <2> QED BY <2>1 DEF CopyOK
  <1>3. QuietMove(w, "park")
    BY <1>0, <1>2 DEF QuietMove, Hands, Sleepers, Places
  <1> QED BY <1>0, <1>1, <1>3, Still DEF Prewaiting


-----------------------------------------------------------------------------
(* Steps on _state. *)
ItemInv == items + left <= MaxItems

LEMMA StepAddItem ==
    ASSUME IInv, ItemInv, NEW t \in Threads, AddItem(t)
    PROVE  IInv' /\ RefStep
  <1> USE Types DEF AddItem, Goto, state, waiter
  <1>1. items' \in 0 .. MaxItems /\ left' \in 0 .. MaxItems
    <2>1. items \in Nat /\ left \in Nat /\ left > 0 /\ MaxItems \in Nat /\ items + left <= MaxItems
      BY Ranges, NotifierAssumption DEF ItemInv
    <2> QED BY <2>1
  <1>2. TypeOK'
    <2>1. PICK b \in BOOLEAN : all' = [all EXCEPT ![t] = b]
      OBVIOUS
    <2>2. all' \in [Threads -> BOOLEAN]
      BY <2>1, Ranges
    <2> QED BY <1>1, <2>2 DEF TypeOK
  <1>3. CopyOK(t)'
    BY Ranges DEF CopyOK
  <1>4. QuietMove(t, "notify")
    BY <1>3 DEF QuietMove, Hands, Sleepers, Places
  <1> QED BY <1>2, <1>4, Still DEF Prewaiting

LEMMA StepPrepareWait == ASSUME IInv, NEW w \in Waiters, PrepareWait(w) PROVE IInv' /\ RefStep
  <1> USE Types DEF PrepareWait, Goto, waiter, call, client
  <1>1. /\ TurnInv' /\ Awaited' = Awaited \cup {w} /\ w \notin Awaited
        /\ prewait' \in 0 .. Cardinality(Waiters)
        /\ turn' \in [Waiters -> -1 .. Cardinality(Waiters)]
    BY TurnPrepared, Ranges DEF Prewaiting
  <1>2. TypeOK'
    BY <1>1 DEF TypeOK
  <1>3. CopyOK(w)'
    BY Ranges DEF CopyOK
  <1>4. QuietMove(w, "recheck")
    BY <1>3 DEF QuietMove, Hands, Sleepers, Places
  <1>5. CommitInv' /\ HeldInv' /\ ListInv' /\ CopyInv' /\ Stacked' = Stacked
    BY <1>4, Quiet
  <1>6. w \notin Stacked
    BY Held DEF Sleepers
  <1>7. Promise!PrepareWait(w)
    BY <1>1, <1>5, <1>6 DEF Promise!PrepareWait
  <1> QED BY <1>1, <1>2, <1>5, <1>7 DEF IInv, RefStep, Promise!Next

LEMMA StepYieldTurn == ASSUME IInv, NEW w \in Waiters, YieldTurn(w) PROVE IInv' /\ RefStep
  <1> USE Types DEF YieldTurn, vars, state, waiter, call, client
  <1>1. QuietMove(w, at[w])
    <2>1. CopyOK(w)'
      BY Held DEF CopyOK, Stacked, ChainFrom, Reach
    <2>2. at' = [at EXCEPT ![w] = at[w]]
      BY Ranges
    <2>3. at[w] \in {"cancel", "commit"} /\ (at[w] = "commit" => signal[w] = "not signaled")
      BY DEF IInv, CommitInv
    <2> QED BY <2>1, <2>2, <2>3, Ranges DEF QuietMove, Hands, Sleepers, Places
  <1>2. TypeOK'
    BY DEF IInv, TypeOK
  <1> QED BY <1>1, <1>2, Still

LEMMA StepCancelWait == ASSUME IInv, NEW w \in Waiters, CancelWait(w) PROVE IInv' /\ RefStep
  <1> USE Types DEF CancelWait, Goto, waiter, client
  <1>1. w \in Awaited /\ turn[w] = 0
    BY TurnTypes DEF Prewaiting
  <1>2. \A u \in Waiters \ {w} : at'[u] = at[u]
    BY Ranges
  <1>3. /\ TurnInv' /\ Awaited' = Awaited \ {w}
        /\ prewait' \in 0 .. Cardinality(Waiters)
        /\ turn' \in [Waiters -> -1 .. Cardinality(Waiters)]
        /\ copy' = [t \in Threads |-> None]
    BY <1>1, <1>2, TurnAdvanced
  <1>4. TypeOK'
    BY <1>3 DEF TypeOK
  <1>5. CopyOK(w)'
    BY <1>3 DEF CopyOK
  <1>6. QuietMove(w, "look")
    BY <1>3, <1>5 DEF QuietMove, Hands, Sleepers, Places
  <1>7. CommitInv' /\ HeldInv' /\ ListInv' /\ CopyInv' /\ Stacked' = Stacked
    BY <1>6, Quiet
  <1>8. Promise!CancelWait(w)
    BY <1>1, <1>3, <1>7 DEF Promise!CancelWait
  <1> QED BY <1>3, <1>4, <1>7, <1>8 DEF IInv, RefStep, Promise!Next

LEMMA StepNotifyNobody ==
    ASSUME IInv, NEW t \in Threads, NotifyNobody(t)
    PROVE  IInv' /\ RefStep
  <1> USE Types DEF NotifyNobody, Return, Goto, state, waiter, client
  <1>1. TypeOK'
    BY DEF TypeOK
  <1>2. CopyOK(t)'
    BY Ranges DEF CopyOK
  <1>3. \A u \in Threads \ {t} : list'[u] = list[u] /\ link'[u] = link[u]
    BY Ranges
  <1>4. QuietMove(t, "look")
    BY <1>2, <1>3 DEF QuietMove, Hands, Sleepers, Places
  <1> QED BY <1>1, <1>4, Still DEF Prewaiting

LEMMA StepNotifyPrewait ==
    ASSUME IInv, NEW t \in Threads, NotifyPrewait(t)
    PROVE  IInv' /\ RefStep
  <1> USE Types DEF NotifyPrewait, Return, Goto, waiter, client
  <1>1. PICK w \in Awaited : turn[w] = 0
    <2>1. 0 \in 0 .. prewait - 1
      BY TurnTypes
    <2> QED BY <2>1 DEF IInv, TurnInv
  <1>2. \A u \in Waiters : at'[u] \in Prewaiting <=> at[u] \in Prewaiting
    BY Ranges DEF Prewaiting
  <1>3. /\ TurnInv' /\ Awaited' = Awaited \ {w}
        /\ prewait' \in 0 .. Cardinality(Waiters)
        /\ turn' \in [Waiters -> -1 .. Cardinality(Waiters)]
        /\ copy' = [u \in Threads |-> None]
    BY <1>1, <1>2, TurnAdvanced
  <1>4. TypeOK'
    BY <1>3 DEF TypeOK
  <1>5. CopyOK(t)'
    BY <1>3 DEF CopyOK
  <1>6. \A u \in Threads \ {t} : list'[u] = list[u] /\ link'[u] = link[u]
    BY Ranges
  <1>7. QuietMove(t, "look")
    BY <1>3, <1>5, <1>6 DEF QuietMove, Hands, Sleepers, Places
  <1>8. CommitInv' /\ HeldInv' /\ ListInv' /\ CopyInv' /\ Stacked' = Stacked
    BY <1>7, Quiet
  <1>9. Promise!NotifyOne(w) /\ w \in Waiters
    BY <1>1, <1>3, <1>8, TurnTypes DEF Promise!CancelWait, Promise!NotifyOne
  <1> QED BY <1>3, <1>4, <1>8, <1>9 DEF IInv, RefStep, Promise!Next

LEMMA StepLoadHead == ASSUME IInv, NEW t \in Threads, LoadHead(t) PROVE IInv' /\ RefStep
  <1> USE Types DEF LoadHead, Goto, state, waiter, client
  <1>1. TypeOK'
    BY DEF TypeOK
  <1>2. /\ copy'[t] = stack /\ list'[t] = stack /\ stack \in Waiters /\ at'[t] = "pop"
        /\ \A u \in Threads \ {t} : list'[u] = list[u] /\ copy'[u] = copy[u]
    BY Ranges
  <1>3. CopyOK(t)'
    BY <1>2 DEF CopyOK
  <1>4. QuietMove(t, "pop")
    BY <1>2, <1>3 DEF QuietMove, Hands, Sleepers, Places
  <1> QED BY <1>1, <1>4, Still DEF Prewaiting

LEMMA StepLoadNext == ASSUME IInv, NEW t \in Threads, LoadNext(t) PROVE IInv' /\ RefStep
  <1> USE Types DEF LoadNext, Goto, state, waiter, client
  <1>0. CopyOK(t) /\ list[t] \in Waiters
    BY Held DEF ListOK
  <1>1. TypeOK'
    BY <1>0 DEF TypeOK
  <1>2. /\ link'[t] = next[list[t]] /\ at'[t] = "swap"
        /\ \A u \in Threads \ {t} : link'[u] = link[u]
    BY Ranges
  <1>3. Stacked' = Stacked
    BY DEF Stacked, ChainFrom, Reach
  <1>4. CopyOK(t)'
    BY <1>0, <1>2, <1>3 DEF CopyOK
  <1>5. QuietMove(t, "swap")
    BY <1>0, <1>2, <1>4 DEF QuietMove, Hands, Sleepers, Places
  <1> QED BY <1>1, <1>5, Still DEF Prewaiting
-----------------------------------------------------------------------------
(* Steps of t on the stack or on its list.  What t and the stack hold may  *)
(* move between them; a sleeper that is gained or lost is theirs.          *)
LEMMA HeldMoved ==
    ASSUME IInv, NEW t \in Threads,
           \A u \in Threads \ {t} : InHand(u)' = InHand(u) /\ ListOK(u)',
           ListOK(t)', Acyclic(next', stack'),
           \A w \in Waiters :
              /\ w \in Sleepers' <=> w \in Sleepers
              => (w \in Stacked' \/ w \in InHand(t)' <=> w \in Stacked \/ w \in InHand(t)),
           \A w \in Waiters :
              w \in Sleepers' /\ w \notin Sleepers => w \in Stacked' \/ w \in InHand(t)',
           \A w \in Waiters :
              w \notin Sleepers' /\ w \in Sleepers =>
                 /\ w \in Stacked \/ w \in InHand(t)
                 /\ w \notin Stacked' /\ w \notin InHand(t)',
           \A w \in InHand(t)' : w \in Waiters /\ w \notin Stacked'
    PROVE  HeldInv' /\ ListInv'
  <1> DEFINE others == {w \in Waiters : \E u \in Threads \ {t} : w \in InHand(u)}
  <1>1. \A w \in others : w \in Sleepers /\ w \notin Stacked /\ w \notin InHand(t)
    <2> SUFFICES ASSUME NEW w \in Waiters, NEW u \in Threads \ {t}, w \in InHand(u)
                 PROVE  w \in Sleepers /\ w \notin Stacked /\ w \notin InHand(t)
      OBVIOUS
    <2> QED BY Held, HeldApart
  <1>2. \A w \in Waiters : w \in Sleepers <=> w \in Stacked \/ w \in InHand(t) \/ w \in others
    BY DEF IInv, HeldInv
  <1>3. \A w \in others : w \notin Stacked' /\ w \notin InHand(t)'
    BY <1>1
  <1>4. \A w \in Waiters :
           w \in Sleepers' <=> w \in Stacked' \/ w \in InHand(t)' \/ w \in others
    BY <1>1, <1>2
  <1>5. \A w \in Waiters : (\E u \in Threads : w \in InHand(u)') <=> w \in InHand(t)' \/ w \in others
    OBVIOUS
  <1>6. \A u \in Threads \ {t} : \A w \in InHand(u)' : w \in others
    BY Held
  <1>7. \A w \in Waiters : w \in Sleepers' <=> w \in Stacked' \/ \E u \in Threads : w \in InHand(u)'
    BY <1>4, <1>5
  <1>8. \A u \in Threads : \A w \in InHand(u)' : w \notin Stacked'
    BY <1>3, <1>6
  <1>9. \A u, v \in Threads : u # v => \A w \in InHand(u)' : w \notin InHand(v)'
    <2> SUFFICES ASSUME NEW u \in Threads, NEW v \in Threads, u # v, NEW w \in InHand(u)'
                 PROVE  w \notin InHand(v)'
      OBVIOUS
    <2>1. CASE u = t
      <3>1. w \notin others
        BY <1>3, <2>1
      <3> QED BY <1>6, <2>1, <3>1
    <2>2. CASE v = t
      BY <1>3, <1>6, <2>2
    <2>3. CASE u # t /\ v # t
      BY <2>3, HeldApart
    <2> QED BY <2>1, <2>2, <2>3
  <1>10. HeldInv'
    BY <1>7, <1>8, <1>9, Zenon DEF HeldInv
  <1>11. ListInv'
    BY DEF ListInv, Acyclic, Reach
  <1> QED BY <1>10, <1>11

(* Steps along the list of t, which may let go the sleepers it signals. *)
LEMMA HandStep ==
    ASSUME IInv, TypeOK', NEW t \in Threads, NEW place \in Hands \cup {"look"},
           at[t] \in Hands, at' = [at EXCEPT ![t] = place],
           UNCHANGED <<stack, prewait, turn, copy>>,
           \A u \in Threads \ {t} : list'[u] = list[u] /\ link'[u] = link[u],
           \A w \in Waiters \ InHand(t) : signal'[w] = signal[w] /\ next'[w] = next[w],
           \A w \in InHand(t)' : w \in InHand(t),
           \A w \in InHand(t) : w \in InHand(t)' <=> signal'[w] # "signaled",
           ListOK(t)'
    PROVE  IInv' /\ RefStep
  <1> USE Types
  <1>1. at'[t] = place /\ \A u \in Threads \ {t} : at'[u] = at[u]
    BY DEF TypeOK
  <1>2. next' \in Links
    BY DEF TypeOK, Links
  <1>3. \A w \in Stacked : next'[w] = next[w]
    BY Held DEF Sleepers
  <1>4. Stacked' = Stacked /\ Acyclic(next', stack)
    <2>1. \A w \in Reach(next, stack) : next'[w] = next[w]
      BY <1>3 DEF Stacked, ChainFrom
    <2>2. Reach(next', stack) = Reach(next, stack)
      BY <1>2, <2>1, ReachFrame
    <2>3. Acyclic(next', stack)
      BY <1>2, <2>1, AcyclicFrame DEF IInv, ListInv
    <2>4. Stacked' = Reach(next', stack')
      BY DEF Stacked, ChainFrom, Reach
    <2> QED BY <2>2, <2>3, <2>4 DEF Stacked, ChainFrom
  <1>5. ASSUME NEW u \in Threads \ {t} PROVE InHand(u)' = InHand(u) /\ ListOK(u)'
    <2>1. \A w \in InHand(u) : next'[w] = next[w]
      BY Held, HeldApart
    <2> QED BY <1>1, <1>2, <2>1, HandKept
  <1>6. \A w \in Waiters : w \in Sleepers' <=> w \in Sleepers /\ (w \in InHand(t) => w \in InHand(t)')
    <2>1. \A w \in InHand(t) : w \in Sleepers /\ w # t /\ at'[w] = at[w] /\ w \in Waiters
      BY <1>1, Held DEF Sleepers, Hands
    <2>2. \A w \in Waiters \ InHand(t) : w \in Sleepers' <=> w \in Sleepers
      BY <1>1 DEF Sleepers, Hands
    <2>3. \A w \in InHand(t) : w \in Sleepers' <=> w \in InHand(t)'
      BY <2>1 DEF Sleepers
    <2> QED BY <2>1, <2>2, <2>3
  <1>7. HeldInv' /\ ListInv'
    <2>1. \A w \in InHand(t)' : w \in Waiters /\ w \notin Stacked'
      BY <1>4, Held
    <2>2. Acyclic(next', stack')
      BY <1>4
    <2>3. \A w \in Waiters :
              /\ w \in Sleepers' <=> w \in Sleepers
              => (w \in Stacked' \/ w \in InHand(t)' <=> w \in Stacked \/ w \in InHand(t))
      BY <1>4, <1>6, Held
    <2>4. \A w \in Waiters :
              w \notin Sleepers' /\ w \in Sleepers =>
                 /\ w \in Stacked \/ w \in InHand(t)
                 /\ w \notin Stacked' /\ w \notin InHand(t)'
      BY <1>4, <1>6, Held
    <2> QED BY <1>5, <1>6, <2>1, <2>2, <2>3, <2>4, HeldMoved
  <1>8. TurnInv' /\ Awaited' = Awaited
    BY <1>1, TurnKept DEF Hands, Prewaiting
  <1>9. CommitInv'
    <2>1. \A w \in Waiters : at'[w] = "commit" => at[w] = "commit" /\ w \notin InHand(t)
      BY <1>1, Held DEF Sleepers, Hands
    <2> QED BY <2>1 DEF IInv, CommitInv
  <1>10. CopyInv'
    <2>1. CopyOK(t)'
      BY Ranges DEF CopyOK, Hands
    <2>2. ASSUME NEW u \in Threads \ {t} PROVE CopyOK(u)'
      <3>1. stack # None => next'[stack] = next[stack]
        BY <1>3, ReachStart DEF Stacked, ChainFrom
      <3>2. CopyOK(u)
        BY Held
      <3> QED BY <1>1, <1>4, <3>1, <3>2 DEF CopyOK
    <2> QED BY <2>1, <2>2 DEF CopyInv
  <1> QED BY <1>4, <1>7, <1>8, <1>9, <1>10 DEF IInv, RefStep, Promise!vars

(* t goes on to the waiters from l on, or returns. *)
LEMMA Unparking ==
    ASSUME IInv, NEW t \in Threads, NEW l \in Waiters \cup {None}, Acyclic(next, l),
           Unpark(t, l), next' = next
    PROVE  /\ \E place \in {"unpark", "look"} : at' = [at EXCEPT ![t] = place]
           /\ InHand(t)' = Reach(next, l) /\ ListOK(t)'
           /\ \A u \in Threads \ {t} : list'[u] = list[u] /\ link'[u] = link[u]
           /\ at' \in [Threads -> Places] /\ all' \in [Threads -> BOOLEAN]
           /\ link' \in [Threads -> Waiters \cup {None}] /\ list' \in [Threads -> Waiters \cup {None}]
  <1> USE Types, Ranges
  <1>1. CASE l = None
    <2> USE <1>1 DEF Unpark, Return, Goto
    <2>1. at'[t] = "look" /\ at' = [at EXCEPT ![t] = "look"]
      OBVIOUS
    <2>2. InHand(t)' = Reach(next, l) /\ ListOK(t)'
      BY <2>1, HandOfNext, ReachNone DEF ListOK, Hands
    <2>3. at' \in [Threads -> Places]
      BY DEF Places
    <2> QED BY <2>1, <2>2, <2>3
  <1>2. CASE l # None
    <2> USE <1>2 DEF Unpark, Goto
    <2>1. at'[t] = "unpark" /\ at' = [at EXCEPT ![t] = "unpark"] /\ list'[t] = l
      OBVIOUS
    <2>2. InHand(t)' = Reach(next, l)
      BY <2>1, HandOfNext
    <2>3. ListOK(t)'
      BY <2>1, ListOKNext
    <2>4. at' \in [Threads -> Places]
      BY DEF Places
    <2> QED BY <2>1, <2>2, <2>3, <2>4
  <1> QED BY <1>1, <1>2
-----------------------------------------------------------------------------
LEMMA StepCutPopped == ASSUME IInv, NEW t \in Threads, CutPopped(t) PROVE IInv' /\ RefStep
  <1> USE Types DEF CutPopped, Goto, state, call, client
  <1>1. list[t] \in Waiters /\ InHand(t) = {list[t]}
    BY Held, HandOf DEF ListOK
  <1>2. TypeOK'
    BY DEF TypeOK
  <1>3. next' \in Links /\ next'[list[t]] = None /\ at'[t] = "unpark"
        /\ \A w \in Waiters \ {list[t]} : next'[w] = next[w]
    BY <1>1, Ranges DEF Links
  <1>4. Reach(next', next'[list[t]]) = {} /\ Acyclic(next', next'[list[t]])
    BY <1>3, ReachNone, AcyclicNone
  <1>5. Reach(next', list[t]) = {list[t]} /\ Acyclic(next', list[t])
    <2>1. Reach(next', list[t]) = {list[t]} \cup Reach(next', next'[list[t]])
      BY <1>1, <1>3, ReachFirst
    <2>2. Acyclic(next', list[t])
      BY <1>1, <1>3, <1>4, AcyclicPush
    <2> QED BY <1>4, <2>1, <2>2
  <1>6. InHand(t)' = {list[t]} /\ ListOK(t)'
    BY <1>1, <1>3, <1>5, HandOfNext, ListOKNext
  <1>7. \A w \in InHand(t) : signal'[w] # "signaled"
    BY Held DEF Sleepers
  <1>8. at[t] \in Hands /\ "unpark" \in Hands \cup {"look"}
    BY DEF Hands
  <1>9. at' = [at EXCEPT ![t] = "unpark"]
        /\ UNCHANGED <<stack, prewait, turn, copy, list, link, signal>>
    OBVIOUS
  <1> QED BY <1>1, <1>2, <1>3, <1>6, <1>7, <1>8, <1>9, HandStep

LEMMA StepUnparkNext == ASSUME IInv, NEW t \in Threads, UnparkNext(t) PROVE IInv' /\ RefStep
  <1> USE Types DEF UnparkNext, Goto, state, waiter, client
  <1>1. list[t] \in Waiters /\ InHand(t) = Reach(next, list[t]) /\ Acyclic(next, list[t])
    BY Held, HandOf DEF ListOK
  <1>2. TypeOK'
    BY <1>1 DEF TypeOK
  <1>3. link'[t] = next[list[t]] /\ at'[t] = "signal"
        /\ \A u \in Threads \ {t} : link'[u] = link[u]
    BY Ranges
  <1>4. Acyclic(next, next[list[t]]) /\ list[t] \notin Reach(next, next[list[t]])
    BY <1>1, AcyclicNext
  <1>5. InHand(t) = {list[t]} \cup Reach(next, next[list[t]])
    BY <1>1, ReachFirst
  <1>6. InHand(t)' = InHand(t) /\ ListOK(t)'
    BY <1>1, <1>3, <1>4, <1>5, HandOfNext, ListOKNext
  <1>7. \A w \in InHand(t) : signal'[w] # "signaled"
    BY Held DEF Sleepers
  <1>8. at[t] \in Hands /\ "signal" \in Hands \cup {"look"}
    BY DEF Hands
  <1>9. at' = [at EXCEPT ![t] = "signal"]
        /\ UNCHANGED <<stack, prewait, turn, copy, list, next, signal>>
    OBVIOUS
  <1> QED BY <1>2, <1>3, <1>6, <1>7, <1>8, <1>9, HandStep

LEMMA StepSignal == ASSUME IInv, NEW t \in Threads, Signal(t) PROVE IInv' /\ RefStep
  <1> USE Types DEF Signal, state, client
  <1>1. /\ list[t] \in Waiters /\ InHand(t) = {list[t]} \cup Reach(next, link[t])
        /\ Acyclic(next, link[t]) /\ list[t] \notin Reach(next, link[t])
    BY Held, HandOf DEF ListOK
  <1>2. /\ signal'[list[t]] = "signaled" /\ \A w \in Waiters \ {list[t]} : signal'[w] = signal[w]
        /\ signal' \in [Waiters -> {"not signaled", "waiting", "signaled"}]
    BY <1>1, Ranges
  <1>3. /\ \E place \in {"wake", "unpark", "look"} : at' = [at EXCEPT ![t] = place]
        /\ InHand(t)' = Reach(next, link[t]) /\ ListOK(t)'
        /\ \A u \in Threads \ {t} : list'[u] = list[u] /\ link'[u] = link[u]
        /\ at' \in [Threads -> Places] /\ all' \in [Threads -> BOOLEAN]
        /\ link' \in [Threads -> Waiters \cup {None}] /\ list' \in [Threads -> Waiters \cup {None}]
    <2>1. CASE signal[list[t]] = "waiting"
      <3>1. at' = [at EXCEPT ![t] = "wake"] /\ UNCHANGED <<all, link, list, next>>
        BY <2>1 DEF Goto
      <3>2. at'[t] = "wake" /\ at' \in [Threads -> Places]
        BY <3>1, Ranges DEF Places
      <3>3. InHand(t)' = Reach(next, link[t]) /\ ListOK(t)'
        BY <1>1, <3>1, <3>2, HandOfNext, ListOKNext
      <3> QED BY <3>1, <3>2, <3>3, Ranges
    <2>2. CASE signal[list[t]] # "waiting"
      <3>1. Unpark(t, link[t]) /\ next' = next /\ link[t] \in Waiters \cup {None}
        BY <2>2 DEF Advance
      <3>2. /\ \E place \in {"unpark", "look"} : at' = [at EXCEPT ![t] = place]
            /\ InHand(t)' = Reach(next, link[t]) /\ ListOK(t)'
            /\ \A u \in Threads \ {t} : list'[u] = list[u] /\ link'[u] = link[u]
            /\ at' \in [Threads -> Places] /\ all' \in [Threads -> BOOLEAN]
            /\ link' \in [Threads -> Waiters \cup {None}] /\ list' \in [Threads -> Waiters \cup {None}]
        BY <1>1, <3>1, Unparking
      <3> QED BY <3>2
    <2> QED BY <2>1, <2>2
  <1>4. UNCHANGED <<stack, prewait, turn, next, notified, copy, items, left>>
    OBVIOUS
  <1>5. TypeOK'
    BY <1>2, <1>3, <1>4 DEF TypeOK, Places
  <1>6. PICK place \in {"wake", "unpark", "look"} : at' = [at EXCEPT ![t] = place]
    BY <1>3
  <1>7. at[t] \in Hands /\ place \in Hands \cup {"look"}
    BY DEF Hands
  <1>8. \A w \in InHand(t) : w \in InHand(t)' <=> signal'[w] # "signaled"
    <2>1. \A w \in InHand(t) : w \in Waiters /\ signal[w] # "signaled"
      BY Held DEF Sleepers
    <2> QED BY <1>1, <1>2, <1>3, <2>1
  <1>9. \A w \in InHand(t)' : w \in InHand(t)
    BY <1>1, <1>3
  <1>10. \A w \in Waiters \ InHand(t) : signal'[w] = signal[w] /\ next'[w] = next[w]
    BY <1>1, <1>2, <1>4
  <1> QED BY <1>3, <1>4, <1>5, <1>6, <1>7, <1>8, <1>9, <1>10, HandStep

LEMMA StepNotifyOne == ASSUME IInv, NEW t \in Threads, NotifyOne(t) PROVE IInv' /\ RefStep
  <1> USE Types DEF NotifyOne, state, client
  <1>1. list[t] \in Waiters /\ InHand(t) = Reach(next, link[t]) /\ Acyclic(next, link[t])
    BY Held, HandOf DEF ListOK
  <1>2. Unpark(t, link[t]) /\ link[t] \in Waiters \cup {None}
    BY DEF Advance
  <1>3. UNCHANGED <<stack, prewait, turn, next, signal, copy, items, left>>
    OBVIOUS
  <1>4. /\ \E place \in {"unpark", "look"} : at' = [at EXCEPT ![t] = place]
        /\ InHand(t)' = Reach(next, link[t]) /\ ListOK(t)'
        /\ \A u \in Threads \ {t} : list'[u] = list[u] /\ link'[u] = link[u]
        /\ at' \in [Threads -> Places] /\ all' \in [Threads -> BOOLEAN]
        /\ link' \in [Threads -> Waiters \cup {None}] /\ list' \in [Threads -> Waiters \cup {None}]
    BY <1>1, <1>2, <1>3, Unparking
  <1>5. TypeOK'
    <2>1. notified' \subseteq Waiters
      BY <1>1 DEF TypeOK
    <2> QED BY <1>3, <1>4, <2>1 DEF TypeOK, Places
  <1>6. PICK place \in {"unpark", "look"} : at' = [at EXCEPT ![t] = place]
    BY <1>4
  <1>7. at[t] \in Hands /\ place \in Hands \cup {"look"}
    BY DEF Hands
  <1>8. \A w \in InHand(t) : signal'[w] # "signaled"
    BY <1>3, Held DEF Sleepers
  <1>9. \A w \in InHand(t)' : w \in InHand(t)
    BY <1>1, <1>4
  <1>10. \A w \in InHand(t) : w \in InHand(t)' <=> signal'[w] # "signaled"
    BY <1>1, <1>4, <1>8
  <1> QED BY <1>3, <1>4, <1>5, <1>6, <1>7, <1>9, <1>10, HandStep
LEMMA StepPopWaiter == ASSUME IInv, NEW t \in Threads, PopWaiter(t) PROVE IInv' /\ RefStep
  <1> USE Types DEF PopWaiter, Goto, waiter, client
  <1>1. ListOK(t) /\ CopyOK(t) /\ at[t] = "swap" /\ InHand(t) = {}
    BY Held, HandOf DEF Hands
  <1>2. list[t] \in Waiters
    BY <1>1 DEF ListOK
  <1>3. /\ copy'[t] = None /\ copy' \in [Threads -> Waiters \cup {None}]
        /\ \A u \in Threads \ {t} : copy'[u] = copy[u]
    BY Ranges
  <1>4. UNCHANGED <<prewait, turn, next, signal, notified, all, link, list, items, left>>
    OBVIOUS
  <1>5. CASE copy[t] = stack /\ stack # None /\ prewait = 0
    <2>1. stack' = link[t] /\ at' = [at EXCEPT ![t] = "popped"]
      BY <1>5
    <2>2. list[t] = stack /\ link[t] = next[stack] /\ stack \in Waiters
      BY <1>1, <1>5 DEF CopyOK
    <2>3. at'[t] = "popped" /\ \A u \in Threads \ {t} : at'[u] = at[u]
      BY <2>1, Ranges
    <2>4. TypeOK'
      BY <1>3, <1>4, <2>1 DEF TypeOK
    <2>5. Acyclic(next, stack) /\ Stacked = Reach(next, stack)
      BY DEF IInv, ListInv, Stacked, ChainFrom
    <2>6. /\ Stacked = {stack} \cup Reach(next, next[stack])
          /\ Acyclic(next, next[stack]) /\ stack \notin Reach(next, next[stack])
      BY <2>2, <2>5, ReachFirst, AcyclicNext
    <2>7. Stacked' = Reach(next, next[stack]) /\ Acyclic(next', stack')
      <3>1. Stacked' = Reach(next', stack')
        BY DEF Stacked, ChainFrom, Reach
      <3> QED BY <1>4, <2>1, <2>2, <2>6, <3>1
    <2>8. InHand(t)' = {stack} /\ ListOK(t)'
      BY <1>2, <1>4, <2>2, <2>3, HandOfNext, ListOKNext
    <2>9. \A u \in Threads \ {t} : InHand(u)' = InHand(u) /\ ListOK(u)'
      BY <1>4, <2>3, HandKept
    <2>10. \A w \in Waiters : w \in Sleepers' <=> w \in Sleepers
      BY <1>1, <1>4, <2>3 DEF Sleepers
    <2>11. HeldInv' /\ ListInv'
      <3>1. \A w \in Waiters :
               w \in Stacked' \/ w \in InHand(t)' <=> w \in Stacked \/ w \in InHand(t)
        BY <1>1, <2>6, <2>7, <2>8
      <3>2. \A w \in InHand(t)' : w \in Waiters /\ w \notin Stacked'
        BY <2>2, <2>6, <2>7, <2>8
      <3> QED BY <2>7, <2>8, <2>9, <2>10, <3>1, <3>2, HeldMoved
    <2>12. TurnInv' /\ Awaited' = Awaited
      BY <1>1, <1>4, <2>3, TurnKept DEF Prewaiting
    <2>13. CommitInv'
      BY <1>4, <2>3 DEF IInv, CommitInv
    <2>14. CopyInv'
      <3>1. next[stack] # None => next[stack] \in Stacked'
        BY <2>2, <2>7, ReachStart DEF Links
      <3>2. ASSUME NEW u \in Threads \ {t} PROVE CopyOK(u)'
        <4>1. CopyOK(u)
          BY Held
        <4> QED BY <1>3, <1>4, <2>1, <2>2, <2>3, <2>6, <2>7, <3>1, <4>1 DEF CopyOK
      <3>3. CopyOK(t)'
        BY <1>3 DEF CopyOK
      <3> QED BY <3>2, <3>3 DEF CopyInv
    <2>15. Promise!NotifyOne(stack)
      <3>1. Awaited = {}
        BY <1>5, TurnTypes DEF IInv, TurnInv
      <3> QED BY <2>6, <2>7, <2>12, <3>1 DEF Promise!NotifyOne
    <2> QED BY <2>2, <2>4, <2>11, <2>12, <2>13, <2>14, <2>15 DEF IInv, RefStep, Promise!Next
  <1>6. CASE ~ (copy[t] = stack /\ stack # None /\ prewait = 0)
    <2>1. UNCHANGED stack /\ at' = [at EXCEPT ![t] = "notify"]
      BY <1>6
    <2>2. TypeOK'
      BY <1>3, <1>4, <2>1 DEF TypeOK
    <2>3. CopyOK(t)'
      BY <1>3 DEF CopyOK
    <2>4. QuietMove(t, "notify")
      BY <1>1, <1>3, <1>4, <2>1, <2>3 DEF QuietMove, Hands, Sleepers, Places
    <2> QED BY <1>1, <1>4, <2>2, <2>4, Still DEF Prewaiting
  <1> QED BY <1>5, <1>6
LEMMA StepCommitWait == ASSUME IInv, NEW w \in Waiters, CommitWait(w) PROVE IInv' /\ RefStep
  <1> USE Types DEF CommitWait, Goto, client
  <1>1. w \in Awaited /\ turn[w] = 0 /\ signal[w] = "not signaled"
    <2>1. w \in Awaited
      BY TurnTypes DEF Prewaiting
    <2>2. at[w] = "commit" => signal[w] = "not signaled"
      BY DEF IInv, CommitInv
    <2> QED BY <2>1, <2>2
  <1>2. at'[w] = "park" /\ \A u \in Threads \ {w} : at'[u] = at[u]
    BY Ranges
  <1>3. /\ TurnInv' /\ Awaited' = Awaited \ {w}
        /\ prewait' \in 0 .. Cardinality(Waiters)
        /\ turn' \in [Waiters -> -1 .. Cardinality(Waiters)]
        /\ copy' = [t \in Threads |-> None]
    BY <1>1, <1>2, TurnAdvanced
  <1>4. /\ next' \in Links /\ next'[w] = stack /\ stack' = w
        /\ \A u \in Waiters \ {w} : next'[u] = next[u]
    BY Ranges DEF Links
  <1>5. UNCHANGED <<signal, notified, all, link, list, items, left>>
    OBVIOUS
  <1>6. TypeOK'
    <2>1. at' \in [Threads -> Places]
      BY Ranges DEF Places
    <2>2. stack' \in Waiters \cup {None} /\ next' \in [Waiters -> Waiters \cup {None}]
      BY <1>4 DEF Links
    <2>3. copy' \in [Threads -> Waiters \cup {None}]
      BY <1>3
    <2> QED BY <1>3, <1>5, <2>1, <2>2, <2>3 DEF TypeOK, Places
  <1>7. w \notin Sleepers /\ w \notin Stacked /\ InHand(w) = {}
    BY <1>1, Held, HandOf DEF Sleepers, Hands
  <1>8. \A v \in Reach(next, stack) : next'[v] = next[v]
    <2>1. \A v \in Stacked : v \in Waiters \ {w}
      BY <1>7, ReachSub DEF Stacked, ChainFrom
    <2> QED BY <1>4, <2>1 DEF Stacked, ChainFrom
  <1>9. Reach(next', stack) = Stacked /\ Acyclic(next', stack)
    <2>1. Reach(next', stack) = Reach(next, stack)
      BY <1>4, <1>8, ReachFrame
    <2>2. Acyclic(next', stack)
      BY <1>4, <1>8, AcyclicFrame DEF IInv, ListInv
    <2> QED BY <2>1, <2>2 DEF Stacked, ChainFrom
  <1>10. Stacked' = {w} \cup Stacked /\ Acyclic(next', stack')
    <2>1. Stacked' = Reach(next', w)
      BY <1>4 DEF Stacked, ChainFrom, Reach
    <2>2. Reach(next', w) = {w} \cup Reach(next', next'[w])
      BY <1>4, ReachFirst
    <2>3. Acyclic(next', w)
      BY <1>4, <1>7, <1>9, AcyclicPush
    <2> QED BY <1>4, <1>9, <2>1, <2>2, <2>3
  <1>11. ASSUME NEW u \in Threads \ {w} PROVE InHand(u)' = InHand(u) /\ ListOK(u)'
    <2>1. \A v \in InHand(u) : next'[v] = next[v]
      BY <1>4, <1>7, Held
    <2> QED BY <1>2, <1>4, <1>5, <2>1, HandKept
  <1>12. InHand(w)' = {} /\ ListOK(w)'
    BY <1>2, HandOfNext DEF ListOK, Hands
  <1>13. \A v \in Waiters : v \in Sleepers' <=> v \in Sleepers \/ v = w
    BY <1>1, <1>2, <1>5 DEF Sleepers
  <1>14. HeldInv' /\ ListInv'
    <2>1. \A v \in Waiters :
              /\ v \in Sleepers' <=> v \in Sleepers
              => (v \in Stacked' \/ v \in InHand(w)' <=> v \in Stacked \/ v \in InHand(w))
      BY <1>7, <1>10, <1>12, <1>13
    <2> QED BY <1>10, <1>11, <1>12, <1>13, <2>1, HeldMoved
  <1>15. CommitInv'
    BY <1>2, <1>5 DEF IInv, CommitInv
  <1>16. CopyInv'
    BY <1>3 DEF CopyInv, CopyOK
  <1>17. Promise!CommitWait(w)
    BY <1>1, <1>3, <1>10 DEF Promise!CommitWait
  <1> QED BY <1>3, <1>6, <1>14, <1>15, <1>16, <1>17 DEF IInv, RefStep, Promise!Next

LEMMA StepNotifyAll == ASSUME IInv, NEW t \in Threads, NotifyAll(t) PROVE IInv' /\ RefStep
  <1> USE Types DEF NotifyAll, waiter, client
  <1>1. UNCHANGED <<next, signal, notified, items, left>> /\ stack' = None /\ Unpark(t, stack)
    OBVIOUS
  <1>2. Acyclic(next, stack) /\ Stacked = Reach(next, stack) /\ InHand(t) = {} /\ copy[t] = None
    BY Ranges, HandOf DEF IInv, ListInv, Stacked, ChainFrom, Hands
  <1>3. /\ \E place \in {"unpark", "look"} : at' = [at EXCEPT ![t] = place]
        /\ InHand(t)' = Stacked /\ ListOK(t)'
        /\ \A u \in Threads \ {t} : list'[u] = list[u] /\ link'[u] = link[u]
        /\ at' \in [Threads -> Places] /\ all' \in [Threads -> BOOLEAN]
        /\ link' \in [Threads -> Waiters \cup {None}] /\ list' \in [Threads -> Waiters \cup {None}]
    BY <1>1, <1>2, Unparking
  <1>4. at'[t] \in {"unpark", "look"} /\ \A u \in Threads \ {t} : at'[u] = at[u]
    BY <1>3, Ranges
  <1>5. \A w \in Waiters : at'[w] \in Prewaiting <=> at[w] \in Prewaiting
    BY <1>4 DEF Prewaiting
  <1>6. /\ TurnInv' /\ Awaited' = {}
        /\ prewait' \in 0 .. Cardinality(Waiters)
        /\ turn' \in [Waiters -> -1 .. Cardinality(Waiters)]
    BY <1>5, TurnCleared
  <1>7. copy' \in [Threads -> Waiters \cup {None}] /\ \A u \in Threads : copy'[u] \in {None, copy[u]}
    BY Ranges DEF AdvanceEpoch
  <1>8. TypeOK'
    BY <1>1, <1>3, <1>6, <1>7 DEF TypeOK, Places
  <1>9. Stacked' = {} /\ Acyclic(next', stack')
    <2>1. Stacked' = Reach(next, None)
      BY <1>1 DEF Stacked, ChainFrom, Reach
    <2> QED BY <1>1, <2>1, ReachNone, AcyclicNone
  <1>10. \A u \in Threads \ {t} : InHand(u)' = InHand(u) /\ ListOK(u)'
    BY <1>1, <1>3, <1>4, HandKept
  <1>11. \A w \in Waiters : w \in Sleepers' <=> w \in Sleepers
    BY <1>1, <1>4 DEF Sleepers
  <1>12. HeldInv' /\ ListInv'
    <2>1. \A w \in Waiters :
             w \in Stacked' \/ w \in InHand(t)' <=> w \in Stacked \/ w \in InHand(t)
      BY <1>2, <1>3, <1>9
    <2>2. \A w \in InHand(t)' : w \in Waiters /\ w \notin Stacked'
      BY <1>2, <1>3, <1>9, ReachSub
    <2> QED BY <1>3, <1>9, <1>10, <1>11, <2>1, <2>2, HeldMoved
  <1>13. CommitInv'
    BY <1>1, <1>4 DEF IInv, CommitInv
  <1>14. CopyInv'
    <2>1. CopyOK(t)'
      BY <1>2, <1>7 DEF CopyOK
    <2>2. ASSUME NEW u \in Threads \ {t} PROVE CopyOK(u)'
      <3>1. CopyOK(u)
        BY Held
      <3> QED BY <1>1, <1>3, <1>4, <1>7, <1>9, <3>1 DEF CopyOK
    <2> QED BY <2>1, <2>2 DEF CopyInv
  <1>15. Promise!NotifyAll
    BY <1>6, <1>9 DEF Promise!NotifyAll
  <1> QED BY <1>6, <1>8, <1>12, <1>13, <1>14, <1>15 DEF IInv, RefStep, Promise!Next
-----------------------------------------------------------------------------
LEMMA Empty ==
    /\ \A n \in Nat : 0 \in 0 .. n /\ n \in 0 .. n /\ 0 + n <= n
    /\ \A n \in Nat : -1 \in -1 .. n
    /\ \A i \in 0 .. 0 - 1 : FALSE
  <1>1. \A n \in Nat : 0 \in 0 .. n /\ n \in 0 .. n /\ 0 + n <= n
    OBVIOUS
  <1>2. \A n \in Nat : -1 \in -1 .. n
    OBVIOUS
  <1>3. \A i \in 0 .. 0 - 1 : FALSE
    OBVIOUS
  <1> QED BY <1>1, <1>2, <1>3

LEMMA InitIInv == ASSUME Init PROVE IInv /\ ItemInv /\ Promise!Init
  <1> USE NotifierAssumption DEF Init
  <1>1. Cardinality(Waiters) \in Nat /\ MaxItems \in Nat
    BY FS_CardinalityType
  <1>2. 0 \in 0 .. Cardinality(Waiters) /\ -1 \in -1 .. Cardinality(Waiters)
        /\ 0 \in 0 .. MaxItems /\ MaxItems \in 0 .. MaxItems /\ 0 + MaxItems <= MaxItems
    BY <1>1, Empty
  <1>3. TypeOK
    <2>1. turn \in [Waiters -> -1 .. Cardinality(Waiters)]
      BY <1>2
    <2> QED BY <1>2, <2>1 DEF TypeOK
  <1>4. Awaited = {}
    BY DEF Awaited, Pending, Threads
  <1>5. TurnInv
    <2>1. Cardinality(Awaited) = 0
      BY <1>4, FS_EmptySet
    <2>2. prewait = 0 /\ \A i \in 0 .. prewait - 1 : FALSE
      BY Empty
    <2> QED BY <1>4, <2>1, <2>2 DEF TurnInv
  <1>6. Stacked = {} /\ Acyclic(next, stack)
    <2>1. next \in Links
      BY DEF Links
    <2> QED BY <2>1, ReachNone, AcyclicNone DEF Stacked, ChainFrom
  <1>7. \A t \in Threads : InHand(t) = {} /\ ListOK(t) /\ CopyOK(t)
    <2>1. ASSUME NEW t \in Threads PROVE InHand(t) = {} /\ ListOK(t) /\ CopyOK(t)
      <3>1. at[t] = "look" /\ copy[t] = None
        OBVIOUS
      <3> QED BY <3>1, HandOf DEF ListOK, CopyOK, Hands
    <2> QED BY <2>1
  <1>8. HeldInv
    BY <1>6, <1>7 DEF HeldInv, Sleepers, Threads
  <1>9. CommitInv
    BY DEF CommitInv, Threads
  <1>10. ItemInv
    BY <1>2 DEF ItemInv
  <1> QED BY <1>3, <1>4, <1>5, <1>6, <1>7, <1>8, <1>9, <1>10
         DEF IInv, ListInv, CopyInv, Promise!Init

LEMMA StepItems == ASSUME IInv, ItemInv, [Next]_vars PROVE ItemInv'
  <1> USE DEF ItemInv
  <1>1. items \in Nat /\ left \in Nat /\ MaxItems \in Nat
    <2>1. items \in 0 .. MaxItems /\ left \in 0 .. MaxItems /\ MaxItems \in Nat
      BY NotifierAssumption DEF IInv, TypeOK
    <2> QED BY <2>1
  <1>2. ASSUME NEW w \in Waiters, TakeItem(w) PROVE ItemInv'
    BY <1>1, <1>2 DEF TakeItem
  <1>3. ASSUME NEW t \in Threads, AddItem(t) PROVE ItemInv'
    BY <1>1, <1>3 DEF AddItem
  <1>4. CASE UNCHANGED client
    BY <1>4 DEF client
  <1> QED BY <1>2, <1>3, <1>4
         DEF Next, Wait, Notify, vars, FindNothing, PrepareWait, Reconsider, Recheck, YieldTurn,
             AlreadyNotified, CancelWait, CommitWait, Park, WakeUp, SpuriousWakeUp,
             NotifyNobody, NotifyAll, NotifyPrewait, LoadHead, LoadNext, PopWaiter, CutPopped,
             UnparkNext, Signal, NotifyOne

LEMMA Inductive == ASSUME IInv, ItemInv, [Next]_vars PROVE IInv' /\ ItemInv' /\ RefStep
  <1>1. ASSUME NEW w \in Waiters, Wait(w) \/ SpuriousWakeUp(w) PROVE IInv' /\ RefStep
    BY <1>1, StepTakeItem, StepFindNothing, StepPrepareWait, StepReconsider, StepRecheck,
       StepYieldTurn, StepAlreadyNotified, StepCancelWait, StepCommitWait, StepPark, StepWakeUp, Zenon
       DEF Wait
  <1>2. ASSUME NEW t \in Threads, Notify(t) PROVE IInv' /\ RefStep
    BY <1>2, StepNotifyNobody, StepNotifyAll, StepNotifyPrewait, StepLoadHead, StepLoadNext,
       StepPopWaiter, StepCutPopped, StepUnparkNext, StepSignal, StepNotifyOne, Zenon DEF Notify
  <1>3. ASSUME NEW t \in Threads, AddItem(t) PROVE IInv' /\ RefStep
    BY <1>3, StepAddItem
  <1>4. ASSUME UNCHANGED vars PROVE IInv' /\ RefStep
    <2> USE <1>4 DEF vars, state, waiter, call, client
    <2>1. Stacked' = Stacked /\ Awaited' = Awaited
      BY DEF Stacked, ChainFrom, Reach, Awaited, Pending
    <2>2. TypeOK' /\ TurnInv' /\ CommitInv'
      BY <2>1 DEF IInv, TypeOK, TurnInv, CommitInv
    <2>3. ASSUME NEW t PROVE InHand(t)' = InHand(t) /\ (ListOK(t)' <=> ListOK(t)) /\ (CopyOK(t)' <=> CopyOK(t))
      BY <2>1 DEF ChainFrom, Reach, InHand, ListOK, Acyclic, CopyOK
    <2>4. Acyclic(next, stack)' <=> Acyclic(next, stack)
      BY DEF Acyclic, Reach
    <2>5. Sleepers' = Sleepers
      BY DEF Sleepers
    <2>6. ListInv' /\ CopyInv'
      BY <2>3, <2>4 DEF IInv, ListInv, CopyInv
    <2>7. HeldInv'
      <3>1. \A w \in Waiters :
               (\E t \in Threads : w \in InHand(t)') <=> \E t \in Threads : w \in InHand(t)
        BY <2>3
      <3>2. \A w \in Waiters : w \in Sleepers' <=> w \in Stacked' \/ \E t \in Threads : w \in InHand(t)'
        BY <2>1, <2>5, <3>1 DEF IInv, HeldInv
      <3>3. \A t \in Threads : \A w \in InHand(t)' : w \notin Stacked'
        BY <2>1, <2>3, Held
      <3>4. \A t, u \in Threads : t # u => \A w \in InHand(t)' : w \notin InHand(u)'
        BY <2>3, HeldApart
      <3> QED BY <3>2, <3>3, <3>4, Zenon DEF HeldInv
    <2>8. RefStep
      BY <2>1 DEF RefStep, Promise!vars
    <2>9. IInv'
      BY <2>2, <2>6, <2>7 DEF IInv
    <2> QED BY <2>8, <2>9
  <1>5. ItemInv'
    BY StepItems
  <1>6. Next \/ UNCHANGED vars
    OBVIOUS
  <1>7. CASE Next
    <2>1. IInv' /\ RefStep
      BY <1>1, <1>2, <1>3, <1>7, Zenon DEF Next
    <2> QED BY <1>5, <2>1
  <1> QED BY <1>4, <1>5, <1>6, <1>7, Zenon

LEMMA Invariant == Spec => [](IInv /\ ItemInv)
  <1>1. Init => IInv /\ ItemInv
    BY InitIInv
  <1>2. (IInv /\ ItemInv) /\ [Next]_vars => (IInv /\ ItemInv)'
    BY Inductive
  <1> QED BY <1>1, <1>2, PTL DEF Spec

(* Every variable of the notifier and of its callers keeps its type: the   *)
(* prewait count stays within the number of waiters.                       *)
THEOREM TypeCorrect == Spec => []TypeOK
  <1>1. IInv => TypeOK
    BY DEF IInv
  <1> QED BY <1>1, Invariant, PTL

(* The prewait count in _state is the number of waiters whose turn is to   *)
(* come, and their turns are 0, 1, 2, ... without gap or overlap, however  *)
(* prepare, cancel, commit and notify interleave.                          *)
THEOREM TurnsAreExact == Spec => []TurnsExact
  <1>1. IInv => TurnsExact
    <2> SUFFICES ASSUME IInv PROVE TurnsExact
      OBVIOUS
    <2>1. \A w \in Awaited : turn[w] \in 0 .. prewait - 1
      <3>1. \A w \in Awaited : turn[w] \in Int /\ turn[w] >= 0 /\ turn[w] < prewait /\ prewait \in Nat
        BY Types, TurnTypes DEF IInv, TurnInv
      <3> QED BY <3>1
    <2>2. \A i \in 0 .. prewait - 1 : i \in {turn[w] : w \in Awaited}
      BY DEF IInv, TurnInv
    <2> QED BY <2>1, <2>2 DEF IInv, TurnInv, TurnsExact
  <1> QED BY <1>1, Invariant, PTL

(* Whoever sleeps unsignalled is on the stack or in the hands of the one   *)
(* notifier that will signal it, and nobody else is: neither a pop against *)
(* a stale head nor a walk along a list that changes loses a sleeper.      *)
THEOREM NoSleeperLost == Spec => []SleepersAreHeld
  <1>1. IInv => SleepersAreHeld
    <2> SUFFICES ASSUME IInv PROVE SleepersAreHeld
      OBVIOUS
    <2>1. Stacked \subseteq Waiters /\ \A t \in Threads : InHand(t) \subseteq Waiters
      BY Held, ReachSub DEF Stacked, ChainFrom
    <2>2. Sleepers = Stacked \cup UNION {InHand(t) : t \in Threads}
      <3>1. \A w \in Waiters : w \in Sleepers <=> w \in Stacked \/ \E t \in Threads : w \in InHand(t)
        BY DEF IInv, HeldInv
      <3>2. \A w : w \in Sleepers => w \in Waiters
        BY DEF Sleepers
      <3> QED BY <2>1, <3>1, <3>2
    <2>3. \A t \in Threads : InHand(t) \cap Stacked = {}
      BY Held
    <2>4. \A t, u \in Threads : t # u => InHand(t) \cap InHand(u) = {}
      BY HeldApart
    <2> QED BY <2>2, <2>3, <2>4 DEF SleepersAreHeld
  <1> QED BY <1>1, Invariant, PTL

(* The lock-free notifier implements the event count of its comment: every *)
(* step prepares, cancels or commits one waiter, or notifies one registered *)
(* waiter, one sleeper if none is registered, or all; or changes nothing   *)
(* that a caller can tell.                                                 *)
THEOREM Refinement == Spec => ImplementsEventCount
  <1>1. Init => Promise!Init
    BY InitIInv
  <1>2. (IInv /\ ItemInv) /\ [Next]_vars => [Promise!Next]_(Promise!vars)
    BY Inductive DEF RefStep
  <1> QED BY <1>1, <1>2, Invariant, PTL DEF Spec, ImplementsEventCount, Promise!Spec
=============================================================================
