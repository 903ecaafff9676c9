---------------------------- MODULE Lloyd_proofs ----------------------------
(***************************************************************************)
(* What the sums over rows are.  MapThenSumSet is a recursive function, so *)
(* a fact about it takes an induction over the rows; it is made by taking  *)
(* the least set of rows that violates the fact, which exists because the  *)
(* strict subsets of a finite set are a well-founded ordering.             *)
(*                                                                         *)
(* And what they do: no labelling of a row with a nearest centroid and no  *)
(* replacement of the centroids by means raises the sum of the squared     *)
(* distances.                                                              *)
(***************************************************************************)
EXTENDS Lloyd, FiniteSetTheorems, WellFoundedInduction, TLAPS

(* Among subsets of a finite set there is a least one.                     *)
LEMMA LeastSet ==
    ASSUME NEW S, IsFiniteSet(S), NEW F \in SUBSET SUBSET S, F # {}
    PROVE  \E s \in F : \A u \in F : u \subseteq s => u = s
  <1>1. FiniteSubsetsOf(S) = SUBSET S
    BY FS_FiniteSubsetsOfFinite
  <1>2. IsWellFoundedOn(StrictSubsetOrdering(S), SUBSET S)
    BY <1>1, FS_StrictSubsetOrderingWellFounded
  <1>3. PICK s \in F : \A u \in F : ~ (<<u, s>> \in StrictSubsetOrdering(S))
    <2> HIDE DEF StrictSubsetOrdering, IsWellFoundedOn
    <2>1. F \subseteq SUBSET S
      OBVIOUS
    <2> QED BY <1>2, <2>1, WFMin
  <1>4. ASSUME NEW u \in F, u \subseteq s, u # s PROVE FALSE
    <2>1. <<u, s>> \in (SUBSET S) \X (SUBSET S)
      OBVIOUS
    <2> QED BY <1>3, <1>4, <2>1 DEF StrictSubsetOrdering
  <1> QED BY <1>3, <1>4

(* A fold takes a recursive function over the subsets of S that removes    *)
(* one element at a time; so does FoldOver, for a function f and one of    *)
(* two operations, sum and product.                                        *)
Unit(t) == IF t = "sum" THEN 0 ELSE 1
Combine(t, x, y) == IF t = "sum" THEN x + y ELSE x * y
Pick(s) == CHOOSE x \in s : TRUE
Step(t, g, s, f) == IF s = {} THEN Unit(t) ELSE Combine(t, f[Pick(s)], g[s \ {Pick(s)}])
Solves(t, g, S, f) == g = [s \in SUBSET S |-> Step(t, g, s, f)]
FoldOver(t, f, S) == (CHOOSE g : Solves(t, g, S, f))[S]
SumOver(f, S) == FoldOver("sum", f, S)
ProductOver(f, S) == FoldOver("product", f, S)

LEMMA PickIn == \A s : s # {} => Pick(s) \in s
  BY DEF Pick

LEMMA SolvesAt ==
    ASSUME NEW t, NEW g, NEW S, NEW f, Solves(t, g, S, f), NEW s \in SUBSET S
    PROVE  g[s] = Step(t, g, s, f)
  <1> DEFINE F(x) == Step(t, g, x, f)
  <1>1. g = [x \in SUBSET S |-> F(x)]
    BY DEF Solves
  <1> HIDE DEF F
  <1>2. g[s] = F(s)
    BY <1>1
  <1> QED BY <1>2 DEF F

LEMMA SolvesUnique ==
    ASSUME NEW t, NEW S, IsFiniteSet(S), NEW f, NEW g, Solves(t, g, S, f),
           NEW U \in SUBSET S, NEW h, Solves(t, h, U, f)
    PROVE  \A s \in SUBSET U : g[s] = h[s]
  <1> DEFINE Bad == {s \in SUBSET U : g[s] # h[s]}
  <1> SUFFICES ASSUME Bad # {} PROVE FALSE
    OBVIOUS
  <1>1. PICK s \in Bad : \A u \in Bad : u \subseteq s => u = s
    <2>1. Bad \in SUBSET SUBSET S
      OBVIOUS
    <2> HIDE DEF Bad
    <2> QED BY <2>1, LeastSet
  <1>2. g[s] = Step(t, g, s, f) /\ h[s] = Step(t, h, s, f) /\ g[s] # h[s]
    BY <1>1, SolvesAt
  <1>3. s # {}
    BY <1>2 DEF Step
  <1>4. s \ {Pick(s)} \in SUBSET U /\ s \ {Pick(s)} \subseteq s /\ s \ {Pick(s)} # s
    BY <1>3, PickIn
  <1>5. g[s \ {Pick(s)}] = h[s \ {Pick(s)}]
    BY <1>1, <1>4
  <1> QED BY <1>2, <1>3, <1>5 DEF Step

LEMMA SolutionExists ==
    ASSUME NEW t, NEW S, IsFiniteSet(S), NEW f
    PROVE  \E g : Solves(t, g, S, f)
  <1> DEFINE Bad == {U \in SUBSET S : ~ \E g : Solves(t, g, U, f)}
  <1> SUFFICES ASSUME Bad # {} PROVE FALSE
    OBVIOUS
  <1>1. PICK U \in Bad : \A u \in Bad : u \subseteq U => u = U
    <2>1. Bad \in SUBSET SUBSET S
      OBVIOUS
    <2> HIDE DEF Bad
    <2> QED BY <2>1, LeastSet
  <1> DEFINE G(u) == CHOOSE g : Solves(t, g, u, f)
             below == [u \in SUBSET U |-> G(u)[u]]
             h == [s \in SUBSET U |-> Step(t, below, s, f)]
  <1>2. ASSUME NEW u \in SUBSET U, u # U PROVE Solves(t, G(u), u, f)
    <2>1. \E g : Solves(t, g, u, f)
      BY <1>1, <1>2
    <2> QED BY <2>1
  <1>3. ASSUME NEW u \in SUBSET U, u # U PROVE h[u] = below[u]
    <2>1. h[u] = Step(t, below, u, f) /\ below[u] = G(u)[u]
      OBVIOUS
    <2>2. Solves(t, G(u), u, f)
      BY <1>2, <1>3
    <2>3. G(u)[u] = Step(t, G(u), u, f)
      <3> HIDE DEF G
      <3> QED BY <2>2, SolvesAt
    <2>4. CASE u = {}
      BY <2>1, <2>3, <2>4 DEF Step
    <2>5. CASE u # {}
      <3> DEFINE v == u \ {Pick(u)}
      <3>1. v \in SUBSET u /\ v \in SUBSET U /\ v # U /\ v \in SUBSET v
        BY <2>5, PickIn
      <3>2. Solves(t, G(v), v, f) /\ below[v] = G(v)[v]
        BY <1>2, <3>1
      <3>3. IsFiniteSet(u)
        BY FS_Subset
      <3>4. G(u)[v] = G(v)[v]
        <4> HIDE DEF G, v
        <4> QED BY <2>2, <3>1, <3>2, <3>3, SolvesUnique
      <3> HIDE DEF G, below, h
      <3> QED BY <2>1, <2>3, <2>5, <3>2, <3>4 DEF Step
    <2> QED BY <2>4, <2>5
  <1>4. ASSUME NEW s \in SUBSET U PROVE Step(t, below, s, f) = Step(t, h, s, f)
    <2>1. CASE s = {}
      BY <2>1 DEF Step
    <2>2. CASE s # {}
      <3> DEFINE v == s \ {Pick(s)}
      <3>1. v \in SUBSET U /\ v # U
        BY <2>2, PickIn
      <3>2. h[v] = below[v]
        BY <1>3, <3>1
      <3> HIDE DEF below, h
      <3> QED BY <2>2, <3>2 DEF Step
    <2> QED BY <2>1, <2>2
  <1>5. h = [s \in SUBSET U |-> Step(t, h, s, f)]
    <2> DEFINE A(s) == Step(t, below, s, f)
               B(s) == Step(t, h, s, f)
    <2>1. h = [s \in SUBSET U |-> A(s)] /\ \A s \in SUBSET U : A(s) = B(s)
      BY <1>4
    <2> HIDE DEF A, B, h
    <2>2. h = [s \in SUBSET U |-> B(s)]
      BY <2>1
    <2> QED BY <2>2 DEF B
  <1>6. Solves(t, h, U, f)
    BY <1>5 DEF Solves
  <1> QED BY <1>1, <1>6

LEMMA SolutionTaken ==
    ASSUME NEW t, NEW S, IsFiniteSet(S), NEW f, NEW g, Solves(t, g, S, f)
    PROVE  FoldOver(t, f, S) = g[S]
  <1> DEFINE G == CHOOSE h : Solves(t, h, S, f)
  <1>1. Solves(t, G, S, f) /\ FoldOver(t, f, S) = G[S] /\ S \in SUBSET S
    BY DEF FoldOver
  <1> HIDE DEF G
  <1> QED BY <1>1, SolvesUnique

LEMMA FoldUnfold ==
    ASSUME NEW t, NEW S, IsFiniteSet(S), NEW f
    PROVE  FoldOver(t, f, S) = IF S = {} THEN Unit(t)
                                ELSE Combine(t, f[Pick(S)], FoldOver(t, f, S \ {Pick(S)}))
  <1>1. PICK g : Solves(t, g, S, f)
    BY SolutionExists
  <1>2. FoldOver(t, f, S) = g[S]
    BY <1>1, SolutionTaken
  <1>3. g[S] = Step(t, g, S, f)
    BY <1>1, SolvesAt
  <1>4. g[S \ {Pick(S)}] = FoldOver(t, f, S \ {Pick(S)})
    <2> DEFINE v == S \ {Pick(S)}
    <2>1. v \in SUBSET S /\ v \in SUBSET v /\ IsFiniteSet(v)
      BY FS_Subset
    <2> HIDE DEF v
    <2>2. PICK h : Solves(t, h, v, f)
      BY <2>1, SolutionExists
    <2>3. FoldOver(t, f, v) = h[v]
      BY <2>1, <2>2, SolutionTaken
    <2>4. g[v] = h[v]
      BY <1>1, <2>1, <2>2, SolvesUnique
    <2> QED BY <2>3, <2>4 DEF v
  <1> QED BY <1>2, <1>3, <1>4 DEF Step

LEMMA FoldEmpty == \A t, f : FoldOver(t, f, {}) = Unit(t)
  BY FoldUnfold, FS_EmptySet

LEMMA SumEmpty == \A f : SumOver(f, {}) = 0
  BY FoldEmpty DEF SumOver, Unit

(* A fold stays in a set that has the unit and is closed under the         *)
(* operation.                                                              *)
LEMMA FoldClosed ==
    ASSUME NEW t, NEW U, IsFiniteSet(U), NEW f, NEW T, Unit(t) \in T,
           \A x, y \in T : Combine(t, x, y) \in T, \A x \in U : f[x] \in T
    PROVE  \A S \in SUBSET U : FoldOver(t, f, S) \in T
  <1> DEFINE Bad == {S \in SUBSET U : FoldOver(t, f, S) \notin T}
  <1> SUFFICES ASSUME Bad # {} PROVE FALSE
    OBVIOUS
  <1>1. PICK S \in Bad : \A u \in Bad : u \subseteq S => u = S
    <2>1. Bad \in SUBSET SUBSET U
      OBVIOUS
    <2> HIDE DEF Bad
    <2> QED BY <2>1, LeastSet
  <1>2. FoldOver(t, f, S) = IF S = {} THEN Unit(t)
                            ELSE Combine(t, f[Pick(S)], FoldOver(t, f, S \ {Pick(S)}))
    <2>1. IsFiniteSet(S)
      BY FS_Subset
    <2> QED BY <2>1, FoldUnfold
  <1>3. S # {} /\ FoldOver(t, f, S) \notin T
    BY <1>1, <1>2
  <1>4. Pick(S) \in U /\ S \ {Pick(S)} # S
    BY <1>3, PickIn
  <1>5. f[Pick(S)] \in T
    BY <1>4
  <1>6. FoldOver(t, f, S \ {Pick(S)}) \in T
    BY <1>1, <1>4
  <1> HIDE DEF Bad
  <1> QED BY <1>2, <1>3, <1>5, <1>6

(* Sums of integers are integers, and of natural numbers natural numbers. *)
LEMMA SumClosed ==
    ASSUME NEW U, IsFiniteSet(U), NEW f, NEW T \in {Int, Nat}, \A x \in U : f[x] \in T
    PROVE  \A S \in SUBSET U : SumOver(f, S) \in T
  <1>1. Unit("sum") \in T /\ \A x, y \in T : Combine("sum", x, y) \in T
    <2>1. CASE T = Int
      BY <2>1 DEF Unit, Combine
    <2>2. CASE T = Nat
      BY <2>2 DEF Unit, Combine
    <2> QED BY <2>1, <2>2
  <1> QED BY <1>1, FoldClosed DEF SumOver

LEMMA ProductClosed ==
    ASSUME NEW U, IsFiniteSet(U), NEW f, \A x \in U : f[x] \in Nat \ {0}
    PROVE  \A S \in SUBSET U : ProductOver(f, S) \in Nat \ {0}
  <1> DEFINE T == Nat \ {0}
  <1>1. Unit("product") \in T /\ \A x, y \in T : Combine("product", x, y) \in T
    BY DEF Unit, Combine
  <1>2. \A x \in U : f[x] \in T
    OBVIOUS
  <1> HIDE DEF T
  <1>3. \A S \in SUBSET U : FoldOver("product", f, S) \in T
    BY <1>1, <1>2, FoldClosed
  <1> QED BY <1>3 DEF ProductOver, T

(* A fold over a set combines one element with the fold over the others,   *)
(* whichever element that is.                                              *)
SplitsAt(t, f, S, x) == FoldOver(t, f, S) = Combine(t, f[x], FoldOver(t, f, S \ {x}))

LEMMA FoldSplit ==
    ASSUME NEW t, NEW U, IsFiniteSet(U), NEW f, \A x \in U : f[x] \in Int
    PROVE  \A S \in SUBSET U : \A x \in S : SplitsAt(t, f, S, x)
  <1> USE DEF SplitsAt
  <1> DEFINE Splits(S, x) == FoldOver(t, f, S) = Combine(t, f[x], FoldOver(t, f, S \ {x}))
             Bad == {S \in SUBSET U : \E x \in S : ~ Splits(S, x)}
  <1> SUFFICES ASSUME Bad # {} PROVE FALSE
    OBVIOUS
  <1>1. PICK S \in Bad : \A u \in Bad : u \subseteq S => u = S
    <2>1. Bad \in SUBSET SUBSET U
      OBVIOUS
    <2> HIDE DEF Bad
    <2> QED BY <2>1, LeastSet
  <1>2. PICK x \in S : ~ Splits(S, x)
    BY <1>1
  <1> DEFINE y == Pick(S)
  <1>3. y \in S
    BY PickIn
  <1>4. Splits(S, y)
    <2>1. IsFiniteSet(S)
      BY FS_Subset
    <2> QED BY <1>3, <2>1, FoldUnfold
  <1>5. x # y
    BY <1>2, <1>4
  <1>6. Splits(S \ {y}, x) /\ Splits(S \ {x}, y)
    <2>1. S \ {y} \in SUBSET U /\ S \ {y} # S /\ x \in S \ {y}
          /\ S \ {x} \in SUBSET U /\ S \ {x} # S /\ y \in S \ {x}
      BY <1>3, <1>5
    <2> HIDE DEF y, Splits
    <2> QED BY <1>1, <2>1
  <1>7. (S \ {x}) \ {y} = (S \ {y}) \ {x}
    OBVIOUS
  <1>8. f[x] \in Int /\ f[y] \in Int
    BY <1>3
  <1>9. FoldOver(t, f, (S \ {y}) \ {x}) \in Int
    <2>1. Unit(t) \in Int /\ \A a, b \in Int : Combine(t, a, b) \in Int
      BY DEF Unit, Combine
    <2>2. (S \ {y}) \ {x} \in SUBSET U
      OBVIOUS
    <2> HIDE DEF y, Bad, Splits
    <2>3. \A s \in SUBSET U : FoldOver(t, f, s) \in Int
      BY <2>1, FoldClosed
    <2> QED BY <2>2, <2>3
  <1>10. ASSUME NEW a \in Int, NEW b \in Int, NEW c \in Int
         PROVE  Combine(t, a, Combine(t, b, c)) = Combine(t, b, Combine(t, a, c))
    BY DEF Combine
  <1>11. /\ FoldOver(t, f, S) = Combine(t, f[y], FoldOver(t, f, S \ {y}))
         /\ FoldOver(t, f, S \ {y}) = Combine(t, f[x], FoldOver(t, f, (S \ {y}) \ {x}))
         /\ FoldOver(t, f, S \ {x}) = Combine(t, f[y], FoldOver(t, f, (S \ {y}) \ {x}))
    BY <1>4, <1>6, <1>7
  <1> HIDE DEF y
  <1> QED BY <1>2, <1>8, <1>9, <1>10, <1>11

LEMMA SumSplit ==
    ASSUME NEW U, IsFiniteSet(U), NEW f, \A x \in U : f[x] \in Int
    PROVE  \A S \in SUBSET U : \A x \in S :
              SumOver(f, S) = f[x] + SumOver(f, S \ {x})
  <1>1. \A S \in SUBSET U : \A x \in S : SplitsAt("sum", f, S, x)
    BY FoldSplit
  <1>2. \A x, y : Combine("sum", x, y) = x + y
    BY DEF Combine
  <1> QED BY <1>1, <1>2, Zenon DEF SumOver, SplitsAt

LEMMA ProductSplit ==
    ASSUME NEW U, IsFiniteSet(U), NEW f, \A x \in U : f[x] \in Int
    PROVE  \A S \in SUBSET U : \A x \in S :
              ProductOver(f, S) = f[x] * ProductOver(f, S \ {x})
  <1>1. \A S \in SUBSET U : \A x \in S : SplitsAt("product", f, S, x)
    BY FoldSplit
  <1>2. \A x, y : Combine("product", x, y) = x * y
    BY DEF Combine
  <1> QED BY <1>1, <1>2, Zenon DEF ProductOver, SplitsAt

(* A fact that holds of the empty set and is kept by every element added   *)
(* holds of all subsets; the facts are given as the sets they hold of.     *)
LEMMA AllSubsets ==
    ASSUME NEW U, IsFiniteSet(U), NEW G, {} \in G,
           \A S \in SUBSET U : \A x \in U \ S : S \in G => S \cup {x} \in G
    PROVE  \A S \in SUBSET U : S \in G
  <1> DEFINE Bad == {S \in SUBSET U : S \notin G}
  <1> SUFFICES ASSUME Bad # {} PROVE FALSE
    OBVIOUS
  <1>1. PICK S \in Bad : \A u \in Bad : u \subseteq S => u = S
    <2>1. Bad \in SUBSET SUBSET U
      OBVIOUS
    <2> HIDE DEF Bad
    <2> QED BY <2>1, LeastSet
  <1>2. PICK x \in S : TRUE
    BY <1>1
  <1>3. S \ {x} \in G
    BY <1>1
  <1>4. S \ {x} \in SUBSET U /\ x \in U \ (S \ {x}) /\ (S \ {x}) \cup {x} = S
    OBVIOUS
  <1> QED BY <1>3, <1>4

LEMMA SumAdd ==
    ASSUME NEW U, IsFiniteSet(U), NEW f, \A x \in U : f[x] \in Int,
           NEW S \in SUBSET U, NEW x \in U \ S
    PROVE  /\ SumOver(f, S \cup {x}) = f[x] + SumOver(f, S)
           /\ SumOver(f, S) \in Int
  <1>1. S \cup {x} \in SUBSET U /\ x \in S \cup {x} /\ (S \cup {x}) \ {x} = S
    OBVIOUS
  <1>2. SumOver(f, S \cup {x}) = f[x] + SumOver(f, (S \cup {x}) \ {x})
    BY <1>1, SumSplit
  <1> QED BY <1>1, <1>2, SumClosed

(* Sums are linear. *)
Linear(U, h, a, f, b, g) ==
    /\ a \in Int /\ b \in Int
    /\ \A x \in U : f[x] \in Int /\ g[x] \in Int /\ h[x] = a * f[x] + b * g[x]

LEMMA SumLinear ==
    ASSUME NEW U, IsFiniteSet(U), NEW f, NEW g, NEW h, NEW a, NEW b, Linear(U, h, a, f, b, g)
    PROVE  \A S \in SUBSET U : SumOver(h, S) = a * SumOver(f, S) + b * SumOver(g, S)
  <1> DEFINE G == {S \in SUBSET U : SumOver(h, S) = a * SumOver(f, S) + b * SumOver(g, S)}
  <1> USE DEF Linear
  <1>1. {} \in G
    BY SumEmpty
  <1>2. \A x \in U : h[x] \in Int
    OBVIOUS
  <1>3. ASSUME NEW S \in SUBSET U, NEW x \in U \ S, S \in G PROVE S \cup {x} \in G
    <2>1. /\ SumOver(f, S \cup {x}) = f[x] + SumOver(f, S) /\ SumOver(f, S) \in Int
          /\ SumOver(g, S \cup {x}) = g[x] + SumOver(g, S) /\ SumOver(g, S) \in Int
      <3>1. (\A y \in U : f[y] \in Int) /\ (\A y \in U : g[y] \in Int)
        OBVIOUS
      <3> HIDE DEF G
      <3>2. SumOver(f, S \cup {x}) = f[x] + SumOver(f, S) /\ SumOver(f, S) \in Int
        BY <3>1, SumAdd, Zenon
      <3>3. SumOver(g, S \cup {x}) = g[x] + SumOver(g, S) /\ SumOver(g, S) \in Int
        BY <3>1, SumAdd, Zenon
      <3> QED BY <3>2, <3>3
    <2>2. SumOver(h, S \cup {x}) = h[x] + SumOver(h, S)
      <3> HIDE DEF G
      <3> QED BY <1>2, SumAdd
    <2>3. ASSUME NEW fx \in Int, NEW gx \in Int, NEW F \in Int, NEW H \in Int
          PROVE  (a * fx + b * gx) + (a * F + b * H) = a * (fx + F) + b * (gx + H)
      OBVIOUS
    <2>4. /\ f[x] \in Int /\ g[x] \in Int /\ h[x] = a * f[x] + b * g[x]
          /\ SumOver(h, S) = a * SumOver(f, S) + b * SumOver(g, S)
      BY <1>3
    <2>5. SumOver(h, S \cup {x}) = a * (f[x] + SumOver(f, S)) + b * (g[x] + SumOver(g, S))
      BY <2>1, <2>2, <2>3, <2>4
    <2> QED BY <2>1, <2>5
  <1> HIDE DEF G
  <1>4. \A S \in SUBSET U : S \in G
    BY <1>1, <1>3, AllSubsets
  <1> QED BY <1>4 DEF G

LEMMA SumMono ==
    ASSUME NEW U, IsFiniteSet(U), NEW f, NEW g,
           \A x \in U : f[x] \in Int /\ g[x] \in Int /\ f[x] <= g[x]
    PROVE  \A S \in SUBSET U : SumOver(f, S) <= SumOver(g, S)
  <1> DEFINE G == {S \in SUBSET U : SumOver(f, S) <= SumOver(g, S)}
  <1>1. {} \in G
    BY SumEmpty
  <1>2. ASSUME NEW S \in SUBSET U, NEW x \in U \ S, S \in G PROVE S \cup {x} \in G
    <2>1. /\ SumOver(f, S \cup {x}) = f[x] + SumOver(f, S) /\ SumOver(f, S) \in Int
          /\ SumOver(g, S \cup {x}) = g[x] + SumOver(g, S) /\ SumOver(g, S) \in Int
      <3>1. (\A y \in U : f[y] \in Int) /\ (\A y \in U : g[y] \in Int)
        OBVIOUS
      <3> HIDE DEF G
      <3>2. SumOver(f, S \cup {x}) = f[x] + SumOver(f, S) /\ SumOver(f, S) \in Int
        BY <3>1, SumAdd, Zenon
      <3>3. SumOver(g, S \cup {x}) = g[x] + SumOver(g, S) /\ SumOver(g, S) \in Int
        BY <3>1, SumAdd, Zenon
      <3> QED BY <3>2, <3>3
    <2>2. f[x] \in Int /\ g[x] \in Int /\ f[x] <= g[x] /\ SumOver(f, S) <= SumOver(g, S)
      BY <1>2
    <2> QED BY <2>1, <2>2
  <1> HIDE DEF G
  <1>3. \A S \in SUBSET U : S \in G
    BY <1>1, <1>2, AllSubsets
  <1> QED BY <1>3 DEF G

LEMMA SumConstant ==
    ASSUME NEW U, IsFiniteSet(U), NEW f, NEW c \in Int, \A x \in U : f[x] = c
    PROVE  \A S \in SUBSET U : SumOver(f, S) = c * Cardinality(S)
  <1> DEFINE G == {S \in SUBSET U : SumOver(f, S) = c * Cardinality(S)}
  <1>1. {} \in G
    BY SumEmpty, FS_EmptySet
  <1>2. ASSUME NEW S \in SUBSET U, NEW x \in U \ S, S \in G PROVE S \cup {x} \in G
    <2>1. SumOver(f, S \cup {x}) = c + SumOver(f, S)
      <3>1. \A y \in U : f[y] \in Int
        OBVIOUS
      <3> HIDE DEF G
      <3> QED BY <3>1, SumAdd
    <2>2. IsFiniteSet(S)
      BY FS_Subset
    <2>3. Cardinality(S) \in Nat /\ Cardinality(S \cup {x}) = Cardinality(S) + 1
      BY <2>2, FS_CardinalityType, FS_AddElement
    <2>4. ASSUME NEW n \in Nat PROVE c + c * n = c * (n + 1)
      OBVIOUS
    <2>5. SumOver(f, S) = c * Cardinality(S)
      BY <1>2
    <2>6. SumOver(f, S \cup {x}) = c * Cardinality(S \cup {x})
      BY <2>1, <2>3, <2>4, <2>5
    <2> QED BY <2>6
  <1> HIDE DEF G
  <1>3. \A S \in SUBSET U : S \in G
    BY <1>1, <1>2, AllSubsets
  <1> QED BY <1>3 DEF G

(* A table is summed by rows or by columns. *)
Swapped(g, U, V, S) ==
    SumOver([x \in U |-> SumOver(g[x], V)], S)
       = SumOver([y \in V |-> SumOver([x \in U |-> g[x][y]], S)], V)

LEMMA SumSwap ==
    ASSUME NEW U, IsFiniteSet(U), NEW V, IsFiniteSet(V), NEW g,
           \A x \in U : \A y \in V : g[x][y] \in Int
    PROVE  \A S \in SUBSET U : Swapped(g, U, V, S)
  <1> DEFINE row == [x \in U |-> SumOver(g[x], V)]
             col(y) == [x \in U |-> g[x][y]]
             cols(S) == [y \in V |-> SumOver(col(y), S)]
             G == {S \in SUBSET U : SumOver(row, S) = SumOver(cols(S), V)}
  <1>1. {} \in G
    <2>1. \A y \in V : cols({})[y] = 0
      BY SumEmpty
    <2>2. Cardinality(V) \in Nat
      BY FS_CardinalityType
    <2> HIDE DEF cols
    <2>3. SumOver(cols({}), V) = 0 * Cardinality(V)
      BY <2>1, SumConstant
    <2>4. SumOver(cols({}), V) = 0
      BY <2>2, <2>3
    <2> QED BY <2>4, SumEmpty
  <1>2. ASSUME NEW x \in U PROVE row[x] = SumOver(g[x], V) /\ row[x] \in Int
    BY SumClosed
  <1>3. ASSUME NEW S \in SUBSET U, NEW x \in U \ S, S \in G PROVE S \cup {x} \in G
    <2>1. SumOver(row, S \cup {x}) = row[x] + SumOver(row, S)
      <3> HIDE DEF G, row
      <3> QED BY <1>2, SumAdd
    <2>2. ASSUME NEW y \in V
          PROVE  /\ cols(S \cup {x})[y] = 1 * g[x][y] + 1 * cols(S)[y]
                 /\ g[x][y] \in Int /\ cols(S)[y] \in Int
      <3>1. \A z \in U : col(y)[z] = g[z][y] /\ col(y)[z] \in Int
        OBVIOUS
      <3>2. cols(S \cup {x})[y] = SumOver(col(y), S \cup {x}) /\ cols(S)[y] = SumOver(col(y), S)
        OBVIOUS
      <3> HIDE DEF G, col, cols
      <3>3. /\ SumOver(col(y), S \cup {x}) = col(y)[x] + SumOver(col(y), S)
            /\ SumOver(col(y), S) \in Int
        BY <3>1, SumAdd
      <3> QED BY <3>1, <3>2, <3>3
    <2> HIDE DEF row, cols
    <2>3. SumOver(cols(S \cup {x}), V) = 1 * SumOver(g[x], V) + 1 * SumOver(cols(S), V)
      <3> DEFINE f == g[x]
                 h == cols(S)
                 sum == cols(S \cup {x})
                 one == 1
      <3>1. one \in Int
        OBVIOUS
      <3> HIDE DEF one
      <3>2. ASSUME NEW y \in V PROVE sum[y] = one * f[y] + one * h[y]
        BY <2>2 DEF one
      <3> HIDE DEF f, h, sum, G
      <3>3. \A y \in V : f[y] \in Int /\ h[y] \in Int
        BY <2>2 DEF f, h
      <3>4. SumOver(sum, V) = one * SumOver(f, V) + one * SumOver(h, V)
        <4>1. Linear(V, sum, one, f, one, h)
          BY <3>1, <3>2, <3>3 DEF Linear
        <4> QED BY <4>1, SumLinear
      <3> QED BY <3>4 DEF f, h, sum, one
    <2>4. SumOver(cols(S), V) \in Int
      BY <2>2, SumClosed
    <2>5. SumOver(row, S) = SumOver(cols(S), V)
      BY <1>3
    <2>6. SumOver(row, S \cup {x}) = SumOver(cols(S \cup {x}), V)
      BY <1>2, <2>1, <2>3, <2>4, <2>5
    <2> QED BY <2>6
  <1> HIDE DEF G
  <1>4. \A S \in SUBSET U : S \in G
    BY <1>1, <1>3, AllSubsets
  <1> QED BY <1>4 DEF G, Swapped

(* MapThenSumSet over the rows. *)
Column(d) == [i \in Rows |-> input_points[i][d]]
Total(S, d) == SumOver(Column(d), S)

LEMMA FoldRows ==
    ASSUME NEW d, NEW S \in SUBSET Rows, IsFiniteSet(S)
    PROVE  MapThenSumSet(LAMBDA i : input_points[i][d], S) = Total(S, d)
  <1> DEFINE A(g, s) == IF s = {} THEN 0 ELSE input_points[Pick(s)][d] + g[s \ {Pick(s)}]
             P(g) == g = [s \in SUBSET S |-> A(g, s)]
             g1 == CHOOSE g : P(g)
  <1>1. MapThenSumSet(LAMBDA i : input_points[i][d], S) = g1[S]
    BY DEF MapThenSumSet, MapThenFoldSet, Pick
  <1>2. ASSUME NEW g PROVE P(g) <=> Solves("sum", g, S, Column(d))
    <2> DEFINE B(s) == A(g, s)
               C(s) == Step("sum", g, s, Column(d))
    <2>1. ASSUME NEW s \in SUBSET S PROVE B(s) = C(s)
      BY PickIn DEF Column, Step, Unit, Combine
    <2> HIDE DEF B, C
    <2>2. [s \in SUBSET S |-> B(s)] = [s \in SUBSET S |-> C(s)]
      BY <2>1
    <2> QED BY <2>2 DEF B, C, Solves
  <1> HIDE DEF P
  <1>3. \E g : P(g)
    BY <1>2, SolutionExists
  <1>4. P(g1)
    BY <1>3
  <1> HIDE DEF g1
  <1>5. SumOver(Column(d), S) = g1[S]
    BY <1>2, <1>4, SolutionTaken DEF SumOver
  <1> QED BY <1>1, <1>5 DEF Total

-----------------------------------------------------------------------------
LEMMA RowsFinite == IsFiniteSet(Rows)
  <1>1. 0 \in Int /\ N - 1 \in Int
    BY LloydAssumption
  <1> QED BY <1>1, FS_Interval DEF Rows

LEMMA ColumnType == \A d \in Coords : \A x \in Rows : Column(d)[x] \in Int
  BY LloydAssumption DEF Column, Vector

LEMMA TotalType ==
    ASSUME NEW d \in Coords
    PROVE  \A S \in SUBSET Rows : Total(S, d) \in Int
  BY RowsFinite, ColumnType, SumClosed DEF Total

LEMMA TotalAdd ==
    ASSUME NEW d \in Coords, NEW S \in SUBSET Rows, NEW x \in Rows \ S
    PROVE  Total(S \cup {x}, d) = Total(S, d) + input_points[x][d]
  <1>1. Total(S \cup {x}, d) = input_points[x][d] + Total((S \cup {x}) \ {x}, d)
    <2>1. S \cup {x} \in SUBSET Rows /\ x \in S \cup {x} /\ Column(d)[x] = input_points[x][d]
      BY DEF Column
    <2> QED BY <2>1, RowsFinite, ColumnType, SumSplit DEF Total
  <1>2. (S \cup {x}) \ {x} = S
    OBVIOUS
  <1>3. Total(S, d) \in Int
    BY TotalType
  <1>4. input_points[x][d] \in Int
    BY LloydAssumption DEF Vector
  <1>5. Total(S \cup {x}, d) = input_points[x][d] + Total(S, d)
    BY <1>1, <1>2, Zenon
  <1> QED BY <1>3, <1>4, <1>5

LEMMA TotalEmpty == \A d : Total({}, d) = 0
  BY SumEmpty DEF Total

-----------------------------------------------------------------------------
(* The accumulation over the rows, up to row n. *)

Before(labels, k, n) == {i \in Rows : i < n /\ labels[i] = k}
SumBefore(labels, k, n) == [d \in Coords |-> Total(Before(labels, k, n), d)]

LEMMA ClusterSumTotal ==
    \A labels, k : ClusterSum(labels, k) = [d \in Coords |-> Total(Members(labels, k), d)]
  <1> SUFFICES ASSUME NEW labels, NEW k
               PROVE  ClusterSum(labels, k) = [d \in Coords |-> Total(Members(labels, k), d)]
    OBVIOUS
  <1> DEFINE A(d) == MapThenSumSet(LAMBDA i : input_points[i][d], Members(labels, k))
             B(d) == Total(Members(labels, k), d)
  <1>1. Members(labels, k) \in SUBSET Rows /\ IsFiniteSet(Members(labels, k))
    BY RowsFinite, FS_Subset DEF Members
  <1>2. \A d : A(d) = B(d)
    BY <1>1, FoldRows
  <1>3. ClusterSum(labels, k) = [d \in Coords |-> A(d)]
    BY DEF ClusterSum
  <1> HIDE DEF A, B
  <1>4. [d \in Coords |-> A(d)] = [d \in Coords |-> B(d)]
    BY <1>2
  <1> QED BY <1>3, <1>4 DEF B

LEMMA ClusterSumType == \A labels, k : ClusterSum(labels, k) \in Vector
  <1> SUFFICES ASSUME NEW labels, NEW k PROVE ClusterSum(labels, k) \in Vector
    OBVIOUS
  <1>1. Members(labels, k) \in SUBSET Rows
    BY DEF Members
  <1>2. \A d \in Coords : Total(Members(labels, k), d) \in Int
    BY <1>1, TotalType
  <1> QED BY <1>2, ClusterSumTotal DEF Vector

LEMMA SumBeforeType == \A labels, k, n : SumBefore(labels, k, n) \in Vector
  <1> SUFFICES ASSUME NEW labels, NEW k, NEW n PROVE SumBefore(labels, k, n) \in Vector
    OBVIOUS
  <1>1. Before(labels, k, n) \in SUBSET Rows
    BY DEF Before
  <1>2. \A d \in Coords : Total(Before(labels, k, n), d) \in Int
    BY <1>1, TotalType
  <1> QED BY <1>2 DEF SumBefore, Vector

LEMMA MembersFinite ==
    \A labels, k : IsFiniteSet(Members(labels, k)) /\ Cardinality(Members(labels, k)) \in Nat
  <1> SUFFICES ASSUME NEW labels, NEW k
               PROVE  IsFiniteSet(Members(labels, k)) /\ Cardinality(Members(labels, k)) \in Nat
    OBVIOUS
  <1>1. Members(labels, k) \in SUBSET Rows
    BY DEF Members
  <1> QED BY <1>1, RowsFinite, FS_Subset, FS_CardinalityType

LEMMA BeforeFinite ==
    \A labels, k, n :
        IsFiniteSet(Before(labels, k, n)) /\ Cardinality(Before(labels, k, n)) \in Nat
  <1> SUFFICES ASSUME NEW labels, NEW k, NEW n
               PROVE  /\ IsFiniteSet(Before(labels, k, n))
                      /\ Cardinality(Before(labels, k, n)) \in Nat
    OBVIOUS
  <1>1. Before(labels, k, n) \in SUBSET Rows
    BY DEF Before
  <1> QED BY <1>1, RowsFinite, FS_Subset, FS_CardinalityType

LEMMA BeforeBound == \A labels, k, n : Cardinality(Before(labels, k, n)) \in 0 .. N
  <1> SUFFICES ASSUME NEW labels, NEW k, NEW n PROVE Cardinality(Before(labels, k, n)) \in 0 .. N
    OBVIOUS
  <1>1. Before(labels, k, n) \in SUBSET Rows
    BY DEF Before
  <1>2. Cardinality(Rows) = N
    <2>1. 0 \in Int /\ N - 1 \in Int /\ (~ (0 > N - 1) => N - 1 - 0 + 1 = N)
          /\ (0 > N - 1 => N = 0)
      BY LloydAssumption
    <2>2. Cardinality(0 .. N - 1) = IF 0 > N - 1 THEN 0 ELSE N - 1 - 0 + 1
      BY <2>1, FS_Interval
    <2> QED BY <2>1, <2>2 DEF Rows
  <1>3. Cardinality(Before(labels, k, n)) <= Cardinality(Rows)
    BY <1>1, RowsFinite, FS_Subset
  <1> QED BY <1>2, <1>3, BeforeFinite, LloydAssumption

LEMMA BeforeNone ==
    ASSUME NEW labels, NEW k
    PROVE  SumBefore(labels, k, 0) = ZeroVector /\ Cardinality(Before(labels, k, 0)) = 0
  <1>1. Before(labels, k, 0) = {}
    BY LloydAssumption DEF Before, Rows
  <1>2. Cardinality({}) = 0
    BY FS_EmptySet
  <1> QED BY <1>1, <1>2, TotalEmpty DEF SumBefore, ZeroVector

LEMMA BeforeNext ==
    ASSUME NEW labels, NEW k, NEW n \in Rows
    PROVE  /\ labels[n] = k =>
                /\ SumBefore(labels, k, n + 1) = VectorSum(SumBefore(labels, k, n), input_points[n])
                /\ Cardinality(Before(labels, k, n + 1)) = Cardinality(Before(labels, k, n)) + 1
           /\ labels[n] # k => Before(labels, k, n + 1) = Before(labels, k, n)
  <1> DEFINE B == Before(labels, k, n)
             C == Before(labels, k, n + 1)
  <1>1. \A i \in Rows : i < n + 1 <=> i < n \/ i = n
    BY LloydAssumption DEF Rows
  <1>2. B \in SUBSET Rows /\ n \notin B
    BY LloydAssumption DEF Before, Rows
  <1>3. ASSUME labels[n] # k PROVE C = B
    BY <1>1, <1>3 DEF Before
  <1>4. ASSUME labels[n] = k PROVE C = B \cup {n}
    BY <1>1, <1>4 DEF Before
  <1>5. ASSUME labels[n] = k PROVE Cardinality(C) = Cardinality(B) + 1
    <2>1. IsFiniteSet(B)
      BY BeforeFinite
    <2> HIDE DEF B, C
    <2>2. Cardinality(B \cup {n}) = Cardinality(B) + 1
      BY <1>2, <2>1, FS_AddElement
    <2> QED BY <1>4, <1>5, <2>2
  <1>6. ASSUME labels[n] = k
        PROVE  SumBefore(labels, k, n + 1) = VectorSum(SumBefore(labels, k, n), input_points[n])
    <2>1. ASSUME NEW d \in Coords PROVE Total(C, d) = Total(B, d) + input_points[n][d]
      <3> HIDE DEF B, C
      <3>1. Total(B \cup {n}, d) = Total(B, d) + input_points[n][d]
        BY <1>2, TotalAdd
      <3> QED BY <1>4, <1>6, <3>1
    <2> QED BY <2>1 DEF SumBefore, VectorSum
  <1> QED BY <1>3, <1>5, <1>6

LEMMA BeforeAll ==
    ASSUME NEW labels, NEW k
    PROVE  /\ SumBefore(labels, k, N) = ClusterSum(labels, k)
           /\ Before(labels, k, N) = Members(labels, k)
  <1>1. Before(labels, k, N) = Members(labels, k)
    BY LloydAssumption DEF Before, Members, Rows
  <1> QED BY <1>1, ClusterSumTotal DEF SumBefore

-----------------------------------------------------------------------------
(* Types of the arithmetic. *)

LEMMA VectorSumType ==
    ASSUME NEW u \in Vector, NEW v \in Vector
    PROVE  VectorSum(u, v) \in Vector
  BY DEF VectorSum, Vector

LEMMA MeanType ==
    ASSUME NEW u \in Vector, NEW n \in Nat
    PROVE  Mean(u, n) \in Centroid
  BY DEF Mean, Centroid

LEMMA SampledType ==
    ASSUME NEW indices \in [Clusters -> Rows]
    PROVE  SampledCentroids(indices) \in [Clusters -> Centroid]
  <1>1. ASSUME NEW i \in Rows PROVE PointAsCentroid(input_points[i]) \in Centroid
    BY LloydAssumption DEF PointAsCentroid, Centroid
  <1> QED BY <1>1 DEF SampledCentroids

LEMMA MeansType == \A labels : Means(labels) \in [Clusters -> Centroid]
  BY ClusterSumType, MembersFinite, MeanType DEF Means

-----------------------------------------------------------------------------
(* A distance is a natural number over a positive one. *)

Distance == [num : Nat, den : Nat \ {0}]

LEMMA SquareNat == ASSUME NEW a \in Int PROVE a * a \in Nat
  <1>1. CASE a >= 0
    BY <1>1
  <1>2. CASE a < 0
    <2>1. - a \in Nat /\ a * a = (- a) * (- a)
      BY <1>2
    <2> QED BY <2>1
  <1> QED BY <1>1, <1>2

(* The terms of a squared distance. *)
Square(p, c, d) == (c.count * p[d] - c.sum[d]) * (c.count * p[d] - c.sum[d])
Squares(p, c) == [d \in Coords |-> Square(p, c, d)]

LEMMA CoordsFinite == IsFiniteSet(Coords) /\ Cardinality(Coords) = D
  <1>1. 0 \in Int /\ D - 1 \in Int /\ (~ (0 > D - 1) => D - 1 - 0 + 1 = D) /\ (0 > D - 1 => D = 0)
    BY LloydAssumption
  <1>2. IsFiniteSet(0 .. D - 1) /\ Cardinality(0 .. D - 1) = IF 0 > D - 1 THEN 0 ELSE D - 1 - 0 + 1
    BY <1>1, FS_Interval
  <1> QED BY <1>1, <1>2 DEF Coords

LEMMA L2Sum ==
    \A p, c : L2(p, c) = [num |-> SumOver(Squares(p, c), Coords), den |-> c.count * c.count]
  <1> SUFFICES ASSUME NEW p, NEW c
               PROVE  L2(p, c) = [num |-> SumOver(Squares(p, c), Coords),
                                  den |-> c.count * c.count]
    OBVIOUS
  <1> DEFINE q(d) == (c.count * p[d] - c.sum[d]) * (c.count * p[d] - c.sum[d])
             f == [d \in Coords |-> q(d)]
             A(g, s) == IF s = {} THEN 0 ELSE q(Pick(s)) + g[s \ {Pick(s)}]
             P(g) == g = [s \in SUBSET Coords |-> A(g, s)]
             g1 == CHOOSE g : P(g)
  <1>1. L2(p, c) = [num |-> g1[Coords], den |-> c.count * c.count]
    BY DEF L2, MapThenSumSet, MapThenFoldSet, Pick
  <1>2. f = Squares(p, c)
    BY DEF Squares, Square
  <1>3. ASSUME NEW g PROVE P(g) <=> Solves("sum", g, Coords, f)
    <2> DEFINE B(s) == A(g, s)
               C(s) == Step("sum", g, s, f)
    <2>1. ASSUME NEW s \in SUBSET Coords PROVE B(s) = C(s)
      <3> HIDE DEF q
      <3> QED BY PickIn DEF Step, Unit, Combine
    <2> HIDE DEF B, C
    <2>2. [s \in SUBSET Coords |-> B(s)] = [s \in SUBSET Coords |-> C(s)]
      BY <2>1
    <2> QED BY <2>2 DEF B, C, Solves
  <1> HIDE DEF P
  <1>4. P(g1)
    <2>1. \E g : P(g)
      BY CoordsFinite, <1>3, SolutionExists
    <2> QED BY <2>1
  <1> HIDE DEF g1
  <1>5. SumOver(f, Coords) = g1[Coords]
    <2> HIDE DEF f
    <2> QED BY CoordsFinite, <1>3, <1>4, SolutionTaken DEF SumOver
  <1> HIDE DEF f
  <1> QED BY <1>1, <1>2, <1>5

LEMMA SquareType ==
    ASSUME NEW p \in Vector, NEW c \in Centroid, NEW d \in Coords
    PROVE  Square(p, c, d) \in Nat /\ Squares(p, c)[d] = Square(p, c, d)
  <1>1. c.count \in Int /\ p[d] \in Int /\ c.sum[d] \in Int
    BY DEF Centroid, Vector
  <1>2. c.count * p[d] - c.sum[d] \in Int
    BY <1>1
  <1> QED BY <1>2, SquareNat DEF Square, Squares

LEMMA L2Type ==
    ASSUME NEW p \in Vector, NEW c \in Centroid
    PROVE  L2(p, c) \in Distance
  <1>1. SumOver(Squares(p, c), Coords) \in Nat
    <2>1. \A d \in Coords : Squares(p, c)[d] \in Nat
      BY SquareType
    <2> QED BY <2>1, CoordsFinite, SumClosed
  <1>2. c.count * c.count \in Nat \ {0}
    BY DEF Centroid
  <1> QED BY <1>1, <1>2, L2Sum DEF Distance

(* Less orders distances, whatever they are divided by. *)
LEMMA LessAsym == ASSUME NEW a \in Distance, NEW b \in Distance, Less(a, b) PROVE ~ Less(b, a)
  BY DEF Less, Distance

LEMMA LessTrans ==
    ASSUME NEW a \in Distance, NEW b \in Distance, NEW c \in Distance,
           Less(a, b), ~ Less(c, b)
    PROVE  Less(a, c)
  <1>1. ASSUME NEW x \in Int, NEW y \in Int, NEW z \in Nat \ {0}
        PROVE  (x < y => x * z < y * z) /\ (x <= y => x * z <= y * z) /\ (x * z < y * z => x < y)
    BY <1>1
  <1>2. ASSUME NEW an \in Nat, NEW ad \in Nat \ {0}, NEW bn \in Nat, NEW bd \in Nat \ {0},
               NEW cn \in Nat, NEW cd \in Nat \ {0},
               an * bd < bn * ad, bn * cd <= cn * bd
        PROVE  an * cd < cn * ad
    <2>1. /\ an * bd \in Int /\ bn * ad \in Int /\ bn * cd \in Int /\ cn * bd \in Int
          /\ an * cd \in Int /\ cn * ad \in Int
      OBVIOUS
    <2>2. (an * bd) * cd < (bn * ad) * cd /\ (bn * cd) * ad <= (cn * bd) * ad
      BY <1>1, <1>2, <2>1
    <2>3. /\ (bn * ad) * cd = (bn * cd) * ad
          /\ (an * bd) * cd = (an * cd) * bd
          /\ (cn * bd) * ad = (cn * ad) * bd
      OBVIOUS
    <2>4. (an * cd) * bd < (cn * ad) * bd
      BY <2>1, <2>2, <2>3
    <2> QED BY <1>1, <2>1, <2>4
  <1>3. ~ (c.num * b.den < b.num * c.den) => b.num * c.den <= c.num * b.den
    BY DEF Distance
  <1> QED BY <1>2, <1>3 DEF Less, Distance

-----------------------------------------------------------------------------
(* The objective: a sum over the rows, over the product of the squared     *)
(* counts, which each of them divides.                                     *)
CountSquares(c) == [k \in Clusters |-> c[k].count * c[k].count]
CommonDen(c) == ProductOver(CountSquares(c), Clusters)
Cofactor(c, k) == ProductOver(CountSquares(c), Clusters \ {k})
RowShare(l, c, r) ==
    L2(input_points[r], c[l[r]]).num * (CommonDen(c) \div L2(input_points[r], c[l[r]]).den)
Shares(l, c) == [r \in Rows |-> RowShare(l, c, r)]

LEMMA ClustersFinite == IsFiniteSet(Clusters)
  <1>1. 0 \in Int /\ K - 1 \in Int
    BY LloydAssumption
  <1> QED BY <1>1, FS_Interval DEF Clusters

LEMMA ObjectiveSums ==
    \A l, c : Objective(l, c) = [num |-> SumOver(Shares(l, c), Rows), den |-> CommonDen(c)]
  <1> SUFFICES ASSUME NEW l, NEW c
               PROVE  Objective(l, c) = [num |-> SumOver(Shares(l, c), Rows),
                                         den |-> CommonDen(c)]
    OBVIOUS
  <1> DEFINE den == FoldFunctionOnSet(LAMBDA x, y : x * y, 1,
                      [k \in Clusters |-> c[k].count * c[k].count], Clusters)
             q(r) == L2(input_points[r], c[l[r]]).num * (den \div L2(input_points[r], c[l[r]]).den)
             A(g, s) == IF s = {} THEN 0 ELSE q(Pick(s)) + g[s \ {Pick(s)}]
             P(g) == g = [s \in SUBSET Rows |-> A(g, s)]
             g1 == CHOOSE g : P(g)
             f == CountSquares(c)
             X(h, s) == IF s = {} THEN 1 ELSE f[Pick(s)] * h[s \ {Pick(s)}]
             O(h) == h = [s \in SUBSET Clusters |-> X(h, s)]
             h1 == CHOOSE h : O(h)
  <1>1. Objective(l, c) = [num |-> g1[Rows], den |-> den]
    <2> HIDE DEF den
    <2>1. Objective(l, c) = [num |-> MapThenSumSet(q, Rows), den |-> den]
      BY DEF Objective, den
    <2>2. MapThenSumSet(q, Rows) = g1[Rows]
      BY DEF MapThenSumSet, MapThenFoldSet, Pick
    <2> HIDE DEF q, g1
    <2> QED BY <2>1, <2>2
  <1>2. den = h1[Clusters]
    BY DEF FoldFunctionOnSet, MapThenFoldSet, Pick, CountSquares
  <1>3. ASSUME NEW h PROVE O(h) <=> Solves("product", h, Clusters, f)
    <2> DEFINE B(s) == X(h, s)
               C(s) == Step("product", h, s, f)
    <2>1. ASSUME NEW s \in SUBSET Clusters PROVE B(s) = C(s)
      BY PickIn DEF Step, Unit, Combine
    <2> HIDE DEF B, C
    <2>2. [s \in SUBSET Clusters |-> B(s)] = [s \in SUBSET Clusters |-> C(s)]
      BY <2>1
    <2> QED BY <2>2 DEF B, C, Solves
  <1> HIDE DEF O
  <1>4. O(h1)
    <2>1. \E h : O(h)
      BY ClustersFinite, <1>3, SolutionExists
    <2> QED BY <2>1
  <1> HIDE DEF h1, den
  <1>5. den = CommonDen(c)
    <2>1. FoldOver("product", f, Clusters) = h1[Clusters]
      <3> HIDE DEF f
      <3> QED BY ClustersFinite, <1>3, <1>4, SolutionTaken
    <2> QED BY <1>2, <2>1 DEF CommonDen, ProductOver
  <1>6. ASSUME NEW r \in Rows PROVE q(r) = Shares(l, c)[r]
    BY <1>5 DEF Shares, RowShare
  <1> HIDE DEF q
  <1>7. ASSUME NEW g PROVE P(g) <=> Solves("sum", g, Rows, Shares(l, c))
    <2> DEFINE B(s) == A(g, s)
               C(s) == Step("sum", g, s, Shares(l, c))
    <2>1. ASSUME NEW s \in SUBSET Rows PROVE B(s) = C(s)
      BY <1>6, PickIn DEF Step, Unit, Combine
    <2> HIDE DEF B, C
    <2>2. [s \in SUBSET Rows |-> B(s)] = [s \in SUBSET Rows |-> C(s)]
      BY <2>1
    <2> QED BY <2>2 DEF B, C, Solves
  <1> HIDE DEF P
  <1>8. P(g1)
    <2>1. \E g : P(g)
      BY RowsFinite, <1>7, SolutionExists
    <2> QED BY <2>1
  <1> HIDE DEF g1
  <1>9. SumOver(Shares(l, c), Rows) = g1[Rows]
    BY RowsFinite, <1>7, <1>8, SolutionTaken DEF SumOver
  <1> QED BY <1>1, <1>5, <1>9

LEMMA Cofactors ==
    ASSUME NEW c \in [Clusters -> Centroid], NEW k \in Clusters
    PROVE  /\ CommonDen(c) \in Nat \ {0} /\ Cofactor(c, k) \in Nat \ {0}
           /\ CommonDen(c) = (c[k].count * c[k].count) * Cofactor(c, k)
           /\ CommonDen(c) \div (c[k].count * c[k].count) = Cofactor(c, k)
  <1>1. \A j \in Clusters : CountSquares(c)[j] = c[j].count * c[j].count
    BY DEF CountSquares
  <1>2. \A j \in Clusters : CountSquares(c)[j] \in Nat \ {0}
    <2> SUFFICES ASSUME NEW j \in Clusters PROVE CountSquares(c)[j] \in Nat \ {0}
      OBVIOUS
    <2>1. c[j].count \in Nat \ {0}
      BY DEF Centroid
    <2> QED BY <1>1, <2>1
  <1>3. Cofactor(c, k) \in Nat \ {0} /\ CommonDen(c) \in Nat \ {0}
    BY <1>2, ClustersFinite, ProductClosed DEF Cofactor, CommonDen
  <1>4. CommonDen(c) = CountSquares(c)[k] * Cofactor(c, k)
    BY <1>2, ClustersFinite, ProductSplit DEF Cofactor, CommonDen
  <1>5. ASSUME NEW a \in Nat \ {0}, NEW q \in Nat \ {0} PROVE (a * q) \div a = q
    BY <1>5
  <1> QED BY <1>1, <1>2, <1>3, <1>4, <1>5

LEMMA ShareIs ==
    ASSUME NEW l \in [Rows -> Clusters], NEW c \in [Clusters -> Centroid], NEW r \in Rows
    PROVE  /\ Shares(l, c)[r] = L2(input_points[r], c[l[r]]).num * Cofactor(c, l[r])
           /\ Shares(l, c)[r] \in Nat
  <1>1. l[r] \in Clusters /\ c[l[r]] \in Centroid /\ input_points[r] \in Vector
    BY LloydAssumption
  <1>2. L2(input_points[r], c[l[r]]).den = c[l[r]].count * c[l[r]].count
    BY L2Sum
  <1>3. Shares(l, c)[r] = L2(input_points[r], c[l[r]]).num * Cofactor(c, l[r])
    BY <1>1, <1>2, Cofactors DEF Shares, RowShare
  <1>4. L2(input_points[r], c[l[r]]).num \in Nat /\ Cofactor(c, l[r]) \in Nat
    BY <1>1, L2Type, Cofactors DEF Distance
  <1> QED BY <1>3, <1>4

-----------------------------------------------------------------------------
(* A step of a fit within the range of numeric_limits<T>::max() never      *)
(* makes the objective rise.  First, that a row is given the nearest       *)
(* centroid.                                                               *)
LEMMA RowType ==
    ASSUME NEW r \in Rows, NEW c \in Centroid
    PROVE  L2(input_points[r], c) \in Distance
  BY LloydAssumption, L2Type

LEMMA NearestNotFarther ==
    ASSUME NEW c \in [Clusters -> Centroid], NEW r \in Rows, NEW j \in Clusters,
           IsNearest(input_points[r], j, c),
           \E k \in Clusters : Less(L2(input_points[r], c[k]), FloatMaxDistance)
    PROVE  \A k \in Clusters : ~ Less(L2(input_points[r], c[k]), L2(input_points[r], c[j]))
  <1> DEFINE dist(k) == L2(input_points[r], c[k])
             reachable == {k \in Clusters : Less(dist(k), FloatMaxDistance)}
  <1>1. /\ j \in reachable
        /\ \A k \in reachable : ~ Less(dist(k), dist(j))
    BY DEF IsNearest
  <1>2. \A k \in Clusters : dist(k) \in Distance
    BY RowType
  <1>3. FloatMaxDistance \in Distance
    BY LloydAssumption DEF FloatMaxDistance, Distance
  <1> SUFFICES ASSUME NEW k \in Clusters, ~ Less(dist(k), FloatMaxDistance)
               PROVE  ~ Less(dist(k), dist(j))
    BY <1>1
  <1>4. dist(k) \in Distance /\ dist(j) \in Distance /\ Less(dist(j), FloatMaxDistance)
    BY <1>1, <1>2
  <1> HIDE DEF dist, reachable
  <1>5. Less(dist(j), dist(k))
    BY <1>3, <1>4, LessTrans
  <1> QED BY <1>4, <1>5, LessAsym

LEMMA LabellingLowers ==
    ASSUME NEW l \in [Rows -> Clusters], NEW c \in [Clusters -> Centroid],
           NEW r \in Rows, NEW j \in Clusters,
           ~ Less(L2(input_points[r], c[l[r]]), L2(input_points[r], c[j]))
    PROVE  ~ Less(Objective(l, c), Objective([l EXCEPT ![r] = j], c))
  <1> DEFINE e == [l EXCEPT ![r] = j]
             k == l[r]
             x == L2(input_points[r], c[k]).num
             y == L2(input_points[r], c[j]).num
             a == c[k].count * c[k].count
             b == c[j].count * c[j].count
             den == CommonDen(c)
  <1>1. e \in [Rows -> Clusters] /\ k \in Clusters /\ e[r] = j
        /\ \A i \in Rows \ {r} : e[i] = l[i]
    OBVIOUS
  <1>2. /\ x \in Nat /\ y \in Nat /\ a \in Nat \ {0} /\ b \in Nat \ {0} /\ ~ (x * b < y * a)
    <2>1. /\ L2(input_points[r], c[k]) \in Distance /\ L2(input_points[r], c[j]) \in Distance
          /\ L2(input_points[r], c[k]).den = a /\ L2(input_points[r], c[j]).den = b
      BY <1>1, RowType, L2Sum
    <2> QED BY <2>1 DEF Distance, Less
  <1>3. /\ Cofactor(c, k) \in Nat \ {0} /\ Cofactor(c, j) \in Nat \ {0}
        /\ den = a * Cofactor(c, k) /\ den = b * Cofactor(c, j)
    BY <1>1, Cofactors
  <1>4. ASSUME NEW p \in Nat \ {0}, NEW q \in Nat \ {0}, NEW xx \in Nat, NEW yy \in Nat,
               NEW aa \in Nat \ {0}, NEW bb \in Nat \ {0},
               aa * p = bb * q, yy * aa <= xx * bb
        PROVE  yy * q <= xx * p
    <2>1. ASSUME NEW u \in Int, NEW v \in Int, NEW z \in Nat
          PROVE  u <= v => z * u <= z * v
      BY <2>1
    <2>2. ASSUME NEW u \in Int, NEW v \in Int, NEW z \in Nat \ {0}, z * u <= z * v PROVE u <= v
      BY <2>2
    <2>3. /\ aa * bb \in Nat \ {0} /\ yy * q \in Int /\ xx * p \in Int /\ bb * q \in Nat
          /\ yy * aa \in Int /\ xx * bb \in Int
      OBVIOUS
    <2>4. (bb * q) * (yy * aa) <= (bb * q) * (xx * bb)
      BY <1>4, <2>1, <2>3
    <2>5. (aa * bb) * (yy * q) = (bb * q) * (yy * aa)
      OBVIOUS
    <2>6. (aa * bb) * (xx * p) = (aa * p) * (xx * bb)
      OBVIOUS
    <2>7. (aa * bb) * (yy * q) <= (aa * bb) * (xx * p)
      BY <1>4, <2>4, <2>5, <2>6
    <2> QED BY <2>2, <2>3, <2>7
  <1>5. y * Cofactor(c, j) <= x * Cofactor(c, k)
    <2>1. y * a <= x * b
      <3>1. x * b \in Int /\ y * a \in Int
        BY <1>2
      <3> QED BY <1>2, <3>1
    <2>2. a * Cofactor(c, k) = b * Cofactor(c, j)
      BY <1>3
    <2> HIDE DEF x, y, a, b, k
    <2> QED BY <1>2, <1>3, <1>4, <2>1, <2>2
  <1>6. ASSUME NEW i \in Rows
        PROVE  /\ Shares(e, c)[i] \in Int /\ Shares(l, c)[i] \in Int
               /\ Shares(e, c)[i] <= Shares(l, c)[i]
    <2>1. /\ Shares(l, c)[i] = L2(input_points[i], c[l[i]]).num * Cofactor(c, l[i])
          /\ Shares(l, c)[i] \in Nat
      BY ShareIs
    <2>2. /\ Shares(e, c)[i] = L2(input_points[i], c[e[i]]).num * Cofactor(c, e[i])
          /\ Shares(e, c)[i] \in Nat
      <3> HIDE DEF e
      <3> QED BY <1>1, ShareIs
    <2>3. CASE i = r
      BY <1>1, <1>5, <2>1, <2>2, <2>3
    <2>4. CASE i # r
      BY <1>1, <2>1, <2>2, <2>4
    <2> QED BY <2>3, <2>4
  <1>7. /\ SumOver(Shares(e, c), Rows) <= SumOver(Shares(l, c), Rows)
        /\ SumOver(Shares(e, c), Rows) \in Int /\ SumOver(Shares(l, c), Rows) \in Int
    <2> HIDE DEF e
    <2>1. SumOver(Shares(e, c), Rows) <= SumOver(Shares(l, c), Rows)
      BY <1>6, RowsFinite, SumMono
    <2> QED BY <1>6, <2>1, RowsFinite, SumClosed
  <1>8. den \in Nat \ {0}
    BY <1>1, Cofactors
  <1>9. ASSUME NEW u \in Int, NEW v \in Int, NEW z \in Nat, u <= v PROVE ~ (v * z < u * z)
    BY <1>9
  <1> HIDE DEF e, den
  <1>10. ~ (SumOver(Shares(l, c), Rows) * den < SumOver(Shares(e, c), Rows) * den)
    BY <1>7, <1>8, <1>9
  <1>11. /\ Objective(l, c) = [num |-> SumOver(Shares(l, c), Rows), den |-> den]
         /\ Objective(e, c) = [num |-> SumOver(Shares(e, c), Rows), den |-> den]
    BY ObjectiveSums DEF den
  <1>12. ~ Less(Objective(l, c), Objective(e, c))
    BY <1>10, <1>11 DEF Less
  <1> QED BY <1>12 DEF e

(* Second, that the centroids become the means.  A sum over the rows is    *)
(* one over the clusters of sums over their members.                       *)
LEMMA SumUnion ==
    ASSUME NEW U, IsFiniteSet(U), NEW f, \A x \in U : f[x] \in Int, NEW B \in SUBSET U
    PROVE  \A S \in SUBSET (U \ B) : SumOver(f, S \cup B) = SumOver(f, S) + SumOver(f, B)
  <1> DEFINE V == U \ B
             G == {S \in SUBSET V : SumOver(f, S \cup B) = SumOver(f, S) + SumOver(f, B)}
  <1>1. SumOver(f, B) \in Int
    BY SumClosed
  <1>2. {} \in G
    <2>1. {} \cup B = B
      OBVIOUS
    <2> QED BY <1>1, <2>1, SumEmpty
  <1>3. ASSUME NEW S \in SUBSET V, NEW x \in V \ S, S \in G PROVE S \cup {x} \in G
    <2>1. /\ S \in SUBSET U /\ S \cup B \in SUBSET U /\ x \in U \ S /\ x \in U \ (S \cup B)
          /\ (S \cup {x}) \cup B = (S \cup B) \cup {x} /\ f[x] \in Int
      OBVIOUS
    <2>2. SumOver(f, S \cup B) = SumOver(f, S) + SumOver(f, B)
      BY <1>3
    <2> HIDE DEF G, V
    <2>3. SumOver(f, S \cup {x}) = f[x] + SumOver(f, S) /\ SumOver(f, S) \in Int
      BY <2>1, SumAdd
    <2>4. SumOver(f, (S \cup B) \cup {x}) = f[x] + SumOver(f, S \cup B)
      BY <2>1, SumAdd
    <2>5. SumOver(f, (S \cup {x}) \cup B) = SumOver(f, S \cup {x}) + SumOver(f, B)
      <3>1. SumOver(f, (S \cup {x}) \cup B) = SumOver(f, (S \cup B) \cup {x})
        BY <2>1, Zenon
      <3> QED BY <1>1, <2>1, <2>2, <2>3, <2>4, <3>1
    <2> QED BY <1>3, <2>5 DEF G
  <1>4. IsFiniteSet(V)
    BY FS_Subset
  <1> HIDE DEF G
  <1>5. \A S \in SUBSET V : S \in G
    <2> HIDE DEF V
    <2> QED BY <1>2, <1>3, <1>4, AllSubsets
  <1> QED BY <1>5 DEF G

LEMMA SumByCluster ==
    ASSUME NEW l \in [Rows -> Clusters], NEW f, \A r \in Rows : f[r] \in Int,
           \A k \in Clusters : SumOver(f, Members(l, k)) >= 0
    PROVE  SumOver(f, Rows) >= 0
  <1> DEFINE In(T) == {r \in Rows : l[r] \in T}
             G == {T \in SUBSET Clusters : SumOver(f, In(T)) >= 0}
  <1>1. {} \in G
    <2>1. In({}) = {}
      OBVIOUS
    <2> QED BY <2>1, SumEmpty
  <1>2. ASSUME NEW T \in SUBSET Clusters, NEW k \in Clusters \ T, T \in G PROVE T \cup {k} \in G
    <2>1. /\ In(T \cup {k}) = Members(l, k) \cup In(T) /\ In(T) \in SUBSET Rows
          /\ Members(l, k) \in SUBSET (Rows \ In(T)) /\ Members(l, k) \in SUBSET Rows
      BY DEF Members
    <2>2. SumOver(f, In(T)) >= 0
      BY <1>2
    <2> HIDE DEF In, G
    <2>3. SumOver(f, Members(l, k) \cup In(T)) = SumOver(f, Members(l, k)) + SumOver(f, In(T))
      BY <2>1, RowsFinite, SumUnion
    <2>4. SumOver(f, Members(l, k)) \in Int /\ SumOver(f, In(T)) \in Int
      BY <2>1, RowsFinite, SumClosed
    <2>5. SumOver(f, In(T \cup {k})) >= 0
      <3>1. SumOver(f, Members(l, k)) >= 0
        OBVIOUS
      <3>2. SumOver(f, In(T \cup {k})) = SumOver(f, Members(l, k)) + SumOver(f, In(T))
        BY <2>1, <2>3, Zenon
      <3> QED BY <2>2, <2>4, <3>1, <3>2
    <2> QED BY <2>5 DEF G
  <1>3. In(Clusters) = Rows
    OBVIOUS
  <1> HIDE DEF G
  <1>4. Clusters \in G
    BY <1>1, <1>2, ClustersFinite, AllSubsets
  <1> QED BY <1>3, <1>4 DEF G

(* One coordinate of one row: what the square loses when the centroid s/n  *)
(* of a cluster is replaced by the mean t/m, over the denominators of      *)
(* both, is linear in the row.                                             *)
LEMMA SquareLoss ==
    ASSUME NEW n \in Int, NEW s \in Int, NEW m \in Int, NEW t \in Int, NEW p \in Int
    PROVE  (m * m) * ((n * p - s) * (n * p - s)) + (- (n * n)) * ((m * p - t) * (m * p - t))
             = ((m * s - n * t) * (m * s + n * t)) * 1
               + (- ((m * s - n * t) * (2 * m * n))) * p
  OBVIOUS

(* Summed over a cluster of m rows, whose coordinates sum to t, the loss   *)
(* is a square.                                                            *)
LEMMA LossOfCluster ==
    ASSUME NEW n \in Int, NEW s \in Int, NEW m \in Nat, NEW t \in Int
    PROVE  ((m * s - n * t) * (m * s + n * t)) * m + (- ((m * s - n * t) * (2 * m * n))) * t
             \in Nat
  <1> DEFINE u == m * s - n * t
  <1>1. u \in Int
    OBVIOUS
  <1>2. ((m * s - n * t) * (m * s + n * t)) * m + (- ((m * s - n * t) * (2 * m * n))) * t
          = m * (u * u)
    OBVIOUS
  <1>3. u * u \in Nat
    <2> HIDE DEF u
    <2> QED BY <1>1, SquareNat
  <1>4. ASSUME NEW x \in Nat PROVE m * x \in Nat
    OBVIOUS
  <1>5. m * (u * u) \in Nat
    <2> HIDE DEF u
    <2> QED BY <1>3, <1>4
  <1> QED BY <1>2, <1>5

(* The rows of a cluster are together not farther from their mean than     *)
(* from any other centroid.                                                *)
Loss(l, c, k, r) ==
    LET m == Means(l)[k].count
        n == c[k].count
    IN  (m * m) * L2(input_points[r], c[k]).num
          + (- (n * n)) * L2(input_points[r], Means(l)[k]).num

LEMMA ClusterLoses ==
    ASSUME NEW l \in [Rows -> Clusters], NEW c \in [Clusters -> Centroid], NEW k \in Clusters
    PROVE  SumOver([r \in Rows |-> Loss(l, c, k, r)], Members(l, k)) \in Nat
  <1> DEFINE Mem == Members(l, k)
             e == Means(l)[k]
             m == e.count
             n == c[k].count
             s(d) == c[k].sum[d]
             t(d) == e.sum[d]
             w(r) == [d \in Coords |-> (m * m) * Square(input_points[r], c[k], d)
                                         + (- (n * n)) * Square(input_points[r], e, d)]
             g == [r \in Rows |-> w(r)]
             col(d) == [r \in Rows |-> g[r][d]]
             ones == [r \in Rows |-> 1]
             a(d) == (m * s(d) - n * t(d)) * (m * s(d) + n * t(d))
             b(d) == - ((m * s(d) - n * t(d)) * (2 * m * n))
  <1>1. /\ Mem \in SUBSET Rows /\ IsFiniteSet(Mem) /\ Cardinality(Mem) \in Nat
        /\ c[k] \in Centroid /\ e \in Centroid
        /\ e = Mean(ClusterSum(l, k), Cardinality(Mem))
    BY MembersFinite, MeansType DEF Members, Means
  <1>2. m \in Nat \ {0} /\ n \in Nat \ {0} /\ \A d \in Coords : s(d) \in Int /\ t(d) \in Int
    BY <1>1 DEF Centroid, Vector
  <1>3. \A d \in Coords : t(d) = Total(Mem, d)
    BY <1>1, ClusterSumTotal DEF Mean
  <1>4. Mem # {} => m = Cardinality(Mem)
    <2>1. Mem # {} => Cardinality(Mem) # 0
      BY <1>1, FS_EmptySet
    <2> QED BY <1>1, <2>1 DEF Mean
  <1>5. ASSUME NEW r \in Rows
        PROVE  /\ Loss(l, c, k, r) = SumOver(g[r], Coords)
               /\ \A d \in Coords : /\ g[r][d] = a(d) * 1 + b(d) * Column(d)[r]
                                     /\ g[r][d] \in Int
    <2>1. input_points[r] \in Vector
      BY LloydAssumption
    <2>2. /\ L2(input_points[r], c[k]).num = SumOver(Squares(input_points[r], c[k]), Coords)
          /\ L2(input_points[r], e).num = SumOver(Squares(input_points[r], e), Coords)
      BY L2Sum
    <2>3. ASSUME NEW d \in Coords
          PROVE  /\ Squares(input_points[r], c[k])[d] = Square(input_points[r], c[k], d)
                 /\ Squares(input_points[r], e)[d] = Square(input_points[r], e, d)
                 /\ Square(input_points[r], c[k], d) \in Int
                 /\ Square(input_points[r], e, d) \in Int
      <3> HIDE DEF e
      <3> QED BY <1>1, <2>1, SquareType
    <2>4. m * m \in Int /\ - (n * n) \in Int
      BY <1>2
    <2>5. g[r] = w(r)
      OBVIOUS
    <2>6. \A d \in Coords : w(r)[d] = (m * m) * Square(input_points[r], c[k], d)
                                       + (- (n * n)) * Square(input_points[r], e, d)
      OBVIOUS
    <2>7. SumOver(w(r), Coords) = (m * m) * L2(input_points[r], c[k]).num
                                    + (- (n * n)) * L2(input_points[r], e).num
      <3>1. Linear(Coords, w(r), m * m, Squares(input_points[r], c[k]),
                   - (n * n), Squares(input_points[r], e))
        <4> HIDE DEF w, e, m, n
        <4> QED BY <2>3, <2>4, <2>6 DEF Linear
      <3> HIDE DEF w, e, m, n
      <3> QED BY <2>2, <3>1, CoordsFinite, SumLinear
    <2>8. ASSUME NEW d \in Coords
          PROVE  g[r][d] = a(d) * 1 + b(d) * Column(d)[r] /\ g[r][d] \in Int
      <3> DEFINE p == input_points[r][d]
      <3>1. p \in Int /\ s(d) \in Int /\ t(d) \in Int /\ Column(d)[r] = p
        BY <1>2, <2>1 DEF Vector, Column
      <3>2. /\ Square(input_points[r], c[k], d) = (n * p - s(d)) * (n * p - s(d))
            /\ Square(input_points[r], e, d) = (m * p - t(d)) * (m * p - t(d))
        BY DEF Square
      <3>3. g[r][d] = (m * m) * ((n * p - s(d)) * (n * p - s(d)))
                        + (- (n * n)) * ((m * p - t(d)) * (m * p - t(d)))
        <4> HIDE DEF w, m, n, s, t, e, p
        <4> QED BY <2>5, <2>6, <3>2
      <3>4. g[r][d] = a(d) * 1 + b(d) * p
        <4> HIDE DEF w, g, m, n, s, t, e, p
        <4>1. m \in Int /\ n \in Int
          BY <1>2
        <4> QED BY <3>1, <3>3, <4>1, SquareLoss
      <3>5. g[r][d] \in Int
        <4> HIDE DEF w, g, e, m, n
        <4> QED BY <2>3, <2>4, <2>5, <2>6
      <3> QED BY <3>1, <3>4, <3>5
    <2> QED BY <2>5, <2>7, <2>8 DEF Loss
  <1> HIDE DEF w, e, m, n, s, t, Mem
  <1>6. [r \in Rows |-> Loss(l, c, k, r)] = [r \in Rows |-> SumOver(g[r], Coords)]
    BY <1>5
  <1>7. SumOver([r \in Rows |-> SumOver(g[r], Coords)], Mem)
          = SumOver([d \in Coords |-> SumOver(col(d), Mem)], Coords)
    <2>1. Swapped(g, Rows, Coords, Mem)
      <3>1. \A r \in Rows : \A d \in Coords : g[r][d] \in Int
        BY <1>5
      <3> HIDE DEF g
      <3> QED BY <1>1, <3>1, RowsFinite, CoordsFinite, SumSwap
    <2> HIDE DEF g
    <2> QED BY <2>1 DEF Swapped
  <1>8. ASSUME NEW d \in Coords PROVE SumOver(col(d), Mem) \in Nat
    <2>1. a(d) \in Int /\ b(d) \in Int
      BY <1>2
    <2>2. \A r \in Rows : /\ ones[r] \in Int /\ Column(d)[r] \in Int
                          /\ col(d)[r] = a(d) * ones[r] + b(d) * Column(d)[r]
      BY <1>5, ColumnType
    <2>3. SumOver(ones, Mem) = 1 * Cardinality(Mem)
      <3>1. \A r \in Rows : ones[r] = 1
        OBVIOUS
      <3> HIDE DEF ones
      <3> QED BY <1>1, <3>1, RowsFinite, SumConstant
    <2>4. SumOver(col(d), Mem) = a(d) * SumOver(ones, Mem) + b(d) * SumOver(Column(d), Mem)
      <3> HIDE DEF a, b, col, ones, g
      <3>1. Linear(Rows, col(d), a(d), ones, b(d), Column(d))
        BY <2>1, <2>2 DEF Linear
      <3> QED BY <1>1, <3>1, RowsFinite, SumLinear
    <2>5. CASE Mem = {}
      BY <2>5, SumEmpty
    <2>6. CASE Mem # {}
      <3>1. SumOver(ones, Mem) = m /\ SumOver(Column(d), Mem) = t(d)
        BY <1>1, <1>3, <1>4, <2>3, <2>6 DEF Total
      <3>2. a(d) * m + b(d) * t(d) \in Nat
        BY <1>2, LossOfCluster
      <3> HIDE DEF a, b, col, ones
      <3> QED BY <2>4, <3>1, <3>2
    <2> QED BY <2>5, <2>6
  <1>9. SumOver([d \in Coords |-> SumOver(col(d), Mem)], Coords) \in Nat
    <2> DEFINE f == [d \in Coords |-> SumOver(col(d), Mem)]
    <2>1. \A d \in Coords : f[d] \in Nat
      <3> HIDE DEF col
      <3> QED BY <1>8
    <2> HIDE DEF f
    <2>2. SumOver(f, Coords) \in Nat
      BY <2>1, CoordsFinite, SumClosed
    <2> QED BY <2>2 DEF f
  <1> HIDE DEF g, col
  <1> QED BY <1>6, <1>7, <1>9 DEF Mem

LEMMA MeansLower ==
    ASSUME NEW l \in [Rows -> Clusters], NEW c \in [Clusters -> Centroid]
    PROVE  ~ Less(Objective(l, c), Objective(l, Means(l)))
  <1> DEFINE e == Means(l)
             x == CommonDen(c)
             y == CommonDen(e)
             f == Shares(l, c)
             g == Shares(l, e)
             h == [r \in Rows |-> y * f[r] + (- x) * g[r]]
             loss(k) == [r \in Rows |-> Loss(l, c, k, r)]
  <1>1. e \in [Clusters -> Centroid]
    BY MeansType
  <1>2. 0 \in Clusters
    BY LloydAssumption DEF Clusters
  <1>3. x \in Nat \ {0} /\ y \in Nat \ {0}
    <2> HIDE DEF e
    <2> QED BY <1>1, <1>2, Cofactors
  <1>4. \A r \in Rows : f[r] \in Int /\ g[r] \in Int
    <2> HIDE DEF e
    <2> QED BY <1>1, ShareIs
  <1>5. \A r \in Rows : h[r] \in Int /\ h[r] = y * f[r] + (- x) * g[r]
    <2> HIDE DEF f, g, x, y
    <2> QED BY <1>3, <1>4
  <1>6. SumOver(h, Rows) = y * SumOver(f, Rows) + (- x) * SumOver(g, Rows)
    <2> HIDE DEF f, g, h, x, y
    <2>1. - x \in Int /\ y \in Int
      BY <1>3
    <2>2. Linear(Rows, h, y, f, - x, g)
      BY <1>4, <1>5, <2>1 DEF Linear
    <2> QED BY <2>2, RowsFinite, SumLinear
  <1>7. ASSUME NEW k \in Clusters PROVE SumOver(h, Members(l, k)) >= 0
    <2> DEFINE Mem == Members(l, k)
               n == c[k].count
               m == e[k].count
               q == Cofactor(c, k)
               z == Cofactor(e, k)
    <2>1. /\ x = (n * n) * q /\ y = (m * m) * z
          /\ q \in Nat /\ z \in Nat /\ n \in Nat /\ m \in Nat
      <3>1. x = (n * n) * q /\ q \in Nat /\ n \in Nat
        BY Cofactors DEF Centroid
      <3>2. y = (m * m) * z /\ z \in Nat /\ m \in Nat
        <4> HIDE DEF e
        <4> QED BY <1>1, Cofactors DEF Centroid
      <3> QED BY <3>1, <3>2
    <2>2. ASSUME NEW r \in Mem PROVE h[r] = (q * z) * loss(k)[r] /\ loss(k)[r] \in Int
      <3> DEFINE v == L2(input_points[r], c[k]).num
                 w == L2(input_points[r], e[k]).num
      <3>1. r \in Rows /\ l[r] = k
        BY DEF Members
      <3>2. f[r] = v * q /\ v \in Nat
        BY <3>1, ShareIs, RowType DEF Distance
      <3>3. g[r] = w * z /\ w \in Nat
        <4> HIDE DEF e
        <4> QED BY <1>1, <3>1, ShareIs, RowType DEF Distance
      <3>4. loss(k)[r] = (m * m) * v + (- (n * n)) * w
        BY <3>1 DEF Loss
      <3>5. h[r] = ((m * m) * z) * (v * q) + (- ((n * n) * q)) * (w * z)
        <4> HIDE DEF h, f, g, v, w, x, y, q, z, m, n
        <4> QED BY <1>5, <2>1, <3>1, <3>2, <3>3
      <3>6. ((m * m) * z) * (v * q) + (- ((n * n) * q)) * (w * z)
              = (q * z) * ((m * m) * v + (- (n * n)) * w)
        <4> HIDE DEF v, w, q, z, m, n
        <4> QED BY <2>1, <3>2, <3>3
      <3>7. (m * m) * v + (- (n * n)) * w \in Int
        <4> HIDE DEF v, w, q, z, m, n
        <4> QED BY <2>1, <3>2, <3>3
      <3> HIDE DEF h, loss, v, w, q, z, m, n
      <3> QED BY <3>4, <3>5, <3>6, <3>7
    <2>3. SumOver(h, Mem) = (q * z) * SumOver(loss(k), Mem) + 0 * SumOver(loss(k), Mem)
      <3>1. IsFiniteSet(Mem)
        BY MembersFinite
      <3> HIDE DEF h, loss, Mem, q, z
      <3>2. \A r \in Mem : h[r] = (q * z) * loss(k)[r] + 0 * loss(k)[r]
        BY <2>2, <2>1
      <3>3. q * z \in Int
        BY <2>1
      <3>4. Linear(Mem, h, q * z, loss(k), 0, loss(k))
        BY <2>2, <3>2, <3>3 DEF Linear
      <3>5. Mem \in SUBSET Mem
        OBVIOUS
      <3> QED BY <3>1, <3>4, <3>5, SumLinear
    <2>4. SumOver(loss(k), Mem) \in Nat
      BY ClusterLoses
    <2>5. ASSUME NEW a \in Nat PROVE (q * z) * a + 0 * a >= 0
      <3> HIDE DEF q, z
      <3> QED BY <2>1
    <2> HIDE DEF h, loss, q, z
    <2> QED BY <2>3, <2>4, <2>5
  <1>8. SumOver(h, Rows) >= 0
    <2> HIDE DEF h
    <2> QED BY <1>5, <1>7, SumByCluster
  <1>9. SumOver(f, Rows) \in Int /\ SumOver(g, Rows) \in Int
    <2> HIDE DEF f, g
    <2> QED BY <1>4, RowsFinite, SumClosed
  <1>10. ASSUME NEW u \in Int, NEW v \in Int, y * u + (- x) * v >= 0 PROVE ~ (u * y < v * x)
    <2> HIDE DEF x, y
    <2> QED BY <1>3, <1>10
  <1>11. ~ (SumOver(f, Rows) * y < SumOver(g, Rows) * x)
    <2> HIDE DEF f, g, h, x, y
    <2> QED BY <1>6, <1>8, <1>9, <1>10
  <1>12. /\ Objective(l, c) = [num |-> SumOver(f, Rows), den |-> x]
         /\ Objective(l, e) = [num |-> SumOver(g, Rows), den |-> y]
    BY ObjectiveSums
  <1> HIDE DEF e, f, g, x, y
  <1>13. ~ Less(Objective(l, c), Objective(l, e))
    BY <1>11, <1>12 DEF Less
  <1> QED BY <1>13 DEF e

-----------------------------------------------------------------------------
(* Data for which no distance overflows: coordinates are at most b, and so *)
(* are those of every mean.                                                *)
InRange(b) ==
    /\ \A r \in Rows, d \in Coords : - b <= input_points[r][d] /\ input_points[r][d] <= b
    /\ D * (4 * b * b) < FloatMax

DataInRange == \E b \in Nat : InRange(b)

InBox(c, b) == \A d \in Coords : - (c.count * b) <= c.sum[d] /\ c.sum[d] <= c.count * b

LEMMA MeansInBox ==
    ASSUME NEW b \in Nat, InRange(b), NEW l, NEW k \in Clusters
    PROVE  InBox(Means(l)[k], b)
  <1> DEFINE Mem == Members(l, k)
             e == Means(l)[k]
             n == Cardinality(Mem)
  <1>1. /\ Mem \in SUBSET Rows /\ n \in Nat /\ e = Mean(ClusterSum(l, k), n)
    BY MembersFinite DEF Members, Means
  <1> SUFFICES ASSUME NEW d \in Coords
               PROVE  - (e.count * b) <= e.sum[d] /\ e.sum[d] <= e.count * b
    BY DEF InBox
  <1>2. e.sum[d] = Total(Mem, d)
    BY <1>1, ClusterSumTotal DEF Mean
  <1> DEFINE low == [r \in Rows |-> - b]
             high == [r \in Rows |-> b]
  <1>3. /\ SumOver(low, Mem) = (- b) * n /\ SumOver(high, Mem) = b * n
    <2>1. (\A r \in Rows : low[r] = - b) /\ (\A r \in Rows : high[r] = b) /\ - b \in Int
      OBVIOUS
    <2> HIDE DEF low, high, Mem
    <2>2. SumOver(low, Mem) = (- b) * n
      BY <1>1, <2>1, RowsFinite, SumConstant
    <2>3. SumOver(high, Mem) = b * n
      <3>1. b \in Int /\ \A r \in Rows : high[r] = b
        BY <2>1
      <3> QED BY <1>1, <3>1, RowsFinite, SumConstant
    <2> QED BY <2>2, <2>3
  <1>4. /\ SumOver(low, Mem) <= Total(Mem, d) /\ Total(Mem, d) <= SumOver(high, Mem)
    <2>1. \A r \in Rows : /\ low[r] \in Int /\ high[r] \in Int /\ Column(d)[r] \in Int
                          /\ low[r] <= Column(d)[r] /\ Column(d)[r] <= high[r]
      BY ColumnType DEF InRange, Column
    <2> HIDE DEF low, high, Mem
    <2>2. SumOver(low, Mem) <= SumOver(Column(d), Mem)
      BY <1>1, <2>1, RowsFinite, SumMono
    <2>3. SumOver(Column(d), Mem) <= SumOver(high, Mem)
      BY <1>1, <2>1, RowsFinite, SumMono
    <2> QED BY <2>2, <2>3 DEF Total
  <1>5. n <= e.count /\ e.count \in Nat
    BY <1>1 DEF Mean
  <1>6. ASSUME NEW i \in Nat, NEW j \in Nat, i <= j
        PROVE  - (j * b) <= (- b) * i /\ b * i <= j * b /\ (- b) * i \in Int /\ b * i \in Int
               /\ j * b \in Int
    BY <1>6
  <1>7. Total(Mem, d) \in Int
    BY <1>1, TotalType
  <1> HIDE DEF e, low, high, n, Mem
  <1> QED BY <1>1, <1>2, <1>3, <1>4, <1>5, <1>6, <1>7

LEMMA SampledInBox ==
    ASSUME NEW b \in Nat, InRange(b), NEW s \in [Clusters -> Rows], NEW k \in Clusters
    PROVE  InBox(SampledCentroids(s)[k], b)
  <1>1. SampledCentroids(s)[k] = [sum |-> input_points[s[k]], count |-> 1] /\ s[k] \in Rows
    BY DEF SampledCentroids, PointAsCentroid
  <1>2. 1 * b = b
    OBVIOUS
  <1> QED BY <1>1, <1>2 DEF InBox, InRange

LEMMA BoxReachable ==
    ASSUME NEW b \in Nat, InRange(b), NEW c \in Centroid, InBox(c, b), NEW r \in Rows
    PROVE  Less(L2(input_points[r], c), FloatMaxDistance)
  <1> DEFINE n == c.count
             p == input_points[r]
             bound == (4 * b * b) * (n * n)
             f == [d \in Coords |-> bound]
  <1>1. n \in Nat \ {0} /\ p \in Vector /\ c.sum \in Vector
    BY LloydAssumption DEF Centroid
  <1>2. ASSUME NEW x \in Int, NEW y \in Nat, - y <= x, x <= y PROVE x * x <= y * y
    <2>1. (y - x) * (y + x) >= 0
      <3>1. y - x \in Nat /\ y + x \in Nat
        BY <1>2
      <3>2. ASSUME NEW u \in Nat, NEW v \in Nat PROVE u * v >= 0
        OBVIOUS
      <3> QED BY <3>1, <3>2
    <2>2. (y - x) * (y + x) = y * y - x * x
      OBVIOUS
    <2> QED BY <2>1, <2>2
  <1>3. ASSUME NEW d \in Coords PROVE Square(p, c, d) <= bound
    <2> DEFINE x == n * p[d] - c.sum[d]
               y == 2 * (n * b)
    <2>1. /\ p[d] \in Int /\ c.sum[d] \in Int /\ - b <= p[d] /\ p[d] <= b
          /\ - (n * b) <= c.sum[d] /\ c.sum[d] <= n * b
      BY <1>1 DEF Vector, InRange, InBox
    <2>2. ASSUME NEW u \in Int, - b <= u, u <= b PROVE - (n * b) <= n * u /\ n * u <= n * b
      <3> HIDE DEF n
      <3>1. ASSUME NEW i \in Int, NEW j \in Int, i <= j PROVE n * i <= n * j
        BY <1>1, <3>1
      <3>2. n * (- b) <= n * u /\ n * u <= n * b
        BY <2>2, <3>1
      <3>3. n * (- b) = - (n * b)
        BY <1>1
      <3> QED BY <3>2, <3>3
    <2>3. n * b \in Nat /\ n * p[d] \in Int
      BY <1>1, <2>1
    <2>4. x \in Int /\ y \in Nat /\ - y <= x /\ x <= y
      <3>1. - (n * b) <= n * p[d] /\ n * p[d] <= n * b
        BY <2>1, <2>2
      <3> QED BY <2>1, <2>3, <3>1
    <2>5. x * x <= y * y
      <3> HIDE DEF x, y
      <3> QED BY <1>2, <2>4
    <2>6. y * y = bound
      <3> HIDE DEF n
      <3> QED BY <1>1
    <2>7. Square(p, c, d) = x * x
      BY DEF Square
    <2> QED BY <2>5, <2>6, <2>7
  <1>4. bound \in Int
    BY <1>1
  <1>5. SumOver(Squares(p, c), Coords) <= bound * D
    <2>1. \A d \in Coords : /\ Squares(p, c)[d] \in Int /\ f[d] \in Int
                            /\ Squares(p, c)[d] <= f[d] /\ f[d] = bound
      <3> HIDE DEF bound, p
      <3> QED BY <1>1, <1>3, <1>4, SquareType
    <2> HIDE DEF f, bound
    <2>2. SumOver(Squares(p, c), Coords) <= SumOver(f, Coords)
      BY <2>1, CoordsFinite, SumMono
    <2>3. SumOver(f, Coords) = bound * Cardinality(Coords)
      BY <1>4, <2>1, CoordsFinite, SumConstant
    <2> QED BY <2>2, <2>3, CoordsFinite
  <1>6. bound * D < FloatMax * (n * n)
    <2>1. bound * D = (D * (4 * b * b)) * (n * n)
      <3> HIDE DEF n
      <3> QED BY <1>1, LloydAssumption
    <2>2. D * (4 * b * b) < FloatMax /\ D * (4 * b * b) \in Int /\ FloatMax \in Int
      BY LloydAssumption DEF InRange
    <2>3. n * n \in Nat \ {0}
      BY <1>1
    <2>4. ASSUME NEW u \in Int, NEW v \in Int, NEW z \in Nat \ {0}, u < v PROVE u * z < v * z
      BY <2>4
    <2> HIDE DEF bound, n
    <2> QED BY <2>1, <2>2, <2>3, <2>4
  <1>7. SumOver(Squares(p, c), Coords) \in Int
    <2>1. \A d \in Coords : Squares(p, c)[d] \in Int
      BY <1>1, SquareType
    <2> QED BY <2>1, CoordsFinite, SumClosed
  <1>8. bound * D \in Int /\ FloatMax * (n * n) \in Int
    BY <1>1, <1>4, LloydAssumption
  <1>9. SumOver(Squares(p, c), Coords) < FloatMax * (n * n)
    <2> HIDE DEF bound, n, p
    <2> QED BY <1>5, <1>6, <1>7, <1>8
  <1>10. L2(p, c) = [num |-> SumOver(Squares(p, c), Coords), den |-> n * n]
    BY L2Sum
  <1>11. SumOver(Squares(p, c), Coords) * 1 = SumOver(Squares(p, c), Coords)
    BY <1>7
  <1> HIDE DEF n, p
  <1>12. Less(L2(p, c), FloatMaxDistance)
    BY <1>9, <1>10, <1>11 DEF Less, FloatMaxDistance
  <1> QED BY <1>12 DEF p

LEMMA ZeroInBox ==
    ASSUME NEW b \in Nat, NEW k \in Clusters
    PROVE  InBox(ZeroCentroids[k], b)
  <1>1. ZeroCentroids[k] = [sum |-> ZeroVector, count |-> 1] /\ \A d \in Coords : ZeroVector[d] = 0
    BY DEF ZeroCentroids, PointAsCentroid, ZeroVector
  <1> QED BY <1>1 DEF InBox

LEMMA ObjectiveSame ==
    ASSUME NEW l \in [Rows -> Clusters], NEW c \in [Clusters -> Centroid]
    PROVE  ~ Less(Objective(l, c), Objective(l, c))
  <1>1. \A r \in Rows : Shares(l, c)[r] \in Int
    BY ShareIs
  <1>2. SumOver(Shares(l, c), Rows) \in Int
    BY <1>1, RowsFinite, SumClosed
  <1>3. 0 \in Clusters
    BY LloydAssumption DEF Clusters
  <1>4. CommonDen(c) \in Int
    BY <1>3, Cofactors
  <1>5. ASSUME NEW x \in Int, NEW y \in Int PROVE ~ (x * y < x * y)
    OBVIOUS
  <1> QED BY <1>2, <1>4, <1>5, ObjectiveSums DEF Less

-----------------------------------------------------------------------------
(* What any fit may do to labels and centroids between its samplings, and  *)
(* to the centroids at all.                                                *)
RoundStep(l, c, l2, c2) ==
    \/ /\ \E r \in Rows, j \in Clusters :
            IsNearest(input_points[r], j, c) /\ l2 = [l EXCEPT ![r] = j]
       /\ c2 = c
    \/ l2 = l /\ c2 \in {c, Means(l)}

CentroidStep(l, c, c2) ==
    \/ c2 \in {c, ZeroCentroids, Means(l)}
    \/ \E s \in [Clusters -> Rows] : c2 = SampledCentroids(s)

(* Every row has a centroid nearer than numeric_limits<T>::max(): if one   *)
(* had none, it would be given the label 0, however far that centroid is.  *)
Reachable(c) ==
    \A r \in Rows : \E k \in Clusters : Less(L2(input_points[r], c[k]), FloatMaxDistance)

LEMMA RoundStepLowers ==
    ASSUME NEW l \in [Rows -> Clusters], NEW c \in [Clusters -> Centroid], NEW l2, NEW c2,
           Reachable(c), RoundStep(l, c, l2, c2)
    PROVE  ~ Less(Objective(l, c), Objective(l2, c2))
  <1>1. ASSUME NEW r \in Rows, NEW j \in Clusters, IsNearest(input_points[r], j, c),
               l2 = [l EXCEPT ![r] = j], c2 = c
        PROVE  ~ Less(Objective(l, c), Objective(l2, c2))
    <2>1. ~ Less(L2(input_points[r], c[l[r]]), L2(input_points[r], c[j]))
      BY <1>1, NearestNotFarther DEF Reachable
    <2> QED BY <1>1, <2>1, LabellingLowers
  <1>2. CASE l2 = l /\ c2 \in {c, Means(l)}
    BY <1>2, MeansLower, ObjectiveSame
  <1> QED BY <1>1, <1>2 DEF RoundStep

Boxed(c, b) == \A k \in Clusters : InBox(c[k], b)

LEMMA CentroidStepBoxed ==
    ASSUME NEW b \in Nat, InRange(b), NEW l, NEW c, NEW c2, Boxed(c, b), CentroidStep(l, c, c2)
    PROVE  Boxed(c2, b)
  BY MeansInBox, SampledInBox, ZeroInBox DEF Boxed, CentroidStep

LEMMA BoxedReachable ==
    ASSUME NEW b \in Nat, InRange(b), NEW c \in [Clusters -> Centroid], Boxed(c, b)
    PROVE  Reachable(c)
  <1>1. 0 \in Clusters
    BY LloydAssumption DEF Clusters
  <1> QED BY <1>1, BoxReachable DEF Boxed, Reachable
=============================================================================
