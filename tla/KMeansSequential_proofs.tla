----------------------- MODULE KMeansSequential_proofs -----------------------
(***************************************************************************)
(* The sequential fit implements KMeans, for every data set, K and number  *)
(* of rounds: its three loops label every row with its nearest centroid    *)
(* and replace the centroids by the means, once per round.                 *)
(***************************************************************************)
EXTENDS KMeansSequential, Lloyd_proofs

LEMMA Parameters ==
    /\ N \in Nat /\ K \in Nat /\ M \in Nat /\ 0 < K /\ K <= N /\ 0 \in Clusters
    /\ input_points \in [Rows -> Vector]
  BY LloydAssumption, SequentialAssumption DEF Clusters

(* A distance is below numeric_limits<T>::max() or not, and that is one.   *)
LEMMA MaxType == FloatMaxDistance \in Distance
  BY LloydAssumption DEF FloatMaxDistance, Distance

dist(c) == L2(input_points[i], centroids[c])

(* The sampled rows are distinct. *)
DistinctInv ==
    pc = "sample" => \A a, b \in 1 .. Len(indices) : indices[a] = indices[b] => a = b

(* distance is the least of those of the centroids passed, and closest the *)
(* first to have it; 0 as long as none is below numeric_limits<T>::max().  *)
ScanInv ==
    pc = "scan" /\ i < N =>
        /\ \A c \in 0 .. k - 1 : ~ Less(dist(c), distance)
        /\ \/ distance = FloatMaxDistance /\ closest = 0
           \/ /\ closest < k /\ distance = dist(closest)
              /\ Less(distance, FloatMaxDistance)
              /\ \A c \in 0 .. closest - 1 : Less(distance, dist(c))

(* The helper arrays hold the sums over the rows accumulated so far, and   *)
(* the centroids divided so far are means.                                 *)
MeansInv ==
    /\ pc = "scan" => sums = ZeroSums /\ counts = ZeroCounts
    /\ pc = "accumulate" =>
         \A c \in Clusters : /\ sums[c] = SumBefore(labels, c, i)
                             /\ counts[c] = Cardinality(Before(labels, c, i))
    /\ pc = "divide" =>
         /\ \A c \in Clusters : /\ sums[c] = ClusterSum(labels, c)
                                /\ counts[c] = Cardinality(Members(labels, c))
         /\ \A c \in Clusters : c < k => centroids[c] = Means(labels)[c]

RoundInv ==
    /\ pc \in {"scan", "accumulate", "divide"} => iteration < M
    /\ pc = "fitted" => iteration = M

IInv == TypeOK /\ DistinctInv /\ ScanInv /\ MeansInv /\ RoundInv

-----------------------------------------------------------------------------
LEMMA DistType ==
    ASSUME NEW r \in Rows, NEW c \in Clusters, centroids \in [Clusters -> Centroid]
    PROVE  L2(input_points[r], centroids[c]) \in Distance
  BY Parameters, L2Type

LEMMA ZeroTypes == ZeroSums \in [Clusters -> Vector] /\ ZeroCounts \in [Clusters -> 0 .. N]
                   /\ ZeroCentroids \in [Clusters -> Centroid]
  BY Parameters DEF ZeroSums, ZeroCounts, ZeroVector, Vector, ZeroCentroids,
     PointAsCentroid, Centroid

(* What the head of the outer loop establishes. *)
LEMMA RoundBegun ==
    ASSUME NEW n \in 0 .. M, BeginRound(n), TypeOK,
           centroids' \in [Clusters -> Centroid], labels' = labels, indices' = indices,
           fitted' = fitted
    PROVE  IInv'
  <1>1. /\ iteration' = n /\ i' = 0 /\ k' = 0 /\ distance' = FloatMaxDistance /\ closest' = 0
        /\ sums' = ZeroSums /\ counts' = ZeroCounts
        /\ pc' = IF n < M THEN "scan" ELSE "fitted"
    BY DEF BeginRound
  <1>2. pc' \in {"scan", "fitted"} /\ (pc' = "scan" <=> n < M) /\ (pc' = "fitted" => n = M)
    BY <1>1, Parameters
  <1>3. TypeOK'
    BY <1>1, <1>2, ZeroTypes, MaxType, Parameters DEF TypeOK, Distance
  <1>4. ScanInv'
    BY <1>1 DEF ScanInv
  <1> QED BY <1>1, <1>2, <1>3, <1>4 DEF IInv, DistinctInv, MeansInv, RoundInv

LEMMA InitIInv == Init => IInv
  <1> SUFFICES ASSUME Init PROVE IInv
    OBVIOUS
  <1>1. TypeOK
    <2>1. distance \in [num : Nat, den : Nat \ {0}]
      BY MaxType DEF Init, Distance
    <2>2. indices \in Seq(Rows) /\ labels \in [Rows -> Clusters]
      BY Parameters DEF Init
    <2>3. iteration \in 0 .. M /\ i \in 0 .. N /\ k \in 0 .. K /\ closest \in Clusters
      BY Parameters DEF Init
    <2>4. /\ centroids \in [Clusters -> Centroid] /\ sums \in [Clusters -> Vector]
          /\ counts \in [Clusters -> 0 .. N]
      BY ZeroTypes DEF Init
    <2> QED BY <2>1, <2>2, <2>3, <2>4 DEF Init, TypeOK
  <1> QED BY <1>1 DEF Init, IInv, DistinctInv, ScanInv, MeansInv, RoundInv

LEMMA StepIInv == IInv /\ [Fit \/ Refit]_vars => IInv'
  <1> SUFFICES ASSUME IInv, [Fit \/ Refit]_vars PROVE IInv'
    OBVIOUS
  <1> USE DEF IInv
  <1>1. CASE SampleRow
    <2>1. /\ pc = "sample" /\ pc' = "sample"
          /\ UNCHANGED <<centroids, labels, sums, counts, iteration, i, k, distance, closest,
                         fitted>>
      BY <1>1 DEF SampleRow, helpers, scan
    <2>2. PICK r \in Rows \ Range(indices) : indices' = Append(indices, r)
      BY <1>1 DEF SampleRow
    <2>3. indices \in Seq(Rows) /\ \A a \in 1 .. Len(indices) : indices[a] # r
      BY <2>2 DEF TypeOK, Range
    <2>4. /\ Len(indices') = Len(indices) + 1 /\ Len(indices) \in Nat
          /\ \A a \in 1 .. Len(indices) : indices'[a] = indices[a]
          /\ indices'[Len(indices) + 1] = r
      BY <2>2, <2>3
    <2>5. DistinctInv'
      BY <2>1, <2>3, <2>4 DEF DistinctInv
    <2>6. TypeOK'
      BY <2>1, <2>2, <2>3 DEF TypeOK
    <2> QED BY <2>1, <2>5, <2>6 DEF ScanInv, MeansInv, RoundInv
  <1>2. CASE CopySampled
    <2> DEFINE s == [c \in Clusters |-> indices[c + 1]]
    <2>1. /\ pc = "sample" /\ Len(indices) = K /\ centroids' = SampledCentroids(s)
          /\ BeginRound(0) /\ UNCHANGED <<indices, labels, fitted>>
      BY <1>2 DEF CopySampled
    <2>2. s \in [Clusters -> Rows]
      BY <2>1, Parameters DEF TypeOK, Clusters
    <2> HIDE DEF s
    <2>3. centroids' \in [Clusters -> Centroid]
      BY <2>1, <2>2, SampledType
    <2> QED BY <2>1, <2>3, RoundBegun, Parameters
  <1>3. CASE ScanCentroid
    <2> DEFINE d == L2(input_points[i], centroids[k])
    <2>1. /\ pc = "scan" /\ i < N /\ k < K /\ k' = k + 1
          /\ IF Less(d, distance) THEN distance' = d /\ closest' = k
                                  ELSE distance' = distance /\ closest' = closest
          /\ UNCHANGED <<pc, indices, centroids, labels, sums, counts, iteration, i, fitted>>
      BY <1>3 DEF ScanCentroid, helpers
    <2>2. i \in Rows /\ k \in Clusters /\ centroids \in [Clusters -> Centroid]
          /\ distance \in Distance /\ closest \in Clusters /\ FloatMaxDistance \in Distance
      BY <2>1, Parameters, MaxType DEF TypeOK, Rows, Clusters, Distance
    <2>3. \A c \in 0 .. k : c \in Clusters /\ dist(c) \in Distance
      BY <2>2, DistType, Parameters DEF Clusters, dist
    <2>4. d = dist(k) /\ d \in Distance /\ \A c : dist(c)' = dist(c)
      BY <2>1, <2>2, DistType DEF dist
    <2>5. ScanInv
      OBVIOUS
    <2> HIDE DEF d
    <2>6. TypeOK'
      <3>1. distance' \in [num : Nat, den : Nat \ {0}] /\ closest' \in Clusters
        BY <2>1, <2>2, <2>4 DEF Distance
      <3>2. k' \in 0 .. K
        BY <2>1, <2>2, Parameters DEF Clusters
      <3> QED BY <2>1, <3>1, <3>2 DEF TypeOK
    <2>7. /\ \A c \in 0 .. k - 1 : ~ Less(dist(c), distance)
          /\ \/ distance = FloatMaxDistance /\ closest = 0
             \/ /\ closest < k /\ distance = dist(closest)
                /\ Less(distance, FloatMaxDistance)
                /\ \A c \in 0 .. closest - 1 : Less(distance, dist(c))
      BY <2>1, <2>5 DEF ScanInv
    <2>8. k \in Nat /\ closest \in Nat /\ \A c \in 0 .. k : c \in 0 .. k - 1 \/ c = k
      BY <2>2, Parameters DEF Clusters
    <2>9. CASE Less(d, distance)
      <3>1. distance' = dist(k) /\ closest' = k
        BY <2>1, <2>4, <2>9
      <3>2. \A c \in 0 .. k - 1 : Less(dist(k), dist(c))
        BY <2>2, <2>3, <2>4, <2>7, <2>8, <2>9, LessTrans
      <3>3. \A c \in 0 .. k : ~ Less(dist(c), dist(k))
        BY <2>3, <2>4, <2>8, <3>2, LessAsym
      <3>4. Less(dist(k), FloatMaxDistance)
        BY <2>2, <2>4, <2>7, <2>9, LessTrans, LessAsym
      <3>5. (k + 1) - 1 = k
        BY <2>8
      <3>6. ScanInv'
        BY <2>1, <2>4, <2>8, <3>1, <3>2, <3>3, <3>4, <3>5 DEF ScanInv
      <3> QED BY <2>1, <2>6, <3>6 DEF DistinctInv, MeansInv, RoundInv
    <2>10. CASE ~ Less(d, distance)
      <3>1. distance' = distance /\ closest' = closest
        BY <2>1, <2>10
      <3>2. \A c \in 0 .. k : ~ Less(dist(c), distance)
        BY <2>4, <2>7, <2>8, <2>10
      <3>3. (k + 1) - 1 = k /\ (closest < k => closest < k + 1)
        BY <2>8
      <3>4. ScanInv'
        BY <2>1, <2>4, <2>7, <3>1, <3>2, <3>3 DEF ScanInv
      <3> QED BY <2>1, <2>6, <3>4 DEF DistinctInv, MeansInv, RoundInv
    <2> QED BY <2>9, <2>10
  <1>4. CASE StoreLabel
    <2>1. /\ pc = "scan" /\ i < N /\ labels' = [labels EXCEPT ![i] = closest] /\ i' = i + 1
          /\ k' = 0 /\ distance' = FloatMaxDistance /\ closest' = 0
          /\ UNCHANGED <<pc, indices, centroids, sums, counts, iteration, fitted>>
      BY <1>4 DEF StoreLabel, helpers
    <2>2. TypeOK'
      <3>1. distance' \in [num : Nat, den : Nat \ {0}]
        BY <2>1, MaxType DEF Distance
      <3>2. i' \in 0 .. N /\ k' \in 0 .. K
        BY <2>1, Parameters DEF TypeOK
      <3>3. labels' \in [Rows -> Clusters]
        BY <2>1 DEF TypeOK
      <3> QED BY <2>1, <3>1, <3>2, <3>3, Parameters DEF TypeOK
    <2>3. ScanInv'
      BY <2>1 DEF ScanInv
    <2> QED BY <2>1, <2>2, <2>3 DEF DistinctInv, MeansInv, RoundInv
  <1>5. CASE AllLabelled
    <2>1. /\ pc = "scan" /\ pc' = "accumulate" /\ i' = 0
          /\ UNCHANGED <<indices, centroids, labels, sums, counts, iteration, k, distance,
                         closest, fitted>>
      BY <1>5 DEF AllLabelled, helpers, scan
    <2>2. TypeOK'
      BY <2>1, Parameters DEF TypeOK
    <2>3. \A c \in Clusters : sums[c] = ZeroVector /\ counts[c] = 0
      BY <2>1 DEF MeansInv, ZeroSums, ZeroCounts
    <2>4. MeansInv'
      BY <2>1, <2>3, BeforeNone DEF MeansInv
    <2> QED BY <2>1, <2>2, <2>4 DEF DistinctInv, ScanInv, RoundInv
  <1>6. CASE Accumulate
    <2>1. /\ pc = "accumulate" /\ pc' = "accumulate" /\ i \in Rows /\ i' = i + 1
          /\ UNCHANGED <<indices, centroids, labels, iteration, k, distance, closest, fitted>>
          /\ sums' = [sums EXCEPT ![labels[i]] = VectorSum(@, input_points[i])]
          /\ counts' = [counts EXCEPT ![labels[i]] = @ + 1]
      BY <1>6, Parameters DEF Accumulate, scan, TypeOK, Rows
    <2>2. ASSUME NEW c \in Clusters
          PROVE  /\ sums'[c] = SumBefore(labels, c, i + 1)
                 /\ counts'[c] = Cardinality(Before(labels, c, i + 1))
      <3>1. sums[c] = SumBefore(labels, c, i) /\ counts[c] = Cardinality(Before(labels, c, i))
        BY <2>1 DEF MeansInv
      <3>2. CASE c = labels[i]
        <4>1. sums'[c] = VectorSum(sums[c], input_points[i]) /\ counts'[c] = counts[c] + 1
          BY <2>1, <3>2 DEF TypeOK
        <4> QED BY <2>1, <3>1, <3>2, <4>1, BeforeNext
      <3>3. CASE c # labels[i]
        <4>1. sums'[c] = sums[c] /\ counts'[c] = counts[c]
          BY <2>1, <3>3 DEF TypeOK
        <4>2. Before(labels, c, i + 1) = Before(labels, c, i)
          BY <2>1, <3>3, BeforeNext
        <4> QED BY <3>1, <4>1, <4>2 DEF SumBefore
      <3> QED BY <3>2, <3>3
    <2>3. MeansInv'
      BY <2>1, <2>2 DEF MeansInv
    <2>4. sums' \in [Clusters -> Vector] /\ counts' \in [Clusters -> 0 .. N]
      <3>1. DOMAIN sums' = Clusters /\ DOMAIN counts' = Clusters
            /\ sums' = [c \in Clusters |-> sums'[c]] /\ counts' = [c \in Clusters |-> counts'[c]]
        BY <2>1 DEF TypeOK
      <3>2. \A c \in Clusters : sums'[c] \in Vector /\ counts'[c] \in 0 .. N
        BY <2>2, SumBeforeType, BeforeBound
      <3> QED BY <3>1, <3>2
    <2>5. TypeOK'
      BY <2>1, <2>4, Parameters DEF TypeOK, Rows
    <2> QED BY <2>1, <2>3, <2>5 DEF DistinctInv, ScanInv, RoundInv
  <1>7. CASE Accumulated
    <2>1. /\ pc = "accumulate" /\ pc' = "divide" /\ i = N /\ k' = 0
          /\ UNCHANGED <<indices, centroids, labels, sums, counts, iteration, i, distance,
                         closest, fitted>>
      BY <1>7 DEF Accumulated, helpers
    <2>2. TypeOK'
      BY <2>1, Parameters DEF TypeOK
    <2>3. ASSUME NEW c \in Clusters
          PROVE  sums[c] = ClusterSum(labels, c) /\ counts[c] = Cardinality(Members(labels, c))
      BY <2>1, BeforeAll DEF MeansInv
    <2>4. \A c \in Clusters : ~ (c < 0)
      BY DEF Clusters
    <2>5. MeansInv'
      BY <2>1, <2>3, <2>4 DEF MeansInv
    <2> QED BY <2>1, <2>2, <2>5 DEF DistinctInv, ScanInv, RoundInv
  <1>8. CASE Divide
    <2>1. /\ pc = "divide" /\ pc' = "divide" /\ k \in Clusters /\ k' = k + 1
          /\ UNCHANGED <<indices, labels, sums, counts, iteration, i, distance, closest, fitted>>
          /\ centroids' = [centroids EXCEPT ![k] = Mean(sums[k], counts[k])]
      BY <1>8, Parameters DEF Divide, helpers, TypeOK, Clusters
    <2>2. ASSUME NEW c \in Clusters, c < k + 1 PROVE centroids'[c] = Means(labels)[c]
      <3>1. CASE c = k
        BY <2>1, <3>1 DEF MeansInv, TypeOK, Means
      <3>2. CASE c # k
        BY <2>1, <2>2, <3>2 DEF MeansInv, TypeOK, Clusters
      <3> QED BY <3>1, <3>2
    <2>3. MeansInv'
      BY <2>1, <2>2 DEF MeansInv
    <2>4. Mean(sums[k], counts[k]) \in Centroid
      BY <2>1, MeanType, Parameters DEF TypeOK
    <2>5. TypeOK'
      BY <2>1, <2>4, Parameters DEF TypeOK, Clusters
    <2> QED BY <2>1, <2>3, <2>5 DEF DistinctInv, ScanInv, RoundInv
  <1>9. CASE NextRound
    <2>1. /\ pc = "divide" /\ BeginRound(iteration + 1)
          /\ UNCHANGED <<indices, centroids, labels, fitted>>
      BY <1>9 DEF NextRound
    <2>2. iteration + 1 \in 0 .. M
      BY <2>1, Parameters DEF RoundInv, TypeOK
    <2>3. centroids' \in [Clusters -> Centroid]
      BY <2>1 DEF TypeOK
    <2> QED BY <2>1, <2>2, <2>3, RoundBegun
  <1>10. CASE Finish
    <2>1. /\ pc' = "returned" /\ fitted' = TRUE
          /\ UNCHANGED <<indices, centroids, labels, sums, counts, iteration, i, k, distance,
                         closest>>
      BY <1>10 DEF Finish, helpers, scan
    <2>2. TypeOK'
      BY <2>1 DEF TypeOK
    <2> QED BY <2>1, <2>2 DEF DistinctInv, ScanInv, MeansInv, RoundInv
  <1>11. CASE Refit
    <2>1. /\ pc' = "sample" /\ indices' = <<>> /\ centroids' = ZeroCentroids
          /\ UNCHANGED <<labels, sums, counts, iteration, i, k, distance, closest, fitted>>
      BY <1>11 DEF Refit, helpers, scan
    <2>2. TypeOK'
      BY <2>1, ZeroTypes DEF TypeOK
    <2> QED BY <2>1, <2>2 DEF DistinctInv, ScanInv, MeansInv, RoundInv
  <1>12. CASE UNCHANGED vars
    BY <1>12 DEF vars, helpers, scan, TypeOK, DistinctInv, ScanInv, MeansInv, RoundInv, dist
  <1> QED
    BY <1>1, <1>2, <1>3, <1>4, <1>5, <1>6, <1>7, <1>8, <1>9, <1>10, <1>11, <1>12 DEF Fit

LEMMA Inductive == Spec => []IInv
  BY InitIInv, StepIInv, PTL DEF Spec

(* Every variable of the sequential fit keeps its type: no count exceeds   *)
(* the rows and no label is a cluster that does not exist.                 *)
THEOREM TypeCorrect == Spec => []TypeOK
  <1>1. IInv => TypeOK
    BY DEF IInv
  <1> QED BY <1>1, Inductive, PTL

-----------------------------------------------------------------------------
(* Each step of fit is one of KMeans, or none. *)
FitVars == <<FitPhase, FitCentroids, labels, FitTodo, FitIteration, fitted>>

LEMMA SameVars == UNCHANGED FitVars <=> UNCHANGED Fitting!vars
  BY DEF FitVars, Fitting!vars

(* The instance has the operators of Lloyd under names of its own. *)
LEMMA SameSets == Fitting!Rows = Rows /\ Fitting!Clusters = Clusters /\ Fitting!Coords = Coords
  BY DEF Fitting!Rows, Rows, Fitting!Clusters, Clusters, Fitting!Coords, Coords

LEMMA SameL2 == \A p, c : Fitting!L2(p, c) = L2(p, c)
  BY DEF Fitting!L2, L2, Fitting!Coords, Coords, MapThenSumSet, Fitting!MapThenSumSet,
     MapThenFoldSet, Fitting!MapThenFoldSet

LEMMA SameNearest == \A p, j, c : Fitting!IsNearest(p, j, c) <=> IsNearest(p, j, c)
  BY SameL2, SameSets
  DEF Fitting!IsNearest, IsNearest, Fitting!Less, Less, Fitting!FloatMaxDistance,
      FloatMaxDistance

LEMMA SameSampled ==
    /\ \A s : Fitting!SampledCentroids(s) = SampledCentroids(s)
    /\ Fitting!ZeroCentroids = ZeroCentroids
  BY SameSets
  DEF Fitting!SampledCentroids, SampledCentroids, Fitting!PointAsCentroid, PointAsCentroid,
      Fitting!ZeroCentroids, ZeroCentroids, Fitting!ZeroVector, ZeroVector

LEMMA SameMeans == \A l : Fitting!Means(l) = Means(l)
  <1>1. \A l, c : Fitting!Members(l, c) = Members(l, c)
    BY SameSets DEF Fitting!Members, Members
  <1>2. \A l, c : Fitting!ClusterSum(l, c) = ClusterSum(l, c)
    BY DEF Fitting!ClusterSum, ClusterSum, Fitting!Members, Members, Fitting!Coords, Coords,
       Fitting!Rows, Rows, MapThenSumSet, Fitting!MapThenSumSet, MapThenFoldSet,
       Fitting!MapThenFoldSet
  <1>3. \A S : Fitting!Cardinality(S) = Cardinality(S)
    BY DEF Fitting!Cardinality, Cardinality, Fitting!IsFiniteSet, IsFiniteSet
  <1> QED BY <1>1, <1>2, <1>3, SameSets DEF Fitting!Means, Means, Fitting!Mean, Mean

LEMMA SameInjection == \A S, U : Fitting!Injection(S, U) = Injection(S, U)
  BY DEF Fitting!Injection, Injection, Fitting!IsInjective, IsInjective

(* What the scan leaves in closest is the nearest centroid. *)
LEMMA ScanNearest ==
    ASSUME IInv, pc = "scan", i < N, k = K
    PROVE  IsNearest(input_points[i], closest, centroids)
  <1> DEFINE reachable == {c \in Clusters : Less(dist(c), FloatMaxDistance)}
  <1>1. /\ i \in Rows /\ closest \in Clusters /\ distance \in Distance
        /\ centroids \in [Clusters -> Centroid]
    BY Parameters DEF IInv, TypeOK, Rows, Distance
  <1>2. \A c \in Clusters : dist(c) \in Distance /\ c \in 0 .. K - 1 /\ c \in Nat
    BY <1>1, DistType, Parameters DEF dist, Clusters
  <1>3. /\ \A c \in 0 .. K - 1 : ~ Less(dist(c), distance)
        /\ \/ distance = FloatMaxDistance /\ closest = 0
           \/ /\ closest < K /\ distance = dist(closest)
              /\ Less(distance, FloatMaxDistance)
              /\ \A c \in 0 .. closest - 1 : Less(distance, dist(c))
    BY DEF IInv, ScanInv
  <1>4. /\ IF reachable = {} THEN closest = 0
           ELSE /\ closest \in reachable
                /\ \A c \in reachable : ~ Less(dist(c), dist(closest))
                /\ \A c \in reachable : c < closest => Less(dist(closest), dist(c))
    <2>1. CASE distance = FloatMaxDistance /\ closest = 0
      <3>1. reachable = {}
        BY <1>2, <1>3, <2>1
      <3> QED BY <2>1, <3>1
    <2>2. CASE /\ closest < K /\ distance = dist(closest)
               /\ Less(distance, FloatMaxDistance)
               /\ \A c \in 0 .. closest - 1 : Less(distance, dist(c))
      <3>1. closest \in reachable
        BY <1>1, <2>2
      <3>2. \A c \in Clusters : ~ Less(dist(c), dist(closest))
        BY <1>2, <1>3, <2>2
      <3>3. \A c \in Clusters : c < closest => Less(dist(closest), dist(c))
        BY <1>1, <1>2, <2>2
      <3> QED BY <3>1, <3>2, <3>3
    <2> QED BY <1>3, <2>1, <2>2
  <1> QED BY <1>4 DEF IsNearest, dist

LEMMA StepRefines == IInv /\ [Fit \/ Refit]_vars => [Fitting!Next]_(Fitting!vars)
  <1> SUFFICES ASSUME IInv, [Fit \/ Refit]_vars PROVE Fitting!Next \/ UNCHANGED FitVars
    BY SameVars
  <1> USE DEF IInv
  <1>1. CASE SampleRow
    BY <1>1 DEF SampleRow, FitVars, FitPhase, FitCentroids, FitTodo, FitIteration, scan
  <1>2. CASE CopySampled
    <2> DEFINE s == [c \in Clusters |-> indices[c + 1]]
    <2>1. /\ pc = "sample" /\ pc' \in {"scan", "fitted"} /\ Len(indices) = K
          /\ centroids' = SampledCentroids(s) /\ iteration' = 0 /\ i' = 0
          /\ UNCHANGED <<labels, fitted>>
      BY <1>2 DEF CopySampled, BeginRound
    <2>2. s \in Injection(Clusters, Rows)
      <3>1. \A c \in Clusters : c + 1 \in 1 .. Len(indices)
        BY <2>1, Parameters DEF Clusters
      <3>2. s \in [Clusters -> Rows]
        BY <3>1 DEF TypeOK
      <3>3. \A a, b \in Clusters : s[a] = s[b] => a = b
        BY <2>1, <3>1, Parameters DEF DistinctInv, Clusters
      <3> HIDE DEF s
      <3> QED BY <3>2, <3>3 DEF Injection, IsInjective
    <2> HIDE DEF s
    <2>3. FitTodo' = Rows
      BY <2>1 DEF FitTodo, Rows
    <2>4. Fitting!Sample
      BY <2>1, <2>2, <2>3, SameSets, SameSampled, SameInjection
      DEF Fitting!Sample, FitPhase, FitIteration, FitCentroids
    <2> QED BY <2>4 DEF Fitting!Next
  <1>3. CASE ScanCentroid
    BY <1>3 DEF ScanCentroid, FitVars, FitPhase, FitCentroids, FitTodo, FitIteration
  <1>4. CASE StoreLabel
    <2>1. /\ pc = "scan" /\ pc' = "scan" /\ i < N /\ k = K /\ i' = i + 1
          /\ labels' = [labels EXCEPT ![i] = closest]
          /\ UNCHANGED <<centroids, iteration, fitted>>
      BY <1>4 DEF StoreLabel
    <2>2. i \in Rows /\ closest \in Clusters /\ iteration < M
      BY <2>1, Parameters DEF TypeOK, Rows, RoundInv
    <2>3. IsNearest(input_points[i], closest, centroids)
      BY <2>1, ScanNearest
    <2>4. i \in FitTodo /\ FitTodo' = FitTodo \ {i}
      BY <2>1, <2>2, Parameters DEF FitTodo, Rows
    <2>5. Fitting!AssignRow(i)
      BY <2>1, <2>2, <2>3, <2>4, SameNearest, SameSets
      DEF Fitting!AssignRow, FitPhase, FitCentroids, FitIteration
    <2> QED BY <2>2, <2>5, SameSets DEF Fitting!Next
  <1>5. CASE AllLabelled
    <2>1. pc = "scan" /\ pc' = "accumulate" /\ i = N
          /\ UNCHANGED <<centroids, labels, iteration, fitted>>
      BY <1>5 DEF AllLabelled
    <2>2. i .. N - 1 = {}
      BY <2>1, Parameters
    <2> QED BY <2>1, <2>2 DEF FitVars, FitPhase, FitCentroids, FitTodo, FitIteration
  <1>6. CASE Accumulate
    BY <1>6 DEF Accumulate, FitVars, FitPhase, FitCentroids, FitTodo, FitIteration
  <1>7. CASE Accumulated
    <2>1. /\ pc = "accumulate" /\ pc' = "divide"
          /\ UNCHANGED <<centroids, labels, fitted, iteration>> /\ iteration < M
      BY <1>7 DEF Accumulated, RoundInv
    <2>2. Fitting!UpdateCentroids
      BY <2>1, SameMeans, SameSets
      DEF Fitting!UpdateCentroids, FitPhase, FitTodo, FitIteration, FitCentroids
    <2> QED BY <2>2 DEF Fitting!Next
  <1>8. CASE Divide
    BY <1>8 DEF Divide, FitVars, FitPhase, FitCentroids, FitTodo, FitIteration
  <1>9. CASE NextRound
    <2>1. /\ pc = "divide" /\ pc' \in {"scan", "fitted"} /\ iteration' = iteration + 1
          /\ k = K /\ i' = 0 /\ UNCHANGED <<centroids, labels, fitted>>
      BY <1>9 DEF NextRound, BeginRound
    <2>2. centroids = Means(labels)
      <3>1. \A c \in Clusters : centroids[c] = Means(labels)[c]
        BY <2>1, Parameters DEF MeansInv, Clusters
      <3>2. Means(labels) \in [Clusters -> Centroid] /\ centroids \in [Clusters -> Centroid]
        BY MeansType DEF TypeOK
      <3> QED BY <3>1, <3>2
    <2>3. FitTodo' = Rows /\ FitTodo = Rows
      BY <2>1 DEF FitTodo, Rows
    <2> QED BY <2>1, <2>2, <2>3 DEF FitVars, FitPhase, FitCentroids, FitIteration
  <1>10. CASE Finish
    <2>1. Fitting!Finish
      BY <1>10, Zenon
      DEF Finish, RoundInv, Fitting!Finish, FitPhase, FitTodo, FitIteration, FitCentroids
    <2> QED BY <2>1 DEF Fitting!Next
  <1>11. CASE Refit
    <2>1. Fitting!Refit
      BY <1>11, SameSampled, Zenon
      DEF Refit, Fitting!Refit, FitPhase, FitTodo, FitIteration, FitCentroids
    <2> QED BY <2>1 DEF Fitting!Next
  <1>12. CASE UNCHANGED vars
    BY <1>12 DEF vars, FitVars, FitPhase, FitCentroids, FitTodo, FitIteration
  <1> QED
    BY <1>1, <1>2, <1>3, <1>4, <1>5, <1>6, <1>7, <1>8, <1>9, <1>10, <1>11, <1>12 DEF Fit

(* The sequential loops are a fit: each row gets the nearest of the        *)
(* round's centroids, the centroids become the means of all rows, M times. *)
THEOREM Refinement == Spec => Fitting!Spec
  <1>1. Init => Fitting!Init
    <2> SUFFICES ASSUME Init PROVE Fitting!Init
      OBVIOUS
    <2> QED BY SameSets, SameSampled
       DEF Init, Fitting!Init, FitPhase, FitTodo, FitIteration, FitCentroids
  <1>2. IInv /\ [Fit \/ Refit]_vars => [Fitting!Next]_(Fitting!vars)
    BY StepRefines
  <1> QED BY <1>1, <1>2, Inductive, PTL DEF Spec, Fitting!Spec

-----------------------------------------------------------------------------
(* The objective. *)
LEMMA SameObjective == \A l, c : Fitting!Objective(l, c) = Objective(l, c)
  BY DEF Fitting!Objective, Objective, Fitting!L2, L2, Fitting!Coords, Coords, Fitting!Rows,
     Rows, Fitting!Clusters, Clusters, MapThenSumSet, Fitting!MapThenSumSet,
     FoldFunctionOnSet, Fitting!FoldFunctionOnSet, MapThenFoldSet, Fitting!MapThenFoldSet

LEMMA FitSteps ==
    ASSUME Fitting!Next
    PROVE  /\ CentroidStep(labels, FitCentroids, FitCentroids')
           /\ FitPhase = "rounds" => RoundStep(labels, FitCentroids, labels', FitCentroids')
  <1>1. CASE Fitting!Sample
    <2>1. PICK s \in Injection(Clusters, Rows) : FitCentroids' = SampledCentroids(s)
      BY <1>1, SameSets, SameSampled, SameInjection DEF Fitting!Sample
    <2>2. s \in [Clusters -> Rows] /\ FitPhase # "rounds"
      BY <1>1 DEF Injection, Fitting!Sample
    <2> QED BY <2>1, <2>2 DEF CentroidStep
  <1>2. CASE \E r \in Fitting!Rows : Fitting!AssignRow(r)
    BY <1>2, SameSets, SameNearest DEF Fitting!AssignRow, CentroidStep, RoundStep
  <1>3. CASE Fitting!UpdateCentroids
    BY <1>3, SameMeans DEF Fitting!UpdateCentroids, CentroidStep, RoundStep
  <1>4. CASE Fitting!Finish
    BY <1>4 DEF Fitting!Finish, CentroidStep, RoundStep
  <1>5. CASE Fitting!Refit
    BY <1>5, SameSampled DEF Fitting!Refit, CentroidStep
  <1> QED BY <1>1, <1>2, <1>3, <1>4, <1>5 DEF Fitting!Next

LEMMA FitTypes ==
    ASSUME TypeOK
    PROVE  labels \in [Rows -> Clusters] /\ FitCentroids \in [Clusters -> Centroid]
  BY MeansType DEF TypeOK, FitCentroids

(* Every row has a centroid nearer than numeric_limits<T>::max(), from     *)
(* which the scan starts: its label is then that of a nearest one.         *)
AllReachable == FitPhase = "rounds" => Reachable(FitCentroids)

(* Within a call the clustering never gets worse, as long as every row has *)
(* a centroid within range: neither a label nor a mean raises the sum of   *)
(* the squared distances.                                                  *)
THEOREM NeverRisesInReach == Spec /\ []AllReachable => ObjectiveNeverRises
  <1> DEFINE Lowers ==
               FitPhase = "rounds" =>
                 ~ Fitting!Less(Fitting!Objective(labels, FitCentroids),
                                Fitting!Objective(labels', FitCentroids'))
  <1>1. TypeOK /\ AllReachable /\ [Fitting!Next]_(Fitting!vars) => [Lowers]_(Fitting!vars)
    BY FitSteps, FitTypes, RoundStepLowers, SameObjective DEF AllReachable, Fitting!Less, Less
  <1>2. ObjectiveNeverRises <=> [][Lowers]_(Fitting!vars)
    BY DEF ObjectiveNeverRises, Fitting!ObjectiveNeverRises
  <1> HIDE DEF Lowers
  <1> QED BY <1>1, <1>2, TypeCorrect, Refinement, PTL DEF Fitting!Spec

(* For that it is enough that numeric_limits<T> can hold the squared       *)
(* distances of a box the rows are in: no mean leaves the box.             *)
THEOREM NeverRises == ASSUME DataInRange PROVE Spec => ObjectiveNeverRises
  <1>1. PICK b \in Nat : InRange(b)
    BY DEF DataInRange
  <1> DEFINE BoxInv == Boxed(FitCentroids, b)
  <1>2. Fitting!Init => BoxInv
    BY SameSampled, ZeroInBox DEF Fitting!Init, Boxed
  <1>3. BoxInv /\ [Fitting!Next]_(Fitting!vars) => BoxInv'
    BY <1>1, FitSteps, CentroidStepBoxed DEF Fitting!vars
  <1>4. BoxInv /\ TypeOK => AllReachable
    BY <1>1, FitTypes, BoxedReachable DEF AllReachable
  <1> HIDE DEF BoxInv
  <1> QED BY <1>2, <1>3, <1>4, TypeCorrect, Refinement, NeverRisesInReach, PTL DEF Fitting!Spec
=============================================================================
