------------------------------- MODULE Lloyd -------------------------------
(***************************************************************************)
(* The arithmetic every k-means executable of the repository shares:       *)
(* points, centroids, squared distance, the nearest-centroid choice and    *)
(* the means of the clusters.                                              *)
(*                                                                         *)
(* Coordinates are integers and a centroid is an exact rational vector,    *)
(* kept as a coordinate sum and the count it is divided by: the code       *)
(* computes in float or double, whose rounding is left out, while the one  *)
(* float limit the control flow looks at, numeric_limits<T>::max(), is the *)
(* constant FloatMax.                                                      *)
(***************************************************************************)
EXTENDS Integers, FiniteSetsExt, Functions

CONSTANTS
    N,              \* number of input points
    D,              \* coordinates of a point
    K,              \* number of clusters
    input_points,   \* the rows of the data set
    FloatMax        \* numeric_limits<T>::max()

Rows == 0 .. N - 1
Clusters == 0 .. K - 1
Coords == 0 .. D - 1
Vector == [Coords -> Int]

(* Debug builds assert K > 0 and K <= N at the top of fit. *)
ASSUME LloydAssumption ==
    /\ N \in Nat /\ K \in Nat /\ D \in Nat /\ FloatMax \in Nat
    /\ 0 < K /\ K <= N
    /\ input_points \in [Rows -> Vector]

ZeroVector == [d \in Coords |-> 0]

(* inplace_add *)
VectorSum(u, v) == [d \in Coords |-> u[d] + v[d]]

(* The value sum / count of a centroid. *)
Centroid == [sum : Vector, count : Nat \ {0}]

(* copy_assign of an input point into the centroid matrix. *)
PointAsCentroid(p) == [sum |-> p, count |-> 1]

(* A freshly allocated centroid matrix, Points<T>(K, D). *)
ZeroCentroids == [k \in Clusters |-> PointAsCentroid(ZeroVector)]

(* Mutant: the guard against empty clusters is dropped. *)
Mean_unguarded(sum, n) == [sum |-> sum, count |-> n]

(* count = max(1, num_of_points_in_cluster[k]); the sum divided by it. *)
Mean(sum, n) == [sum |-> sum, count |-> IF n = 0 THEN 1 ELSE n]

-----------------------------------------------------------------------------
(* L2: the squared distance of p to c, as num / den. *)
L2(p, c) ==
    LET scaled(d) == c.count * p[d] - c.sum[d]
    IN  [num |-> MapThenSumSet(LAMBDA d : scaled(d) * scaled(d), Coords),
         den |-> c.count * c.count]

Less(a, b) == a.num * b.den < b.num * a.den

FloatMaxDistance == [num |-> FloatMax, den |-> 1]

(***************************************************************************)
(* What the scan over k in update_rows and predict leaves in               *)
(* index_of_closest_centroid for the point p: the first of the closest     *)
(* centroids, since the comparison is strict, and 0 when no distance is    *)
(* below numeric_limits<T>::max().                                         *)
(***************************************************************************)
IsNearest(p, j, centroids) ==
    LET dist(k) == L2(p, centroids[k])
        reachable == {k \in Clusters : Less(dist(k), FloatMaxDistance)}
    IN  IF reachable = {} THEN j = 0
        ELSE /\ j \in reachable
             /\ \A k \in reachable : ~ Less(dist(k), dist(j))
             /\ \A k \in reachable : k < j => Less(dist(j), dist(k))

-----------------------------------------------------------------------------
Members(labels, k) == {i \in Rows : labels[i] = k}

ClusterSum(labels, k) ==
    [d \in Coords |-> MapThenSumSet(LAMBDA i : input_points[i][d],
                                    Members(labels, k))]

(* The accumulation over all points followed by the division, per cluster. *)
Means(labels) ==
    [k \in Clusters |-> Mean(ClusterSum(labels, k),
                             Cardinality(Members(labels, k)))]

(* A centroid matrix made of K distinct rows of the input. *)
SampledCentroids(indices) ==
    [k \in Clusters |-> PointAsCentroid(input_points[indices[k]])]

-----------------------------------------------------------------------------
(***************************************************************************)
(* The objective k-means descends: the sum of the squared distances of the *)
(* points to the centroids of their labels, over one denominator.          *)
(***************************************************************************)
Objective(labels, centroids) ==
    LET den == FoldFunctionOnSet(LAMBDA x, y : x * y, 1,
                 [k \in Clusters |-> centroids[k].count * centroids[k].count],
                 Clusters)
        share(i) == LET d == L2(input_points[i], centroids[labels[i]])
                    IN  d.num * (den \div d.den)
    IN  [num |-> MapThenSumSet(share, Rows), den |-> den]
=============================================================================
