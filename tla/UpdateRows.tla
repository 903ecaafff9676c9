----------------------------- MODULE UpdateRows -----------------------------
(***************************************************************************)
(* update_rows(start, end) of the parallel executable, scan by scan: the   *)
(* loop over the rows of a block and, inside, the loop over the centroids. *)
(* The sequential fit, the body of the taskflow for_each_index and predict *)
(* run the same scan.                                                      *)
(*                                                                         *)
(* The distances L2 yields are values the comparison orders, here natural  *)
(* numbers; those from FloatMax up stand for sums that overflow.           *)
(***************************************************************************)
EXTENDS Integers

CONSTANTS
    N,              \* rows of the data set
    K,              \* centroids
    L2,             \* L2[r][k]: squared distance of row r to centroid k
    FloatMax,       \* numeric_limits<T>::max()
    First, Last     \* the block: start and end

Rows == 0 .. N - 1
Clusters == 0 .. K - 1
Block == First .. Last - 1

ASSUME UpdateRowsAssumption ==
    /\ N \in Nat /\ K \in Nat \ {0} /\ FloatMax \in Nat
    /\ L2 \in [Rows -> [Clusters -> Nat]]
    /\ First \in 0 .. N /\ Last \in First .. N

VARIABLES
    row,        \* i: the row being scanned
    k,          \* the next centroid to compare
    distance,   \* distance_from_closest_centroid
    closest,    \* index_of_closest_centroid
    labels      \* m_output_closets_centroid_indices

scanVars == <<row, k, distance, closest, labels>>

ScanTypeOK ==
    /\ row \in First .. Last
    /\ k \in 0 .. K
    /\ distance \in Nat
    /\ closest \in Clusters
    /\ labels \in [Rows -> Clusters]

ScanInit ==
    /\ row = First
    /\ k = 0
    /\ distance = FloatMax
    /\ closest = 0
    /\ labels \in [Rows -> Clusters]

Closer ==
    /\ row < Last /\ k < K
    /\ L2[row][k] < distance
    /\ distance' = L2[row][k]
    /\ closest' = k
    /\ k' = k + 1
    /\ UNCHANGED <<row, labels>>

NotCloser ==
    /\ row < Last /\ k < K
    /\ ~ (L2[row][k] < distance)
    /\ k' = k + 1
    /\ UNCHANGED <<row, distance, closest, labels>>

(* Mutant: the distance is carried over to the next row. *)
StoreLabel_keepsDistance ==
    /\ row < Last /\ k = K
    /\ labels' = [labels EXCEPT ![row] = closest]
    /\ row' = row + 1
    /\ k' = 0
    /\ closest' = 0
    /\ UNCHANGED distance

(* Mutant: the label of the following row is written. *)
StoreLabel_nextRow ==
    /\ row < Last /\ k = K
    /\ labels' = [labels EXCEPT ![row + 1] = closest]
    /\ row' = row + 1
    /\ k' = 0
    /\ distance' = FloatMax
    /\ closest' = 0

StoreLabel ==
    /\ row < Last /\ k = K
    /\ labels' = [labels EXCEPT ![row] = closest]
    /\ row' = row + 1
    /\ k' = 0
    /\ distance' = FloatMax
    /\ closest' = 0

ScanNext == Closer \/ NotCloser \/ StoreLabel

ScanSpec == ScanInit /\ [][ScanNext]_scanVars

-----------------------------------------------------------------------------
(* j is the first of the centroids 0 .. n - 1 closest to row r among those *)
(* whose distance is a float, and 0 when there is none.                    *)
NearestOf(r, j, n) ==
    \/ /\ j \in 0 .. n - 1
       /\ L2[r][j] < FloatMax
       /\ \A c \in 0 .. n - 1 : L2[r][j] <= L2[r][c]
       /\ \A c \in 0 .. j - 1 : L2[r][j] < L2[r][c]
    \/ /\ j = 0
       /\ \A c \in 0 .. n - 1 : FloatMax <= L2[r][c]

(* Every row update_rows has passed holds its nearest centroid, the first  *)
(* one on ties, whatever was stored there before the call.                 *)
PassedRowsNearest == \A r \in First .. row - 1 : NearestOf(r, labels[r], K)

(* update_rows writes no label outside its block: the blocks of the other  *)
(* threads, which write at the same time, are not touched.                 *)
BlockOnly == [][\A r \in Rows \ Block : labels'[r] = labels[r]]_scanVars

-----------------------------------------------------------------------------
(* Inside a row, the best so far is the nearest of the centroids seen, and *)
(* distance is its distance.                                               *)
ScanInv ==
    \/ row = Last
    \/ /\ NearestOf(row, closest, k)
       /\ \/ /\ distance = FloatMax /\ closest = 0
             /\ \A c \in 0 .. k - 1 : FloatMax <= L2[row][c]
          \/ /\ distance = L2[row][closest]
             /\ distance < FloatMax /\ closest < k
=============================================================================
