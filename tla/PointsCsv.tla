----------------------------- MODULE PointsCsv -----------------------------
(***************************************************************************)
(* Points<T>::save_to_csv and Points<T>::load_from_csv.  A file is a       *)
(* sequence of tokens: a printed number or a one-character separator; that *)
(* printing and parsing a number are inverse is fast_io's and fast_float's *)
(* business.  The loader does not know rows: it is told how many values    *)
(* there are by the name of the file, and steps over one character after   *)
(* each.                                                                   *)
(***************************************************************************)
EXTENDS Integers, Sequences

CONSTANTS
    Numbers,        \* what a value may be
    Zero,           \* the value of a new Points that is not assigned to
    Space, NewLine

ASSUME CsvAssumption ==
    Zero \in Numbers /\ {Space, NewLine} \cap Numbers = {}

(* values, in rows of cols: a space between two, a new line after the last. *)
SaveToCsv(values, cols) ==
    [n \in 1 .. 2 * Len(values) |->
        IF n % 2 = 1 THEN values[(n + 1) \div 2]
        ELSE IF (n \div 2) % cols = 0 THEN NewLine ELSE Space]

(* Mutant: the loader stays at the separator. *)
FilePosition_noSeparator(csv_file, i) ==
    LET pos[n \in 0 .. i] ==
          IF n = 0 THEN 1
          ELSE LET p == pos[n - 1]
               IN  IF p <= Len(csv_file) /\ csv_file[p] \in Numbers THEN p + 1 ELSE p
    IN  pos[i]

(* Where file_it is after i values.  What is no number is not consumed by  *)
(* from_chars, and neither is the end of the file.                         *)
FilePosition(csv_file, i) ==
    LET pos[n \in 0 .. i] ==
          IF n = 0 THEN 1
          ELSE LET p == pos[n - 1]
               IN  IF p <= Len(csv_file) /\ csv_file[p] \in Numbers THEN p + 2 ELSE p + 1
    IN  pos[i]

(* from_chars may be called at the end of the file, but not beyond it. *)
StaysInFile(csv_file, rows, cols) ==
    \A i \in 0 .. rows * cols - 1 : FilePosition(csv_file, i) <= Len(csv_file) + 1

LoadFromCsv(csv_file, rows, cols) ==
    [i \in 1 .. rows * cols |->
        LET p == FilePosition(csv_file, i - 1)
        IN  IF p <= Len(csv_file) /\ csv_file[p] \in Numbers THEN csv_file[p] ELSE Zero]

-----------------------------------------------------------------------------
(* Tables of at most this many rows and columns. *)
CONSTANT MaxSide

ASSUME SideAssumption == MaxSide \in Nat

(* A file that has the rows and columns of its name is loaded as it was    *)
(* saved, its rows in order.  With fewer values than the name says the     *)
(* loader runs out of the file, unless only one is missing, which is then  *)
(* silently zero: nothing else notices a name that does not match.         *)
TablesSurvive ==
    \A rows, cols \in 1 .. MaxSide : \A values \in [1 .. rows * cols -> Numbers] :
        LET csv_file == SaveToCsv(values, cols)
        IN  /\ LoadFromCsv(csv_file, rows, cols) = values
            /\ \A r, c \in 1 .. MaxSide :
                  /\ StaysInFile(csv_file, r, c) <=> r * c <= rows * cols + 1
                  /\ StaysInFile(csv_file, r, c) /\ r * c > rows * cols =>
                       LoadFromCsv(csv_file, r, c)[r * c] = Zero
=============================================================================
