--------------------------- MODULE MCForEachIndex ---------------------------
EXTENDS ForEachIndex

(* None, one, fewer than the tasks, and enough for coarse chunks: with      *)
(* three tasks, 12 indices or more.                                         *)
MCSizes == {0, 1, 2, 13}
=============================================================================
