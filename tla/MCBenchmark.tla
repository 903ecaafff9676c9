---------------------------- MODULE MCBenchmark ----------------------------
(* Two data files and small tables. *)
EXTENDS Benchmark

(* With five clusters the first file has too few points. *)
Points == <<3, 9>>
=============================================================================
