----------------------------- MODULE MCExecutor -----------------------------
(* A small instance of the executor. *)
EXTENDS Executor
=============================================================================
