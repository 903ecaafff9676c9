---------------------------- MODULE MCTaskQueue ----------------------------
(* A small instance of the work-stealing deque. *)
EXTENDS TaskQueue
=============================================================================
