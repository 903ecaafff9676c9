----------------------------- MODULE MCNotifier -----------------------------
(* A small instance of the notifier. *)
EXTENDS Notifier
=============================================================================
