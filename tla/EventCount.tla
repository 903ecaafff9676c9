----------------------------- MODULE EventCount -----------------------------
(***************************************************************************)
(* What taskflow's Notifier promises its callers.  A thread that finds its *)
(* predicate false registers with prepare_wait, looks again, and then      *)
(* cancels or commits; a thread that made a predicate true calls notify.   *)
(* A notification goes to a registered thread first, and to a sleeping one *)
(* when none is registered; a registered thread that got one does not      *)
(* sleep when it commits.                                                  *)
(***************************************************************************)
CONSTANT Waiters

VARIABLES
    registered,     \* prepared, neither cancelled nor committed nor notified
    sleeping        \* committed and not notified

vars == <<registered, sleeping>>

Init == registered = {} /\ sleeping = {}

PrepareWait(w) ==
    /\ w \notin registered \cup sleeping
    /\ registered' = registered \cup {w}
    /\ UNCHANGED sleeping

CancelWait(w) ==
    /\ w \in registered
    /\ registered' = registered \ {w}
    /\ UNCHANGED sleeping

CommitWait(w) ==
    /\ w \in registered
    /\ registered' = registered \ {w}
    /\ sleeping' = sleeping \cup {w}

NotifyOne(w) ==
    \/ CancelWait(w)
    \/ /\ registered = {}
       /\ w \in sleeping
       /\ sleeping' = sleeping \ {w}
       /\ UNCHANGED registered

NotifyAll == registered' = {} /\ sleeping' = {}

Next ==
    \/ \E w \in Waiters : PrepareWait(w) \/ CancelWait(w) \/ CommitWait(w) \/ NotifyOne(w)
    \/ NotifyAll

Spec == Init /\ [][Next]_vars
=============================================================================
