------------------------------ MODULE TaskPool ------------------------------
(***************************************************************************)
(* What the users of an executor count on: a pool of workers where a task  *)
(* that is queued does not wait while a worker has nothing else to do.  A  *)
(* running task may queue others and may join those it queued: wait until  *)
(* all of them are finished.  A worker whose tasks all wait in a join has  *)
(* nothing else to do, and may start another task on top of them.          *)
(***************************************************************************)
EXTENDS Naturals

CONSTANTS
    Workers,
    MaxTasks        \* bound on the tasks that are ever made

Tasks == 1 .. MaxTasks

VARIABLES
    made,           \* number of tasks made so far: task n is the n-th
    parent,         \* the task that may join a task, 0 for the pool's owner
    queued,         \* tasks waiting for a worker
    running,        \* the tasks each worker has started and not finished
    joining,        \* running tasks that wait in a join
    open            \* whether the pool takes tasks: it has not been destroyed

vars == <<made, parent, queued, running, joining, open>>

Init ==
    /\ made = 0
    /\ parent = [t \in Tasks |-> 0]
    /\ queued = {}
    /\ running = [w \in Workers |-> {}]
    /\ joining = {}
    /\ open = TRUE

Running == UNION {running[w] : w \in Workers}
Children(p) == {t \in queued \cup Running : parent[t] = p}

(* The owner queues a task, or a running task one of its own or a sibling. *)
Submit(p) ==
    /\ open /\ made < MaxTasks
    /\ p = 0 \/ p \in Running
    /\ made' = made + 1
    /\ parent' = [parent EXCEPT ![made + 1] = p]
    /\ queued' = queued \cup {made + 1}
    /\ UNCHANGED <<running, joining, open>>

(* A worker takes a task only when it is in no other that goes on. *)
Start(w) ==
    /\ running[w] \subseteq joining
    /\ \E t \in queued :
          /\ queued' = queued \ {t}
          /\ running' = [running EXCEPT ![w] = @ \cup {t}]
    /\ UNCHANGED <<made, parent, joining, open>>

Join(t) ==
    /\ t \in Running \ joining
    /\ joining' = joining \cup {t}
    /\ UNCHANGED <<made, parent, queued, running, open>>

(* A join returns when the children are finished, and on a worker that has *)
(* finished what it started meanwhile.                                     *)
Return(w, t) ==
    /\ t \in running[w] /\ running[w] \subseteq joining
    /\ Children(t) = {}
    /\ joining' = joining \ {t}
    /\ UNCHANGED <<made, parent, queued, running, open>>

(* No task ends before those it queued. *)
Finish(w, t) ==
    /\ t \in running[w] \ joining
    /\ Children(t) = {}
    /\ running' = [running EXCEPT ![w] = @ \ {t}]
    /\ parent' = [parent EXCEPT ![t] = 0]
    /\ UNCHANGED <<made, queued, joining, open>>

(* Only an idle pool is closed: no task is thrown away. *)
Close ==
    /\ queued = {} /\ Running = {}
    /\ open' = FALSE
    /\ UNCHANGED <<made, parent, queued, running, joining>>

Next ==
    \/ \E p \in 0 .. MaxTasks : Submit(p)
    \/ \E w \in Workers : Start(w) \/ \E t \in Tasks : Return(w, t) \/ Finish(w, t)
    \/ \E t \in Tasks : Join(t)
    \/ Close

Spec == Init /\ [][Next]_vars

(* How long a task runs is not the pool's business. *)
FairSpec == Spec /\ WF_vars(\E w \in Workers : Start(w))
=============================================================================
