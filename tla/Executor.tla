------------------------------ MODULE Executor ------------------------------
(***************************************************************************)
(* The workers of tf::Executor: who looks for work, who goes to sleep, who *)
(* wakes whom, how a task waits for the tasks of its subflow, and how the  *)
(* destructor gets everybody home.                                         *)
(*                                                                         *)
(* A worker with a task is active, one that looks for a task is a thief.   *)
(* A worker's pushes wake nobody; instead the thief that finds a task as   *)
(* the last one wakes its successor, and the last thief does not sleep     *)
(* while somebody is active.  A worker whose task joins a subflow, as that *)
(* of for_each_index does, stays active and is no thief, but pops and      *)
(* steals tasks until the subflow is finished, and runs each on top of the *)
(* task that waits; these may join in turn.  Every access to a counter, to *)
(* a queue, to _done and to the notifier is a step.                        *)
(*                                                                         *)
(* The order in which a queue hands out its tasks does not matter here, so *)
(* a queue is a set; that each is handed out once is TaskQueue's promise.  *)
(* The notifier is EventCount.  The victim of a steal is drawn at random   *)
(* and exploring ends after a number of misses: here a worker may find any *)
(* queue, and a thief may give up at any time.                             *)
(***************************************************************************)
EXTENDS Naturals, FiniteSets, Sequences

CONSTANTS
    NumWorkers,     \* N of the constructor
    MaxTasks        \* bound on the tasks that are ever made

ASSUME ExecutorAssumption == NumWorkers \in Nat \ {0} /\ MaxTasks \in Nat

Workers == 1 .. NumWorkers
Tasks == 1 .. MaxTasks

VARIABLES
    wsq,            \* tasks in the executor's own _wsq
    worker_wsq,     \* tasks in each worker's _wsq
    num_actives, num_thieves, done, \* _num_actives, _num_thieves, _done
    registered, sleeping,           \* the notifier, see EventCount
    at,             \* where each worker is
    stack,          \* the tasks it is in, the innermost first
    index,          \* the worker whose queue it checks next
    caller,         \* where the thread that owns the executor is
    sources,        \* tasks it has still to push
    wakeups,        \* notifications it has still to send
    made,           \* number of tasks made so far: task n is the n-th
    parent,         \* _parent of an unfinished task, 0 without one
    join_counter,   \* _join_counter of each task, at 0 the topology's
    num_topologies  \* _num_topologies

queues == <<wsq, worker_wsq>>
counters == <<num_actives, num_thieves>>
notifier == <<registered, sleeping>>
call == <<caller, sources, wakeups>>
topology == <<made, parent, join_counter, num_topologies>>
vars == <<queues, counters, done, notifier, at, stack, index, call, topology>>

Notifier == INSTANCE EventCount WITH Waiters <- Workers

TypeOK ==
    /\ wsq \subseteq Tasks
    /\ worker_wsq \in [Workers -> SUBSET Tasks]
    /\ num_actives \in 0 .. NumWorkers
    /\ num_thieves \in 0 .. NumWorkers
    /\ done \in BOOLEAN
    /\ registered \subseteq Workers
    /\ sleeping \subseteq Workers \ registered
    /\ at \in [Workers ->
          {"wait", "explore", "found", "wake_thief", "exploit", "no_thieves",
           "wake_one", "invoke", "fork", "join", "join_pop", "join_steal",
           "release", "pop", "inactive", "check_wsq", "cancel_steal",
           "steal", "check_done", "leave", "check_actives", "check_queues",
           "cancel_retry", "commit", "asleep", "wake_all", "exit", "gone"}]
    /\ stack \in [Workers -> Seq(Tasks)]
    /\ index \in [Workers -> 1 .. NumWorkers + 1]
    /\ caller \in {"ready", "push", "notify", "wait", "stop", "join", "destroyed"}
    /\ sources \in 0 .. MaxTasks
    /\ wakeups \in 0 .. MaxTasks
    /\ made \in 0 .. MaxTasks
    /\ parent \in [Tasks -> 0 .. MaxTasks]
    /\ join_counter \in [0 .. MaxTasks -> 0 .. MaxTasks]
    /\ num_topologies \in 0 .. 1

Init ==
    /\ wsq = {}
    /\ worker_wsq = [w \in Workers |-> {}]
    /\ num_actives = 0
    /\ num_thieves = 0
    /\ done = FALSE
    /\ Notifier!Init
    /\ at = [w \in Workers |-> "wait"]
    /\ stack = [w \in Workers |-> <<>>]
    /\ index = [w \in Workers |-> 1]
    /\ caller = "ready"
    /\ sources = 0
    /\ wakeups = 0
    /\ made = 0
    /\ parent = [t \in Tasks |-> 0]
    /\ join_counter = [p \in 0 .. MaxTasks |-> 0]
    /\ num_topologies = 0

Move(w, from, to) == at[w] = from /\ at' = [at EXCEPT ![w] = to]

(* notify(false) *)
NotifyOne ==
    \/ registered \cup sleeping = {} /\ UNCHANGED notifier
    \/ \E w \in Workers : Notifier!NotifyOne(w)

(* cancel_wait, which does nothing for a waiter that was notified. *)
Cancel(w) ==
    IF w \in registered THEN Notifier!CancelWait(w) ELSE UNCHANGED notifier

-----------------------------------------------------------------------------
(* _exploit_task *)

(* The worker becomes active; the first one makes sure there is a thief. *)
BecomeActive(w) ==
    /\ Move(w, "exploit", IF num_actives = 0 THEN "no_thieves" ELSE "invoke")
    /\ num_actives' = num_actives + 1
    /\ UNCHANGED <<queues, num_thieves, done, notifier, stack, index, call, topology>>

(* Mutant: the first active worker wakes nobody. *)
NoThieves_ignored(w) ==
    /\ Move(w, "no_thieves", "invoke")
    /\ UNCHANGED <<queues, counters, done, notifier, stack, index, call, topology>>

NoThieves(w) ==
    /\ Move(w, "no_thieves", IF num_thieves = 0 THEN "wake_one" ELSE "invoke")
    /\ UNCHANGED <<queues, counters, done, notifier, stack, index, call, topology>>

WakeOne(w) ==
    /\ Move(w, "wake_one", "invoke")
    /\ NotifyOne
    /\ UNCHANGED <<queues, counters, done, stack, index, call, topology>>

(* The worker makes task t the innermost one. *)
Take(w, t, from, to) ==
    /\ Move(w, from, to)
    /\ stack' = [stack EXCEPT ![w] = <<t>> \o @]

(* The worker takes a task off its own queue, if there is one. *)
PopOwn(w, from, otherwise) ==
    /\ \/ /\ worker_wsq[w] = {}
          /\ Move(w, from, otherwise)
          /\ UNCHANGED <<worker_wsq, stack>>
       \/ \E t \in worker_wsq[w] :
             /\ Take(w, t, from, "invoke")
             /\ worker_wsq' = [worker_wsq EXCEPT ![w] = @ \ {t}]
    /\ UNCHANGED <<wsq, counters, done, notifier, index, call, topology>>

Pop(w) == PopOwn(w, "pop", "inactive")

BecomeInactive(w) ==
    /\ Move(w, "inactive", "wait")
    /\ num_actives' = num_actives - 1
    /\ UNCHANGED <<queues, num_thieves, done, notifier, stack, index, call, topology>>

Exploit(w) ==
    BecomeActive(w) \/ NoThieves(w) \/ WakeOne(w) \/ Pop(w)
    \/ BecomeInactive(w)

-----------------------------------------------------------------------------
(* _explore_task, and _wait_for_task when it found something. *)

BecomeThief(w) ==
    /\ Move(w, "wait", "explore")
    /\ num_thieves' = num_thieves + 1
    /\ UNCHANGED <<queues, num_actives, done, notifier, stack, index, call, topology>>

(* Task t comes off the executor's queue, or off that of another worker.   *)
StealShared(t) ==
    /\ t \in wsq
    /\ wsq' = wsq \ {t}
    /\ UNCHANGED worker_wsq

StealFrom(v, t) ==
    /\ t \in worker_wsq[v]
    /\ worker_wsq' = [worker_wsq EXCEPT ![v] = @ \ {t}]
    /\ UNCHANGED wsq

StealAny(w, t) == StealShared(t) \/ \E v \in Workers \ {w} : StealFrom(v, t)

Steal(w) ==
    /\ \E t \in Tasks :
          \/ StealAny(w, t) /\ Take(w, t, "explore", "found")
          \/ StealShared(t) /\ Take(w, t, "steal", "found")
    /\ UNCHANGED <<counters, done, notifier, index, call, topology>>

(* Mutant: the thief that found a task stays counted as a thief. *)
StopStealing_stillCounted(w) ==
    /\ Move(w, "found", "exploit")
    /\ UNCHANGED <<queues, counters, done, notifier, stack, index, call, topology>>

StopStealing(w) ==
    /\ Move(w, "found", IF num_thieves = 1 THEN "wake_thief" ELSE "exploit")
    /\ num_thieves' = num_thieves - 1
    /\ UNCHANGED <<queues, num_actives, done, notifier, stack, index, call, topology>>

WakeThief(w) ==
    /\ Move(w, "wake_thief", "exploit")
    /\ NotifyOne
    /\ UNCHANGED <<queues, counters, done, stack, index, call, topology>>

-----------------------------------------------------------------------------
(* _wait_for_task when nothing was found. *)

(* Exploring ended with nothing. *)
PrepareWait(w) ==
    /\ Move(w, "explore", "check_wsq")
    /\ Notifier!PrepareWait(w)
    /\ UNCHANGED <<queues, counters, done, stack, index, call, topology>>

(* Mutant: the executor's queue is not looked at again. *)
CheckQueue_skipped(w) ==
    /\ Move(w, "check_wsq", "check_done")
    /\ UNCHANGED <<queues, counters, done, notifier, stack, index, call, topology>>

CheckQueue(w) ==
    /\ Move(w, "check_wsq", IF wsq # {} THEN "cancel_steal" ELSE "check_done")
    /\ UNCHANGED <<queues, counters, done, notifier, stack, index, call, topology>>

CancelAndSteal(w) ==
    /\ Move(w, "cancel_steal", "steal")
    /\ Cancel(w)
    /\ UNCHANGED <<queues, counters, done, stack, index, call, topology>>

(* Another thief was faster. *)
MissShared(w) ==
    /\ Move(w, "steal", "explore")
    /\ UNCHANGED <<queues, counters, done, notifier, stack, index, call, topology>>

CheckDone(w) ==
    /\ Move(w, "check_done", IF done THEN "wake_all" ELSE "leave")
    /\ UNCHANGED <<queues, counters, done, notifier, stack, index, call, topology>>

LeaveThieves(w) ==
    /\ Move(w, "leave", IF num_thieves = 1 THEN "check_actives" ELSE "commit")
    /\ num_thieves' = num_thieves - 1
    /\ UNCHANGED <<queues, num_actives, done, notifier, stack, index, call, topology>>

(* Mutant: the last thief does not ask whether somebody is active. *)
CheckActives_skipped(w) ==
    /\ Move(w, "check_actives", "check_queues")
    /\ UNCHANGED <<queues, counters, done, notifier, stack, index, call, topology>>

CheckActives(w) ==
    /\ Move(w, "check_actives", IF num_actives > 0 THEN "cancel_retry" ELSE "check_queues")
    /\ UNCHANGED <<queues, counters, done, notifier, stack, index, call, topology>>

CheckWorkerQueue(w) ==
    /\ at[w] = "check_queues"
    /\ LET i == index[w]
           found == i <= NumWorkers /\ worker_wsq[i] # {}
       IN  IF i <= NumWorkers /\ ~ found
           THEN index' = [index EXCEPT ![w] = i + 1] /\ UNCHANGED at
           ELSE /\ index' = [index EXCEPT ![w] = 1]
                /\ at' = [at EXCEPT ![w] = IF found THEN "cancel_retry" ELSE "commit"]
    /\ UNCHANGED <<queues, counters, done, notifier, stack, call, topology>>

CancelAndRetry(w) ==
    /\ Move(w, "cancel_retry", "wait")
    /\ Cancel(w)
    /\ UNCHANGED <<queues, counters, done, stack, index, call, topology>>

(* commit_wait returns at once when the worker was notified meanwhile. *)
CommitWait(w) ==
    /\ \/ w \in registered /\ Notifier!CommitWait(w) /\ Move(w, "commit", "asleep")
       \/ w \notin registered /\ UNCHANGED notifier /\ Move(w, "commit", "wait")
    /\ UNCHANGED <<queues, counters, done, stack, index, call, topology>>

WakeUp(w) ==
    /\ w \notin sleeping
    /\ Move(w, "asleep", "wait")
    /\ UNCHANGED <<queues, counters, done, notifier, stack, index, call, topology>>

(* A worker that sees _done cancels and wakes the others once more: one    *)
(* step, since notify(true) reaches what the cancellation left.            *)
WakeAll(w) ==
    /\ Move(w, "wake_all", "exit")
    /\ Notifier!NotifyAll
    /\ UNCHANGED <<queues, counters, done, stack, index, call, topology>>

Exit(w) ==
    /\ Move(w, "exit", "gone")
    /\ num_thieves' = num_thieves - 1
    /\ UNCHANGED <<queues, num_actives, done, notifier, stack, index, call, topology>>

Wait(w) ==
    \/ BecomeThief(w) \/ Steal(w) \/ StopStealing(w) \/ WakeThief(w)
    \/ PrepareWait(w) \/ CheckQueue(w) \/ CancelAndSteal(w) \/ MissShared(w)
    \/ CheckDone(w) \/ LeaveThieves(w) \/ CheckActives(w) \/ CheckWorkerQueue(w)
    \/ CancelAndRetry(w) \/ CommitWait(w) \/ WakeUp(w)
    \/ WakeAll(w) \/ Exit(w)

-----------------------------------------------------------------------------
(* _invoke of a task, and _invoke_dynamic_task_internal of one that joins. *)

(* A worker pushes a new task to its own queue, and notifies nobody. *)
Push(w, p) ==
    /\ made + sources < MaxTasks
    /\ made' = made + 1
    /\ parent' = [parent EXCEPT ![made + 1] = p]
    /\ join_counter' = [join_counter EXCEPT ![p] = @ + 1]
    /\ worker_wsq' = [worker_wsq EXCEPT ![w] = @ \cup {made + 1}]
    /\ UNCHANGED <<wsq, counters, done, notifier, stack, index, call, num_topologies>>

(* silent_async of the task's subflow; its counter, which is raised before *)
(* the push, is looked at by nobody else and by the task only in the join. *)
Fork(w) ==
    /\ Move(w, "invoke", "fork") \/ Move(w, "fork", "fork")
    /\ Push(w, Head(stack[w]))

Join(w) ==
    /\ Move(w, "fork", "join")
    /\ UNCHANGED <<queues, counters, done, notifier, stack, index, call, topology>>

CheckJoin(w) ==
    /\ Move(w, "join", IF join_counter[Head(stack[w])] = 0 THEN "release" ELSE "join_pop")
    /\ UNCHANGED <<queues, counters, done, notifier, stack, index, call, topology>>

JoinPop(w) == PopOwn(w, "join_pop", "join_steal")

JoinSteal(w) ==
    /\ \E t \in Tasks : StealAny(w, t) /\ Take(w, t, "join_steal", "invoke")
    /\ UNCHANGED <<counters, done, notifier, index, call, topology>>

(* Mutant: after a failed steal the counter is not looked at again. *)
JoinMiss_ignored(w) ==
    /\ Move(w, "join_steal", "join_steal")
    /\ UNCHANGED <<queues, counters, done, notifier, stack, index, call, topology>>

(* A steal failed and no child is left; with children left it is repeated. *)
JoinMiss(w) ==
    /\ Move(w, "join_steal", "release")
    /\ join_counter[Head(stack[w])] = 0
    /\ UNCHANGED <<queues, counters, done, notifier, stack, index, call, topology>>

(* The task has done its work and releases a successor. *)
Release(w) ==
    /\ Move(w, "invoke", "release") \/ Move(w, "release", "release")
    /\ Push(w, parent[Head(stack[w])])

(* The task ends, and the worker goes on with the task below it, which     *)
(* joins, or without one with its queue.  The last task of the topology    *)
(* tears it down; no other task is left that could run between the two.    *)
Finish(w) ==
    LET t == Head(stack[w])
        p == parent[t]
        next == IF Len(stack[w]) = 1 THEN "pop" ELSE "join"
    IN  /\ Move(w, "invoke", next) \/ Move(w, "release", next)
        /\ stack' = [stack EXCEPT ![w] = Tail(@)]
        /\ parent' = [parent EXCEPT ![t] = 0]
        /\ join_counter' = [join_counter EXCEPT ![p] = @ - 1]
        /\ num_topologies' = num_topologies - (IF p = 0 /\ join_counter[0] = 1 THEN 1 ELSE 0)
        /\ UNCHANGED <<queues, counters, done, notifier, index, call, made>>

(* The steps of a joining worker that are the executor's and not a task's. *)
Joining(w) == CheckJoin(w) \/ JoinPop(w) \/ JoinSteal(w) \/ JoinMiss(w)

-----------------------------------------------------------------------------
(* The thread that owns the executor. *)

(* run: the topology is counted and set up with n sources. *)
Run(n) ==
    /\ caller = "ready"
    /\ caller' = "push"
    /\ num_topologies' = num_topologies + 1
    /\ join_counter' = [join_counter EXCEPT ![0] = n]
    /\ sources' = n
    /\ wakeups' = n
    /\ UNCHANGED <<queues, counters, done, notifier, at, stack, index, made, parent>>

PushSource ==
    /\ caller = "push" /\ sources > 0
    /\ made' = made + 1
    /\ wsq' = wsq \cup {made + 1}
    /\ sources' = sources - 1
    /\ caller' = IF sources = 1 THEN "notify" ELSE "push"
    /\ UNCHANGED <<worker_wsq, counters, done, notifier, at, stack, index, wakeups,
                  parent, join_counter, num_topologies>>

(* notify_n: everybody, or as many as there are tasks, one by one. *)
NotifyN ==
    /\ caller = "notify"
    /\ IF wakeups >= NumWorkers THEN Notifier!NotifyAll /\ wakeups' = 0
       ELSE NotifyOne /\ wakeups' = wakeups - 1
    /\ caller' = IF wakeups' = 0 THEN "wait" ELSE "notify"
    /\ UNCHANGED <<queues, counters, done, at, stack, index, sources, topology>>

WaitForAll ==
    /\ caller = "wait" /\ num_topologies = 0
    /\ caller' = "ready"
    /\ UNCHANGED <<queues, counters, done, notifier, at, stack, index, sources, wakeups, topology>>

(* The destructor, its wait_for_all done. *)
SetDone ==
    /\ caller = "ready"
    /\ caller' = "stop"
    /\ done' = TRUE
    /\ UNCHANGED <<queues, counters, notifier, at, stack, index, sources, wakeups, topology>>

StopAll ==
    /\ caller = "stop"
    /\ caller' = "join"
    /\ Notifier!NotifyAll
    /\ UNCHANGED <<queues, counters, done, at, stack, index, sources, wakeups, topology>>

JoinWorkers ==
    /\ caller = "join"
    /\ \A w \in Workers : at[w] = "gone"
    /\ caller' = "destroyed"
    /\ UNCHANGED <<queues, counters, done, notifier, at, stack, index, sources, wakeups, topology>>

Call == PushSource \/ NotifyN \/ WaitForAll \/ StopAll \/ JoinWorkers

-----------------------------------------------------------------------------
(* What a running task does. *)
Work(w) == Fork(w) \/ Join(w) \/ Release(w) \/ Finish(w)

Next ==
    \/ \E w \in Workers : Exploit(w) \/ Wait(w) \/ Joining(w) \/ Work(w)
    \/ Call \/ SetDone \/ \E n \in 1 .. MaxTasks - made : Run(n)

Spec == Init /\ [][Next]_vars

(* Every thread runs on, but a task may take as long as it likes.  When    *)
(* thieves explore again and again while there are tasks, one of them      *)
(* finds one: victims are drawn at random, and a steal fails only when     *)
(* another one succeeds.  A worker that joins does not give up stealing.   *)
Fairness ==
    /\ \A w \in Workers : WF_vars(Exploit(w) \/ Wait(w) \/ Joining(w))
    /\ SF_vars(\E w \in Workers : Steal(w))
    /\ WF_vars(Call)

FairSpec == Spec /\ Fairness

-----------------------------------------------------------------------------
JoinPlaces == {"join", "join_pop", "join_steal"}
Busy == {w \in Workers :
            at[w] \in JoinPlaces \cup {"invoke", "fork", "release", "pop", "inactive"}}
Asleep == {w \in sleeping : at[w] = "asleep"}

Queued == wsq \cup UNION {worker_wsq[w] : w \in Workers}

(* The tasks a worker is in; those below the innermost wait in a join. *)
Inside(w) == {stack[w][i] : i \in DOMAIN stack[w]}
Waits(w) == {t \in Inside(w) : at[w] \in JoinPlaces \/ t # Head(stack[w])}

(* Nobody sleeps away a task: when all workers that are left sleep, there  *)
(* is nothing to do, or the caller has still to notify them.  A push that  *)
(* a worker on its way to sleep neither sees nor is notified of, or a      *)
(* shutdown it misses, would break this.                                   *)
SleepOnlyWhenIdle ==
    (\A w \in Workers : w \in Asleep \/ at[w] = "gone") =>
        /\ Queued = {} \/ caller \in {"push", "notify"}
        /\ done => Asleep = {} \/ caller = "stop"

(* Workers' pushes wake nobody, so somebody has to be awake to steal: it   *)
(* never happens that some workers run tasks and all the others sleep.     *)
ActiveIsWatched ==
    Workers = Busy \cup Asleep => Busy = {} \/ Asleep = {}

(* What the tasks of fit count on: each task is started once, by a worker  *)
(* that is in no task or only in tasks that wait in a join; a join returns *)
(* and a task ends only when all tasks of its subflow are finished; a task *)
(* in any queue is started as long as there is such a worker, even if no   *)
(* running task ever ends; and no task is left when the executor is        *)
(* destroyed.                                                              *)
Pool == INSTANCE TaskPool WITH
    queued <- Queued,
    running <- [w \in Workers |-> Inside(w)],
    joining <- UNION {Waits(w) : w \in Workers},
    open <- ~ done
ImplementsTaskPool == Pool!FairSpec

(* If running tasks end, every call of the owner returns: wait_for_all     *)
(* does, however tasks that join are stacked on each other, and so does    *)
(* the destructor, which gets every worker out of its loop, whether it is  *)
(* looking for work, about to sleep or asleep.                             *)
TasksEnd == \A w \in Workers : WF_vars(Join(w) \/ Finish(w))
CallsReturn == TasksEnd => (caller # "ready" ~> caller \in {"ready", "destroyed"})
=============================================================================
