------------------------------ MODULE Notifier ------------------------------
(***************************************************************************)
(* tf::Notifier, the event count on which the workers of taskflow's        *)
(* executor sleep, and a client that uses it as its comment prescribes:    *)
(* waiters look for items, notifiers add an item and call notify.          *)
(*                                                                         *)
(* _state packs the head of a stack of sleeping waiters, the number of     *)
(* waiters in prewait and an epoch.  The epoch is counted up without end;  *)
(* here every comparison with it is relative: turn[w] is how far the epoch *)
(* is from the one waiter w waits for, and a copy of _state in a local     *)
(* variable is marked as outdated when the epoch moves.  (The code's epoch *)
(* has 32 bits: a waiter that is overtaken by 2^31 others between two of   *)
(* its steps is outside this model.)                                       *)
(*                                                                         *)
(* A compare-and-swap loop that computes the new state from the loaded one *)
(* alone is one step.  The pop of notify also reads the next pointer of    *)
(* the head in between, and is three.                                      *)
(***************************************************************************)
EXTENDS Integers, FiniteSets

CONSTANTS
    Waiters,        \* threads that own a Waiter record, and may also notify
    Producers,      \* other threads that call notify
    None,           \* the null pointer and the empty stack
    MaxItems        \* bound on the items that are ever added

ASSUME NotifierAssumption ==
    /\ None \notin Waiters \cup Producers
    /\ Waiters \cap Producers = {}
    /\ IsFiniteSet(Waiters)
    /\ MaxItems \in Nat

Threads == Waiters \cup Producers

VARIABLES
    stack,          \* _state: the waiter on top of the stack, or None
    prewait,        \* _state: the number of waiters in prewait
    turn,           \* epoch of the waiter less the epoch in _state, -1 if passed
    next,           \* Waiter::next
    signal,         \* Waiter::state
    notified,       \* waiters whose condition variable got a notify_one
    at,             \* where each thread is
    all,            \* the argument of the thread's notify
    copy,           \* its copy of _state: the head, or None when outdated
    link,           \* its local wnext in notify, next in _unpark
    list,           \* the waiter _unpark is at
    items,          \* the predicate: items not taken yet
    left            \* items that may still be added

state == <<stack, prewait, turn>>
waiter == <<next, signal, notified>>
call == <<all, copy, link, list>>
client == <<items, left>>
vars == <<state, waiter, at, call, client>>

Pending == {w \in Waiters : at[w] \in {"recheck", "cancel", "commit"}}
Awaited == {w \in Pending : turn[w] >= 0}

TypeOK ==
    /\ stack \in Waiters \cup {None}
    /\ prewait \in 0 .. Cardinality(Waiters)
    /\ turn \in [Waiters -> -1 .. Cardinality(Waiters)]
    /\ next \in [Waiters -> Waiters \cup {None}]
    /\ signal \in [Waiters -> {"not signaled", "waiting", "signaled"}]
    /\ notified \subseteq Waiters
    /\ at \in [Threads -> {"look", "prepare", "recheck", "cancel", "commit", "park", "asleep",
                           "notify", "pop", "swap", "popped", "unpark", "signal",
                           "wake"}]
    /\ all \in [Threads -> BOOLEAN]
    /\ copy \in [Threads -> Waiters \cup {None}]
    /\ link \in [Threads -> Waiters \cup {None}]
    /\ list \in [Threads -> Waiters \cup {None}]
    /\ items \in 0 .. MaxItems
    /\ left \in 0 .. MaxItems

Init ==
    /\ stack = None
    /\ prewait = 0
    /\ turn = [w \in Waiters |-> -1]
    /\ next = [w \in Waiters |-> None]
    /\ signal = [w \in Waiters |-> "not signaled"]
    /\ notified = {}
    /\ at = [t \in Threads |-> "look"]
    /\ all = [t \in Threads |-> FALSE]
    /\ copy = [t \in Threads |-> None]
    /\ link = [t \in Threads |-> None]
    /\ list = [t \in Threads |-> None]
    /\ items = 0
    /\ left = MaxItems

Goto(t, place) == at' = [at EXCEPT ![t] = place]

(* The epoch grows by n: every copy of _state is outdated. *)
AdvanceEpoch(n) ==
    /\ turn' = [w \in Waiters |-> IF turn[w] < n THEN -1 ELSE turn[w] - n]
    /\ copy' = IF n > 0 THEN [t \in Threads |-> None] ELSE copy

-----------------------------------------------------------------------------
(* The client. *)

TakeItem(w) ==
    /\ at[w] = "look" /\ items > 0
    /\ items' = items - 1
    /\ UNCHANGED <<state, waiter, at, call, left>>

(* A thread makes the predicate true and notifies one or all. *)
AddItem(t) ==
    /\ at[t] = "look" /\ left > 0
    /\ items' = items + 1
    /\ left' = left - 1
    /\ \E b \in BOOLEAN : all' = [all EXCEPT ![t] = b]
    /\ Goto(t, "notify")
    /\ UNCHANGED <<state, waiter, copy, link, list>>

FindNothing(w) ==
    /\ at[w] = "look" /\ items = 0
    /\ Goto(w, "prepare")
    /\ UNCHANGED <<state, waiter, call, client>>

(* fetch_add(kWaiterInc): those in prewait before it come first. *)
PrepareWait(w) ==
    /\ at[w] = "prepare"
    /\ turn' = [turn EXCEPT ![w] = prewait]
    /\ prewait' = prewait + 1
    /\ Goto(w, "recheck")
    /\ UNCHANGED <<stack, waiter, call, client>>

(* Mutant: the waiter does not look again before it commits. *)
Recheck_never(w) ==
    /\ at[w] = "recheck"
    /\ signal' = [signal EXCEPT ![w] = "not signaled"]
    /\ Goto(w, "commit")
    /\ UNCHANGED <<state, next, notified, call, client>>

(* An item turned up: cancel_wait, and look for it again. *)
Reconsider(w) ==
    /\ at[w] = "recheck" /\ items > 0
    /\ Goto(w, "cancel")
    /\ UNCHANGED <<state, waiter, call, client>>

(* Nothing turned up: commit_wait, which first marks the record. *)
Recheck(w) ==
    /\ at[w] = "recheck" /\ items = 0
    /\ signal' = [signal EXCEPT ![w] = "not signaled"]
    /\ Goto(w, "commit")
    /\ UNCHANGED <<state, next, notified, call, client>>

-----------------------------------------------------------------------------
(* cancel_wait and commit_wait: while an earlier waiter has not decided,   *)
(* yield and load again; when the epoch has passed, we have been notified. *)

YieldTurn(w) ==
    at[w] \in {"cancel", "commit"} /\ turn[w] > 0 /\ UNCHANGED vars

AlreadyNotified(w) ==
    /\ at[w] \in {"cancel", "commit"} /\ turn[w] < 0
    /\ Goto(w, "look")
    /\ UNCHANGED <<state, waiter, call, client>>

(* Mutant: it is not checked that the epoch has passed. *)
CancelWait_again(w) ==
    /\ at[w] = "cancel" /\ turn[w] <= 0
    /\ prewait' = prewait - 1
    /\ AdvanceEpoch(1)
    /\ Goto(w, "look")
    /\ UNCHANGED <<stack, waiter, all, link, list, client>>

CancelWait(w) ==
    /\ at[w] = "cancel" /\ turn[w] = 0
    /\ prewait' = prewait - 1
    /\ AdvanceEpoch(1)
    /\ Goto(w, "look")
    /\ UNCHANGED <<stack, waiter, all, link, list, client>>

(* Mutant: the epoch is left alone, so that a stack may look unchanged. *)
CommitWait_sameEpoch(w) ==
    /\ at[w] = "commit" /\ turn[w] = 0
    /\ prewait' = prewait - 1
    /\ turn' = [u \in Waiters |-> IF u = w THEN -1 ELSE turn[u]]
    /\ next' = [next EXCEPT ![w] = stack]
    /\ stack' = w
    /\ Goto(w, "park")
    /\ UNCHANGED <<signal, notified, call, client>>

(* The waiter leaves prewait and goes on top of the stack. *)
CommitWait(w) ==
    /\ at[w] = "commit" /\ turn[w] = 0
    /\ prewait' = prewait - 1
    /\ AdvanceEpoch(1)
    /\ next' = [next EXCEPT ![w] = stack]
    /\ stack' = w
    /\ Goto(w, "park")
    /\ UNCHANGED <<signal, notified, all, link, list, client>>

(* The critical section of _park: leave, or wait on the condition variable. *)
Park(w) ==
    /\ at[w] = "park"
    /\ IF signal[w] = "signaled"
       THEN Goto(w, "look") /\ UNCHANGED signal
       ELSE Goto(w, "asleep") /\ signal' = [signal EXCEPT ![w] = "waiting"]
    /\ UNCHANGED <<state, next, notified, call, client>>

WakeUp(w) ==
    /\ at[w] = "asleep" /\ w \in notified
    /\ notified' = notified \ {w}
    /\ Goto(w, "park")
    /\ UNCHANGED <<state, next, signal, call, client>>

(* A condition variable may wake its waiter for no reason. *)
SpuriousWakeUp(w) ==
    /\ at[w] = "asleep" /\ w \notin notified
    /\ Goto(w, "park")
    /\ UNCHANGED <<state, waiter, call, client>>

-----------------------------------------------------------------------------
(* notify(all).  Its local variables are gone when it returns. *)
Return(t) ==
    /\ Goto(t, "look")
    /\ all' = [all EXCEPT ![t] = FALSE]
    /\ link' = [link EXCEPT ![t] = None]
    /\ list' = [list EXCEPT ![t] = None]

(* The waiters from l on are still to be unparked. *)
Unpark(t, l) ==
    IF l = None THEN Return(t)
    ELSE /\ Goto(t, "unpark")
         /\ list' = [list EXCEPT ![t] = l]
         /\ UNCHANGED <<all, link>>

NotifyNobody(t) ==
    /\ at[t] = "notify" /\ stack = None /\ prewait = 0
    /\ Return(t)
    /\ UNCHANGED <<state, waiter, copy, client>>

(* Mutant: the waiters in prewait are not notified. *)
NotifyAll_sleepersOnly(t) ==
    /\ at[t] = "notify" /\ all[t] /\ (stack # None \/ prewait > 0)
    /\ stack' = None
    /\ Unpark(t, stack)
    /\ UNCHANGED <<prewait, turn, copy, waiter, client>>

(* Resets the prewait counter, empties the stack and unparks all of it. *)
NotifyAll(t) ==
    /\ at[t] = "notify" /\ all[t] /\ (stack # None \/ prewait > 0)
    /\ prewait' = 0
    /\ AdvanceEpoch(prewait)
    /\ stack' = None
    /\ Unpark(t, stack)
    /\ UNCHANGED <<waiter, client>>

(* The waiter whose turn it is returns from its commit or cancel at once. *)
NotifyPrewait(t) ==
    /\ at[t] = "notify" /\ ~ all[t] /\ prewait > 0
    /\ prewait' = prewait - 1
    /\ AdvanceEpoch(1)
    /\ Return(t)
    /\ UNCHANGED <<stack, waiter, client>>

LoadHead(t) ==
    /\ at[t] = "notify" /\ ~ all[t] /\ prewait = 0 /\ stack # None
    /\ copy' = [copy EXCEPT ![t] = stack]
    /\ list' = [list EXCEPT ![t] = stack]
    /\ Goto(t, "pop")
    /\ UNCHANGED <<state, waiter, all, link, client>>

LoadNext(t) ==
    /\ at[t] = "pop"
    /\ link' = [link EXCEPT ![t] = next[list[t]]]
    /\ Goto(t, "swap")
    /\ UNCHANGED <<state, waiter, all, copy, list, client>>

(* The compare-and-swap succeeds when head, prewait count and epoch are    *)
(* those loaded; the pop does not move the epoch.                          *)
PopWaiter(t) ==
    /\ at[t] = "swap"
    /\ IF copy[t] = stack /\ stack # None /\ prewait = 0
       THEN stack' = link[t] /\ Goto(t, "popped")
       ELSE Goto(t, "notify") /\ UNCHANGED stack
    /\ copy' = [copy EXCEPT ![t] = None]
    /\ UNCHANGED <<prewait, turn, waiter, all, link, list, client>>

(* Only one waiter is unparked: it is cut from the rest of the stack. *)
CutPopped(t) ==
    /\ at[t] = "popped"
    /\ next' = [next EXCEPT ![list[t]] = None]
    /\ Goto(t, "unpark")
    /\ UNCHANGED <<state, signal, notified, call, client>>

-----------------------------------------------------------------------------
(* _unpark, for each waiter of the list. *)

UnparkNext(t) ==
    /\ at[t] = "unpark"
    /\ link' = [link EXCEPT ![t] = next[list[t]]]
    /\ Goto(t, "signal")
    /\ UNCHANGED <<state, waiter, all, copy, list, client>>

(* Mutant: the next pointer is read after the waiter is let go. *)
Advance_readsLate(t) == Unpark(t, next[list[t]])

(* The loop goes on to what was read before the waiter was let go. *)
Advance(t) == Unpark(t, link[t])

Signal(t) ==
    /\ at[t] = "signal"
    /\ signal' = [signal EXCEPT ![list[t]] = "signaled"]
    /\ IF signal[list[t]] = "waiting"
       THEN Goto(t, "wake") /\ UNCHANGED <<all, link, list>>
       ELSE Advance(t)
    /\ UNCHANGED <<state, next, notified, copy, client>>

(* notify_one reaches a waiter that is in cv.wait. *)
NotifyOne(t) ==
    /\ at[t] = "wake"
    /\ notified' = IF at[list[t]] = "asleep" THEN notified \cup {list[t]} ELSE notified
    /\ Advance(t)
    /\ UNCHANGED <<state, next, signal, copy, client>>

-----------------------------------------------------------------------------
Wait(w) ==
    \/ TakeItem(w) \/ FindNothing(w) \/ PrepareWait(w) \/ Reconsider(w) \/ Recheck(w)
    \/ YieldTurn(w) \/ AlreadyNotified(w) \/ CancelWait(w) \/ CommitWait(w)
    \/ Park(w) \/ WakeUp(w)

Notify(t) ==
    \/ NotifyNobody(t) \/ NotifyAll(t) \/ NotifyPrewait(t)
    \/ LoadHead(t) \/ LoadNext(t) \/ PopWaiter(t) \/ CutPopped(t)
    \/ UnparkNext(t) \/ Signal(t) \/ NotifyOne(t)

Next ==
    \/ \E w \in Waiters : Wait(w) \/ SpuriousWakeUp(w)
    \/ \E t \in Threads : AddItem(t) \/ Notify(t)

Spec == Init /\ [][Next]_vars

(* Each thread runs on.  Nobody has to add an item, and a condition        *)
(* variable need not wake anybody without a reason.                        *)
Fairness ==
    /\ \A w \in Waiters : WF_vars(Wait(w))
    /\ \A t \in Threads : WF_vars(Notify(t))

FairSpec == Spec /\ Fairness

-----------------------------------------------------------------------------
(* The waiters reached from l by the pointers f: the least set with l that *)
(* no pointer leaves.                                                      *)
Reach(f, l) ==
    {w \in Waiters : \A S \in SUBSET Waiters :
        l \in S \cup {None} /\ (\A v \in S : f[v] \in S \cup {None}) => w \in S}

ChainFrom(l) == Reach(next, l)

Stacked == ChainFrom(stack)

(* The waiters that thread t took off the stack and has still to signal. *)
InHand(t) ==
    CASE at[t] = "popped" -> {list[t]}
      [] at[t] = "unpark" -> ChainFrom(list[t])
      [] at[t] = "signal" -> {list[t]} \cup ChainFrom(link[t])
      [] at[t] = "wake" -> ChainFrom(link[t])
      [] OTHER -> {}

(* The counter in _state is the number of waiters that prepared and still  *)
(* wait for their turn, and they have the turns 0, 1, 2, ...: no two       *)
(* waiters act on one turn, and no turn is left to nobody, for which all   *)
(* the later ones would spin for ever.                                     *)
TurnsExact ==
    /\ prewait = Cardinality(Awaited)
    /\ {turn[w] : w \in Awaited} = 0 .. prewait - 1

(* Whoever sleeps unsignalled is in one place: on the stack, or in the     *)
(* hands of one notifier that will signal it; and nobody else is there.  A *)
(* pop that swung the head to a stale next pointer, or a list walked on    *)
(* from a waiter that already runs, would lose a sleeper, or put a running *)
(* thread on the stack.                                                    *)
Sleepers == {w \in Waiters : at[w] \in {"park", "asleep"} /\ signal[w] # "signaled"}

SleepersAreHeld ==
    /\ Sleepers = Stacked \cup UNION {InHand(t) : t \in Threads}
    /\ \A t \in Threads : InHand(t) \cap Stacked = {}
    /\ \A t, u \in Threads : t # u => InHand(t) \cap InHand(u) = {}

(* The lock-free code does what EventCount says, step by step. *)
Promise == INSTANCE EventCount WITH registered <- Awaited, sleeping <- Stacked
ImplementsEventCount == Promise!Spec

(* No wakeup is lost: an item that was added is taken, whoever sleeps.     *)
(* It fails if a notification between prepare_wait and commit_wait is      *)
(* missed, or if a popped waiter is not woken.                             *)
ItemsAreTaken == items > 0 ~> items = 0
=============================================================================
