------------------------------- MODULE Deque -------------------------------
(***************************************************************************)
(* What taskflow's TaskQueue promises: a deque whose owner pushes and pops *)
(* at one end while thieves steal at the other, each in one step, so that  *)
(* every item goes to one thread.                                          *)
(***************************************************************************)
EXTENDS Integers, Sequences

CONSTANTS Items, Owner, Thieves, Nobody

VARIABLES
    deque,      \* the items in the queue, oldest first
    holder      \* who got each item

vars == <<deque, holder>>

Init == deque = <<>> /\ holder = [o \in Items |-> Nobody]

Push(o) == deque' = Append(deque, o) /\ UNCHANGED holder

Give(o, t) == holder' = [holder EXCEPT ![o] = t]

Pop ==
    /\ deque # <<>>
    /\ deque' = SubSeq(deque, 1, Len(deque) - 1)
    /\ Give(deque[Len(deque)], Owner)

Steal(t) ==
    /\ deque # <<>>
    /\ deque' = Tail(deque)
    /\ Give(Head(deque), t)

Next == (\E o \in Items : Push(o)) \/ Pop \/ \E t \in Thieves : Steal(t)

Spec == Init /\ [][Next]_vars
=============================================================================
