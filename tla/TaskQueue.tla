----------------------------- MODULE TaskQueue -----------------------------
(***************************************************************************)
(* tf::TaskQueue, the work-stealing deque of every worker and, behind a    *)
(* mutex, of the executor itself: the owner pushes and pops at _bottom,    *)
(* thieves steal at _top, and a full array is replaced by one twice as     *)
(* large while thieves may still read the old one.                         *)
(*                                                                         *)
(* Each access to _top, _bottom, _array and a slot is a step, but for the  *)
(* owner's loads of what only the owner stores.  Atomics are sequentially  *)
(* consistent: the fences of the code are there to order the owner's store *)
(* of _bottom before its load of _top, and a thief's load of _top before   *)
(* its load of _bottom.                                                    *)
(***************************************************************************)
EXTENDS Integers, Sequences

CONSTANTS
    Owner, Thieves, \* the thread that pushes and pops, those that steal
    Nobody,         \* no thread, and an empty slot
    Capacity,       \* of the first array: 1024 in the code, a power of 2, so
                    \* that i & M is i modulo the capacity
    MaxItems        \* bound on the items that are ever pushed

ASSUME TaskQueueAssumption ==
    /\ Owner \notin Thieves /\ Nobody \notin Thieves \cup {Owner}
    /\ Capacity \in Nat \ {0} /\ MaxItems \in Nat

Items == 1 .. MaxItems

VARIABLES
    top, bottom,    \* _top, _bottom
    arrays,         \* _garbage and, last, _array: the Arrays made so far
    at,             \* where each thread is
    seen,           \* per thread, its local copy of top
    array,          \* per thief, the array it loaded
    item,           \* per thread, its local item
    pushed,         \* items pushed so far
    holder          \* history: who got each item

shared == <<top, bottom, arrays>>
local == <<seen, array, item>>
history == <<pushed, holder>>
vars == <<shared, at, local, history>>

Threads == Thieves \cup {Owner}
Current == Len(arrays)
Size(a) == arrays[a].C

(* Array: its capacity C and its slots S. *)
Array(c) == [C : {c}, S : [0 .. c - 1 -> Items \cup {Nobody}]]

TypeOK ==
    /\ top \in 0 .. MaxItems
    /\ bottom \in -1 .. MaxItems
    /\ \A a \in 1 .. Current :    \* an array that was doubled was full
          Size(a) \in 1 .. Capacity + 2 * MaxItems /\ arrays[a] \in Array(Size(a))
    /\ at \in [Threads -> {"idle", "resize", "store", "publish", "pop", "race",
                           "restore", "bottom", "array", "slot", "swap"}]
    /\ seen \in [Threads -> 0 .. MaxItems]
    /\ array \in [Thieves -> 1 .. Current]
    /\ item \in [Threads -> Items \cup {Nobody}]
    /\ pushed \in 0 .. MaxItems
    /\ holder \in [Items -> Threads \cup {Nobody}]

Init ==
    /\ top = 0
    /\ bottom = 0
    /\ arrays = <<[C |-> Capacity, S |-> [i \in 0 .. Capacity - 1 |-> Nobody]]>>
    /\ at = [t \in Threads |-> "idle"]
    /\ seen = [t \in Threads |-> 0]
    /\ array = [t \in Thieves |-> 1]
    /\ item = [t \in Threads |-> Nobody]
    /\ pushed = 0
    /\ holder = [o \in Items |-> Nobody]

Goto(t, place) == at' = [at EXCEPT ![t] = place]

(* S[i & M] of the array a. *)
Slot(a, i) == arrays[a].S[i % Size(a)]

(* The call of t returns and its locals are gone. *)
Return(t) ==
    /\ Goto(t, "idle")
    /\ seen' = [seen EXCEPT ![t] = 0]
    /\ item' = [item EXCEPT ![t] = Nobody]

Hand(o, t) == holder' = [holder EXCEPT ![o] = t]

-----------------------------------------------------------------------------
(* push *)

(* Mutant: one item more is let into the array. *)
Full_offByOne(t) == Size(Current) < bottom - t

Full(t) == Size(Current) - 1 < bottom - t

Push ==
    /\ at[Owner] = "idle" /\ pushed < MaxItems
    /\ seen' = [seen EXCEPT ![Owner] = top]
    /\ Goto(Owner, IF Full(top) THEN "resize" ELSE "store")
    /\ UNCHANGED <<shared, array, item, history>>

(* resize(b, t): an array of capacity c with the items from t to b - 1. *)
Resized(c, b, t) ==
    [C |-> c,
     S |-> [j \in 0 .. c - 1 |->
               IF \E i \in t .. b - 1 : j = i % c
               THEN Slot(Current, CHOOSE i \in t .. b - 1 : j = i % c)
               ELSE Nobody]]

(* The new array, with the items from the loaded top on, is published. *)
Resize ==
    /\ at[Owner] = "resize"
    /\ arrays' = Append(arrays, Resized(2 * Size(Current), bottom, seen[Owner]))
    /\ Goto(Owner, "store")
    /\ UNCHANGED <<top, bottom, local, history>>

StoreItem ==
    /\ at[Owner] = "store"
    /\ arrays' = [arrays EXCEPT ![Current].S[bottom % Size(Current)] = pushed + 1]
    /\ Goto(Owner, "publish")
    /\ UNCHANGED <<top, bottom, local, history>>

PublishItem ==
    /\ at[Owner] = "publish"
    /\ bottom' = bottom + 1
    /\ pushed' = pushed + 1
    /\ Return(Owner)
    /\ UNCHANGED <<top, arrays, array, holder>>

-----------------------------------------------------------------------------
(* pop *)

Pop ==
    /\ at[Owner] = "idle"
    /\ bottom' = bottom - 1
    /\ Goto(Owner, "pop")
    /\ UNCHANGED <<top, arrays, local, history>>

(* There are more items than the one: no thief can come as far as this. *)
PopTakes ==
    /\ at[Owner] = "pop" /\ top < bottom
    /\ Hand(Slot(Current, bottom), Owner)
    /\ Return(Owner)
    /\ UNCHANGED <<shared, array, pushed>>

PopLast ==
    /\ at[Owner] = "pop" /\ top = bottom
    /\ seen' = [seen EXCEPT ![Owner] = top]
    /\ item' = [item EXCEPT ![Owner] = Slot(Current, bottom)]
    /\ Goto(Owner, "race")
    /\ UNCHANGED <<shared, array, history>>

(* Mutant: _bottom is not restored. *)
PopNothing_noRestore ==
    /\ at[Owner] = "pop" /\ bottom < top
    /\ Return(Owner)
    /\ UNCHANGED <<shared, array, history>>

PopNothing ==
    /\ at[Owner] = "pop" /\ bottom < top
    /\ Goto(Owner, "restore")
    /\ UNCHANGED <<shared, local, history>>

(* The last item goes to whoever moves _top past it. *)
PopRace ==
    /\ at[Owner] = "race"
    /\ IF top = seen[Owner]
       THEN top' = top + 1 /\ Hand(item[Owner], Owner)
       ELSE UNCHANGED <<top, holder>>
    /\ Goto(Owner, "restore")
    /\ UNCHANGED <<bottom, arrays, local, pushed>>

PopRestore ==
    /\ at[Owner] = "restore"
    /\ bottom' = bottom + 1
    /\ Return(Owner)
    /\ UNCHANGED <<top, arrays, array, history>>

-----------------------------------------------------------------------------
(* steal *)

Steal(t) ==
    /\ at[t] = "idle"
    /\ seen' = [seen EXCEPT ![t] = top]
    /\ Goto(t, "bottom")
    /\ UNCHANGED <<shared, array, item, history>>

StealBottom(t) ==
    /\ at[t] = "bottom"
    /\ IF seen[t] < bottom THEN Goto(t, "array") /\ UNCHANGED <<seen, item>>
       ELSE Return(t)
    /\ UNCHANGED <<shared, array, history>>

StealArray(t) ==
    /\ at[t] = "array"
    /\ array' = [array EXCEPT ![t] = Current]
    /\ Goto(t, "slot")
    /\ UNCHANGED <<shared, seen, item, history>>

StealItem(t) ==
    /\ at[t] = "slot"
    /\ item' = [item EXCEPT ![t] = Slot(array[t], seen[t])]
    /\ array' = [array EXCEPT ![t] = 1]
    /\ Goto(t, "swap")
    /\ UNCHANGED <<shared, seen, history>>

(* Mutant: _top is stored without a comparison. *)
StealSwap_always(t) ==
    /\ at[t] = "swap"
    /\ top' = seen[t] + 1 /\ Hand(item[t], t)
    /\ Return(t)
    /\ UNCHANGED <<bottom, arrays, array, pushed>>

(* The item, though loaded before, is the thief's only if _top is still    *)
(* where it was.                                                           *)
StealSwap(t) ==
    /\ at[t] = "swap"
    /\ IF top = seen[t]
       THEN top' = top + 1 /\ Hand(item[t], t)
       ELSE UNCHANGED <<top, holder>>
    /\ Return(t)
    /\ UNCHANGED <<bottom, arrays, array, pushed>>

-----------------------------------------------------------------------------
Own ==
    \/ Push \/ Resize \/ StoreItem \/ PublishItem
    \/ Pop \/ PopTakes \/ PopLast \/ PopNothing \/ PopRace \/ PopRestore

Thief(t) ==
    Steal(t) \/ StealBottom(t) \/ StealArray(t) \/ StealItem(t) \/ StealSwap(t)

Next == Own \/ \E t \in Thieves : Thief(t)

Spec == Init /\ [][Next]_vars

-----------------------------------------------------------------------------
(* The items in the queue.  While the owner pops, _bottom is one too low   *)
(* until it has decided who gets the item there.                           *)
End == IF at[Owner] \in {"pop", "race", "restore"} THEN bottom + 1 ELSE bottom

Content == [n \in 1 .. End - top |-> Slot(Current, top + n - 1)]

(* The lock-free deque does what Deque says: whatever the interleaving of  *)
(* push, pop and steals, over a replaced array too, each item is handed    *)
(* out once, to the owner from one end and to thieves from the other.      *)
Promise == INSTANCE Deque WITH deque <- Content
ImplementsDeque == Promise!Spec

(* Every item pushed is still in the queue or was handed to somebody: a    *)
(* race for the last item, or an array replaced under a thief, loses none. *)
NothingLost ==
    \A o \in 1 .. pushed :
        (holder[o] = Nobody) <=> \E n \in DOMAIN Content : Content[n] = o

=============================================================================
