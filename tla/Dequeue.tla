------------------------------ MODULE Dequeue ------------------------------
(***************************************************************************)
(* dague_dequeue_t (include/dequeue.h): the doubly linked queue of ready   *)
(* tasks of a thread, and of commands of the communication thread, under a *)
(* spin lock. A push spins on the lock, a pop gives up when it is taken.   *)
(* The two ends mirror each other, so an operation is written once: In(e)  *)
(* is the link that leads from the ghost element into the queue at the end *)
(* e, and Back(e) the one that leads back.                                 *)
(***************************************************************************)
EXTENDS ListUsers

CONSTANT Nobody   \* atomic_lock = 0

Nodes == Items \cup {Ghost}
Ends  == {"front", "back"}
In(e)   == IF e = "front" THEN "next" ELSE "prev"
Back(e) == IF e = "front" THEN "prev" ELSE "next"

ASSUME NobodyAssumption == Nobody \notin Threads

VARIABLES
    link,      \* list_next and list_prev of the items and of the ghost
    lock,      \* the thread that has set atomic_lock, or Nobody
    end,       \* the end it works at
    first,     \* items of a push; item of a pop
    last       \* tail of a push

dequeueVars == <<link, lock, outside, pc, end, first, last>>

\* dague_dequeue_construct
DequeueInit ==
    /\ link = [d \in {"next", "prev"} |-> [i \in Nodes |-> i]]
    /\ lock = Nobody
    /\ outside = Items
    /\ pc = [t \in Threads |-> "idle"]
    /\ end = [t \in Threads |-> "front"]
    /\ first = [t \in Threads |-> Ghost]
    /\ last = [t \in Threads |-> Ghost]

\* The compare of the compare-and-swap on the lock.
Free == lock = Nobody

-----------------------------------------------------------------------------
(* dague_dequeue_push_front and dague_dequeue_push_back                    *)

\* The items of a push that end up next to the ghost and next to the rest;
\* the mistake of pushing back a chain by its head.
HeadOutside(t) == first[t]
Outer(t) == IF end[t] = "front" THEN first[t] ELSE last[t]
Inner(t) == IF end[t] = "front" THEN last[t] ELSE first[t]

\* The caller made a ring of one or two items; the outer one is linked to the
\* ghost before the lock is taken.
PushRing(t) ==
    /\ pc[t] = "idle"
    /\ \E a, b \in outside, e \in Ends :
         /\ outside' = outside \ {a, b}
         /\ end' = [end EXCEPT ![t] = e]
         /\ first' = [first EXCEPT ![t] = a]
         /\ last' = [last EXCEPT ![t] = b]
         /\ LET ring == [link EXCEPT !["next"][a] = b, !["next"][b] = a,
                                    !["prev"][a] = b, !["prev"][b] = a]
                outer == IF e = "front" THEN a ELSE b
            IN  link' = [ring EXCEPT ![Back(e)][outer] = Ghost]
    /\ Goto(t, "lock")
    /\ UNCHANGED lock

SpinLock(t) ==
    /\ pc[t] = "lock"
    /\ IF Free
       THEN /\ lock' = t
            /\ Goto(t, "push_inner")
            /\ UNCHANGED <<link, outside, end, first, last>>
       ELSE UNCHANGED dequeueVars

PushInner(t) ==
    /\ pc[t] = "push_inner"
    /\ link' = [link EXCEPT ![In(end[t])][Inner(t)] = link[In(end[t])][Ghost]]
    /\ Goto(t, "push_outer")
    /\ UNCHANGED <<lock, outside, end, first, last>>

PushOuter(t) ==
    /\ pc[t] = "push_outer"
    /\ link' = [link EXCEPT ![Back(end[t])][link[In(end[t])][Inner(t)]] = Inner(t),
                            ![In(end[t])][Ghost] = Outer(t)]
    /\ Goto(t, "push_unlock")
    /\ UNCHANGED <<lock, outside, end, first, last>>

-----------------------------------------------------------------------------
(* dague_dequeue_pop_front and dague_dequeue_pop_back                      *)

\* A try-lock: without the lock the pop returns NULL, as on an empty queue.
TryLock(t) ==
    /\ pc[t] = "idle"
    /\ IF Free
       THEN /\ lock' = t
            /\ \E e \in Ends : end' = [end EXCEPT ![t] = e]
            /\ Goto(t, "pop_read")
            /\ UNCHANGED <<link, outside, first, last>>
       ELSE UNCHANGED dequeueVars

PopRead(t) ==
    /\ pc[t] = "pop_read"
    /\ first' = [first EXCEPT ![t] = link[In(end[t])][Ghost]]
    /\ Goto(t, "pop_unlink")
    /\ UNCHANGED <<link, lock, outside, end, last>>

\* On an empty queue this writes the ghost's own links back.
PopUnlink(t) ==
    /\ pc[t] = "pop_unlink"
    /\ LET inward == link[In(end[t])][first[t]]
       IN  link' = [link EXCEPT ![In(end[t])][Ghost] = inward, ![Back(end[t])][inward] = Ghost]
    /\ Goto(t, "pop_unlock")
    /\ UNCHANGED <<lock, outside, end, first, last>>

-----------------------------------------------------------------------------
\* Whether a pop returns an item, and the lock after an operation; the mistake
\* of returning NULL before the lock is given back.
Found(t) == first[t] # Ghost
KeptWhenEmpty(t) == IF first[t] = Ghost THEN lock ELSE Nobody
GivenBack(t) == Nobody

Unlock(t) ==
    /\ pc[t] \in {"push_unlock", "pop_unlock"}
    /\ lock' = GivenBack(t)
    /\ outside' = IF pc[t] = "pop_unlock" /\ Found(t) THEN outside \cup {first[t]}
                  ELSE outside
    /\ first' = [first EXCEPT ![t] = Ghost]
    /\ last' = [last EXCEPT ![t] = Ghost]
    /\ Goto(t, "idle")
    /\ UNCHANGED <<link, end>>

Step(t) == PushInner(t) \/ PushOuter(t) \/ PopRead(t) \/ PopUnlink(t) \/ Unlock(t)

DequeueNext == \E t \in Threads : PushRing(t) \/ SpinLock(t) \/ TryLock(t) \/ Step(t)

\* A thread in the critical section keeps running, and a spinning thread gets
\* the lock when it is free again and again.
Fairness == \A t \in Threads : WF_dequeueVars(Step(t)) /\ SF_dequeueVars(SpinLock(t))

DequeueSpec == DequeueInit /\ [][DequeueNext]_dequeueVars
FairSpec    == DequeueSpec /\ Fairness

-----------------------------------------------------------------------------
(* Correctness.                                                            *)

\* The items met along a link from each node on, at most n of them.
Along[n \in Nat] == [d \in {"next", "prev"} |->
    [i \in Nodes |-> IF n = 0 \/ i = Ghost THEN <<>> ELSE <<i>> \o Along[n - 1][d][link[d][i]]]]
Walk(d) == Along[Cardinality(Items) + 1][d][link[d][Ghost]]

\* Pushes and pops are atomic operations at the ends of a sequence, chains
\* stay in order and an empty pop takes nothing.
InHand == UNION {{first[t], last[t]} \ {Ghost} :
                   t \in {u \in Threads : pc[u] \in {"lock", "push_inner", "push_outer", "pop_unlock"}}}
AD == INSTANCE AbstractDequeue WITH deque <- Walk("next"), outside <- outside \cup InHand
ImplementsAbstractDequeue == AD!Spec

\* A push gets through, however often others pop in between.
PushReturns == \A t \in Threads : (pc[t] = "lock") ~> (pc[t] = "idle")
=============================================================================
