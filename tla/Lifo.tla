-------------------------------- MODULE Lifo --------------------------------
(***************************************************************************)
(* dague_atomic_lifo_t (include/lifo.h): the lock-free stack under the     *)
(* arenas, the free lists and the pool of remote dependencies. One step is *)
(* one access to memory: the head is only written by a compare-and-swap on *)
(* its value alone, so a pop is only right while nobody else can take the  *)
(* element it has read from the stack. Poppers are the threads that pop.   *)
(***************************************************************************)
EXTENDS ListUsers

CONSTANT Poppers   \* the threads that call dague_atomic_lifo_pop

ASSUME PoppersAssumption == Poppers \subseteq Threads

VARIABLES
    head,      \* lifo->lifo_head
    next,      \* list_next of the items and of the ghost
    prev,      \* list_prev of the items
    item,      \* "items" of a push, "item" of a pop
    succ       \* item->list_next as read by a pop

vars == <<head, next, prev, outside, pc, item, succ>>

\* dague_atomic_lifo_construct
Init ==
    /\ head = Ghost
    /\ next = [i \in Items \cup {Ghost} |-> Ghost]
    /\ prev = [i \in Items |-> i]
    /\ outside = Items
    /\ pc = [t \in Threads |-> "idle"]
    /\ item = [t \in Threads |-> Ghost]
    /\ succ = [t \in Threads |-> Ghost]

\* The compare of a compare-and-swap of the head.
HeadUnchecked(value) == TRUE
HeadIs(value) == head = value

-----------------------------------------------------------------------------
(* dague_atomic_lifo_push                                                  *)

\* The caller makes a ring of the items to push (DAGUE_LIST_ITEM_SINGLETON
\* when there is one); the first one's list_prev is the tail.
PushBegin(t) ==
    /\ pc[t] = "idle"
    /\ \E a, b \in outside :
         /\ outside' = outside \ {a, b}
         /\ next' = [next EXCEPT ![a] = b, ![b] = a]
         /\ prev' = [prev EXCEPT ![a] = b, ![b] = a]
         /\ item' = [item EXCEPT ![t] = a]
    /\ Goto(t, "push_link")
    /\ UNCHANGED <<head, succ>>

PushLink(t) ==
    /\ pc[t] = "push_link"
    /\ next' = [next EXCEPT ![prev[item[t]]] = head]
    /\ Goto(t, "push_cas")
    /\ UNCHANGED <<head, prev, outside, item, succ>>

PushCas(t) ==
    /\ pc[t] = "push_cas"
    /\ IF HeadIs(next[prev[item[t]]])
       THEN head' = item[t] /\ item' = [item EXCEPT ![t] = Ghost] /\ Goto(t, "idle")
       ELSE UNCHANGED <<head, item>> /\ Goto(t, "push_link")
    /\ UNCHANGED <<next, prev, outside, succ>>

-----------------------------------------------------------------------------
(* dague_atomic_lifo_pop                                                   *)

\* Reading the ghost means that the LIFO is empty: the pop returns NULL.
PopHead(t) ==
    /\ pc[t] \in {"idle", "pop_head"}
    /\ item' = [item EXCEPT ![t] = head]
    /\ Goto(t, IF head = Ghost THEN "idle" ELSE "pop_next")
    /\ UNCHANGED <<head, next, prev, outside, succ>>

PopNext(t) ==
    /\ pc[t] = "pop_next"
    /\ succ' = [succ EXCEPT ![t] = next[item[t]]]
    /\ Goto(t, "pop_cas")
    /\ UNCHANGED <<head, next, prev, outside, item>>

PopCas(t) ==
    /\ pc[t] = "pop_cas"
    /\ IF HeadIs(item[t])
       THEN /\ head' = succ[t]
            /\ outside' = outside \cup {item[t]}
            /\ item' = [item EXCEPT ![t] = Ghost]
            /\ succ' = [succ EXCEPT ![t] = Ghost]
            /\ Goto(t, "idle")
       ELSE UNCHANGED <<head, outside, item, succ>> /\ Goto(t, "pop_head")
    /\ UNCHANGED <<next, prev>>

-----------------------------------------------------------------------------
Next ==
    \/ \E t \in Threads : PushBegin(t) \/ PushLink(t) \/ PushCas(t)
    \/ \E t \in Poppers : PopHead(t) \/ PopNext(t) \/ PopCas(t)

Spec == Init /\ [][Next]_vars

-----------------------------------------------------------------------------
(* Correctness.                                                            *)

\* The items from each node on, at most n of them.
From[n \in Nat] ==
    [i \in Items \cup {Ghost} |-> IF n = 0 \/ i = Ghost THEN <<>> ELSE <<i>> \o From[n - 1][next[i]]]
Contents == From[Cardinality(Items) + 1][head]

Pushed == UNION {{item[t], prev[item[t]]} : t \in {u \in Threads : pc[u] \in {"push_link", "push_cas"}}}

\* The users' element: tests/unit/atomics/lifo.c fails when "the element
\* appears at least twice", that is when it is popped while it is still
\* linked, pushed or somebody's.
NoneTwice ==
    LET stacked == {Contents[i] : i \in DOMAIN Contents}
    IN  /\ Cardinality(stacked) = Len(Contents)
        /\ stacked \cap outside = {}
        /\ Pushed \cap (outside \cup stacked) = {}

\* Push and pop are atomic operations on a stack.
AL == INSTANCE AbstractLifo WITH stack <- Contents, outside <- outside \cup Pushed
ImplementsAbstractLifo == AL!Spec
=============================================================================
