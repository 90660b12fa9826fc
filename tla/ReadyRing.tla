----------------------------- MODULE ReadyRing -----------------------------
(***************************************************************************)
(* The lists of ready tasks the releasers build: tasks inserted one by one *)
(* in any order, several of the same priority, then given to the scheduler *)
(* as a whole. A releaser is a thread that completes tasks, or receives    *)
(* the completion of remote ones; the list is in its own frame.            *)
(***************************************************************************)
EXTENDS ReadyList, Integers

CONSTANTS
    Tasks,
    Priority,     \* [Tasks -> Int]: exec_context->priority
    Releasers

ASSUME PriorityAssumption == Priority \in [Tasks -> Int]

VARIABLE ring     \* arg.ready_list of each releaser

RingInit == ring = [w \in Releasers |-> <<>>]

\* A release completes a task once: no task is inserted twice.
Insert(w, t) ==
    /\ \A i \in DOMAIN ring[w] : ring[w][i] # t
    /\ ring' = [ring EXCEPT ![w] = AddByPriority(ring[w], t, Priority)]

\* The list is given to __dague_schedule.
Scheduled(w) == ring[w] # <<>> /\ ring' = [ring EXCEPT ![w] = <<>>]

RingNext ==
    \E w \in Releasers : (\E t \in Tasks : Insert(w, t)) \/ Scheduled(w)

RingSpec == RingInit /\ [][RingNext]_ring

-----------------------------------------------------------------------------
(* Correctness.                                                            *)

\* The head of each list, which __dague_schedule gives to the placeholder
\* first, has the highest priority, whatever the order of the insertions.
HeadHighest ==
    \A w \in Releasers : \A i \in DOMAIN ring[w] : Priority[ring[w][i]] <= Priority[ring[w][1]]

\* The next list keeps the elements of the present one, none twice.
Keeps(list, next) ==
    /\ next # <<>> => \A i \in DOMAIN list : \E j \in DOMAIN next : next[j] = list[i]
    /\ \A i, j \in DOMAIN next : next[i] = next[j] => i = j

\* An insertion loses no element of the list and doubles none.
NothingLost == [][\A w \in Releasers : Keeps(ring[w], ring'[w])]_ring
=============================================================================
