------------------------------ MODULE Barrier ------------------------------
(***************************************************************************)
(* dague_barrier_t of src/barrier.c: a reusable barrier made of a mutex, a *)
(* condition variable and a generation counter. The mutex and the          *)
(* condition are POSIX's: a waiting thread may wake up without a broadcast *)
(* and has to take the mutex again before it returns from the wait.        *)
(***************************************************************************)
EXTENDS Naturals, FiniteSets

CONSTANTS
    Threads,       \* the threads that share the barrier
    Count,         \* barrier->count given to dague_barrier_init
    NbGenerations, \* 2^w, for the width w of the generation counter
    Rounds,        \* bound: how many times a thread calls dague_barrier_wait
    NoThread       \* a free mutex

ASSUME BarrierAssumption ==
    /\ IsFiniteSet(Threads) /\ Threads # {}
    /\ Count = Cardinality(Threads)
    /\ NbGenerations \in Nat \ {0, 1}
    /\ Rounds \in Nat
    /\ NoThread \notin Threads

VARIABLES
    mutex,        \* holder of barrier->mutex
    curcount,     \* barrier->curcount
    generation,   \* barrier->generation
    mygen,        \* local generation of each thread
    pc,           \* where each thread is
    calls         \* history: calls of dague_barrier_wait that took effect

vars == <<mutex, curcount, generation, mygen, pc, calls>>

Init ==
    /\ mutex = NoThread
    /\ curcount = 0
    /\ generation = 0
    /\ mygen = [t \in Threads |-> 0]
    /\ pc = [t \in Threads |-> "out"]
    /\ calls = [t \in Threads |-> 0]

Goto(t, l) == pc' = [pc EXCEPT ![t] = l]

\* pthread_mutex_lock at the entry, or on the way out of pthread_cond_wait.
Lock(t) ==
    /\ mutex = NoThread
    /\ mutex' = t
    /\ \/ pc[t] = "out" /\ calls[t] < Rounds /\ Goto(t, "enter")
       \/ pc[t] = "woken" /\ Goto(t, "check")
    /\ UNCHANGED <<curcount, generation, mygen, calls>>

\* curcount when the barrier opens, and the threads pthread_cond_broadcast
\* wakes; mistakes: no reset, and pthread_cond_signal instead.
NotReset == Count
Reset    == 0
Signalled(u) == pc[u] = "asleep" /\ u = CHOOSE v \in Threads : pc[v] = "asleep"
Broadcast(u) == pc[u] = "asleep"

\* The last thread opens the next generation and wakes the others.
EnterLast(t) ==
    /\ pc[t] = "enter"
    /\ curcount + 1 = Count
    /\ generation' = (generation + 1) % NbGenerations
    /\ curcount' = Reset
    /\ calls' = [calls EXCEPT ![t] = @ + 1]
    /\ pc' = [u \in Threads |-> IF u = t THEN "unlock"
                                ELSE IF Broadcast(u) THEN "woken" ELSE pc[u]]
    /\ UNCHANGED <<mutex, mygen>>

\* The others remember the generation and wait, which frees the mutex.
EnterWait(t) ==
    /\ pc[t] = "enter"
    /\ curcount + 1 # Count
    /\ curcount' = curcount + 1
    /\ mygen' = [mygen EXCEPT ![t] = generation]
    /\ calls' = [calls EXCEPT ![t] = @ + 1]
    /\ mutex' = NoThread
    /\ Goto(t, "asleep")
    /\ UNCHANGED generation

SpuriousWakeup(t) ==
    /\ pc[t] = "asleep"
    /\ Goto(t, "woken")
    /\ UNCHANGED <<mutex, curcount, generation, mygen, calls>>

\* The generation is compared after every wakeup; the mistake of trusting it.
AnyWakeup(t) == TRUE
Opened(t) == mygen[t] # generation

Check(t) ==
    /\ pc[t] = "check"
    /\ IF Opened(t)
       THEN Goto(t, "unlock") /\ UNCHANGED mutex
       ELSE Goto(t, "asleep") /\ mutex' = NoThread
    /\ UNCHANGED <<curcount, generation, mygen, calls>>

Unlock(t) ==
    /\ pc[t] = "unlock"
    /\ mutex' = NoThread
    /\ Goto(t, "out")
    /\ UNCHANGED <<curcount, generation, mygen, calls>>

Step(t) == Lock(t) \/ EnterLast(t) \/ EnterWait(t) \/ Check(t) \/ Unlock(t)

\* Every thread has made all its calls: the program stops.
Ended == (\A t \in Threads : pc[t] = "out" /\ calls[t] = Rounds) /\ UNCHANGED vars

Next == (\E t \in Threads : Step(t) \/ SpuriousWakeup(t)) \/ Ended

\* A thread keeps running; the mutex is granted to a thread that keeps asking
\* for it, however often others take it in between.
Fairness == \A t \in Threads : WF_vars(Step(t)) /\ SF_vars(Lock(t))

Spec     == Init /\ [][Next]_vars
FairSpec == Spec /\ Fairness

-----------------------------------------------------------------------------
(* Correctness.                                                            *)

Labels == {"out", "enter", "asleep", "woken", "check", "unlock"}

TypeOK ==
    /\ mutex \in Threads \cup {NoThread}
    /\ curcount \in 0..Count
    /\ generation \in 0..(NbGenerations - 1)
    /\ mygen \in [Threads -> 0..(NbGenerations - 1)]
    /\ pc \in [Threads -> Labels]
    /\ calls \in [Threads -> 0..Rounds]

\* The threads that wait for the current generation to end.
Waiting == {t \in Threads : pc[t] \in {"asleep", "woken", "check"} /\ mygen[t] = generation}

\* curcount is the number of threads that wait in the current generation: a
\* thread still on its way out of the previous one is not counted again, so
\* the barrier can be reused at once.
CurcountCountsWaiting == curcount = Cardinality(Waiting)

\* A thread leaves only when every thread has arrived as often as it has:
\* nobody overtakes the barrier, spurious wakeups included.
InsideBarrier == {t \in Threads : pc[t] \in {"asleep", "woken", "check", "unlock"}}
AB == INSTANCE AbstractBarrier WITH bar <- calls, inside <- InsideBarrier
ImplementsAbstractBarrier == AB!Spec

\* Nobody stays behind: a waiting thread whose peers all arrive goes on, and
\* so every thread gets through all its rounds.
AllRoundsComplete == <>(\A t \in Threads : pc[t] = "out" /\ calls[t] = Rounds)
=============================================================================
