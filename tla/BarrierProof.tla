---------------------------- MODULE BarrierProof ----------------------------
(***************************************************************************)
(* Proofs about Barrier, for every number of threads, of calls and of      *)
(* generations: its types, what curcount counts, and that it implements    *)
(* AbstractBarrier.                                                        *)
(***************************************************************************)
EXTENDS Barrier, FiniteSetTheorems, TLAPS

Holding == {"enter", "check", "unlock"}

\* The thread in the critical section holds the mutex, and only that one.
MutexInv ==
    /\ \A t \in Threads : pc[t] \in Holding <=> mutex = t
    /\ \A t \in Threads : pc[t] = "enter" => calls[t] < Rounds

\* A thread asleep waits for the current generation: the broadcast leaves
\* nobody of an older one in the condition variable.
SleepersInv == \A t \in Threads : pc[t] = "asleep" => mygen[t] = generation

\* Every thread has arrived as often as any other, those that wait for the
\* current generation once more.
Completed(t) == IF t \in Waiting THEN calls[t] - 1 ELSE calls[t]
RoundsInv == \A t, u \in Threads : Completed(t) = Completed(u)

\* Somebody is missing, or the barrier would be open.
CountInv == curcount < Count

IInv == TypeOK /\ MutexInv /\ SleepersInv /\ CurcountCountsWaiting /\ RoundsInv /\ CountInv

-----------------------------------------------------------------------------
\* A generation is followed by a different one, also where the counter wraps.
LEMMA GenerationChanges ==
    ASSUME NEW g \in 0..(NbGenerations - 1)
    PROVE  /\ (g + 1) % NbGenerations \in 0..(NbGenerations - 1)
           /\ (g + 1) % NbGenerations # g
<1>1. NbGenerations \in Nat /\ NbGenerations > 1  BY BarrierAssumption
<1>2. CASE g + 1 < NbGenerations
  <2>1. (g + 1) % NbGenerations = g + 1  BY <1>1, <1>2
  <2> QED  BY <1>1, <1>2, <2>1
<1>3. CASE g + 1 = NbGenerations
  <2>1. (g + 1) % NbGenerations = 0  BY <1>1, <1>3
  <2> QED  BY <1>1, <1>3, <2>1
<1> QED  BY <1>1, <1>2, <1>3

\* The set of waiting threads is finite, so its cardinality is a number.
LEMMA WaitingFinite == IsFiniteSet(Waiting) /\ Cardinality(Waiting) \in Nat
  BY FS_Subset, FS_CardinalityType, BarrierAssumption DEF Waiting

\* When the last thread arrives all the others wait for the current generation.
LEMMA OthersWait ==
    ASSUME IInv, NEW t \in Threads, EnterLast(t)
    PROVE  Waiting = Threads \ {t}
<1>1. t \notin Waiting  BY DEF EnterLast, Waiting
<1>2. Waiting \in SUBSET (Threads \ {t})  BY <1>1 DEF Waiting
<1>3. IsFiniteSet(Threads \ {t}) /\ Cardinality(Threads \ {t}) = Count - 1
  BY FS_RemoveElement, FS_CardinalityType, BarrierAssumption
<1>4. Cardinality(Waiting) = Count - 1
  <2>1. Count \in Nat  BY FS_CardinalityType, BarrierAssumption
  <2> QED  BY <2>1 DEF IInv, TypeOK, CurcountCountsWaiting, EnterLast
<1> QED  BY <1>2, <1>3, <1>4, FS_Subset

-----------------------------------------------------------------------------
LEMMA InitIInv == ASSUME Init PROVE IInv
<1>1. Count \in Nat /\ Count > 0  BY FS_CardinalityType, FS_EmptySet, BarrierAssumption
<1>2. Waiting = {}  BY DEF Init, Waiting
<1>3. TypeOK  BY <1>1, BarrierAssumption DEF Init, TypeOK, Labels
<1>4. MutexInv  BY BarrierAssumption DEF Init, MutexInv, Holding
<1>5. CurcountCountsWaiting  BY <1>2, FS_EmptySet DEF Init, CurcountCountsWaiting
<1>6. RoundsInv  BY <1>2 DEF Init, RoundsInv, Completed
<1> QED  BY <1>1, <1>3, <1>4, <1>5, <1>6 DEF Init, IInv, SleepersInv, CountInv

\* Steps that change neither the counters nor the set of waiting threads
\* keep what is said of them.
LEMMA SameWaiting ==
    ASSUME IInv, UNCHANGED <<curcount, calls>>, Waiting' = Waiting
    PROVE  (CurcountCountsWaiting /\ RoundsInv /\ CountInv)'
  BY DEF IInv, CurcountCountsWaiting, RoundsInv, CountInv, Completed

LEMMA NextIInv == ASSUME IInv, [Next]_vars PROVE IInv'
<1> USE BarrierAssumption
<1> DEFINE MTS == (TypeOK /\ MutexInv /\ SleepersInv)'
<1>0. Count \in Nat  BY FS_CardinalityType
<1>1. ASSUME NEW t \in Threads, Lock(t) PROVE IInv'
  <2>1. MTS
    BY <1>1 DEF Lock, Goto, IInv, TypeOK, MutexInv, SleepersInv, Labels, Holding
  <2>2. Waiting' = Waiting  BY <1>1 DEF Lock, Goto, IInv, TypeOK, Waiting
  <2> QED  BY <1>1, <2>1, <2>2, SameWaiting DEF IInv, Lock
<1>2. ASSUME NEW t \in Threads, EnterLast(t) PROVE IInv'
  <2>1. Waiting = Threads \ {t}  BY <1>2, OthersWait
  <2>2. /\ generation' \in 0..(NbGenerations - 1)
        /\ generation' # generation
    BY <1>2, GenerationChanges DEF EnterLast, IInv, TypeOK
  <2>3. Waiting' = {}  BY <1>2, <2>1, <2>2 DEF EnterLast, Waiting, Broadcast
  <2>4. MTS
    BY <1>0, <1>2, <2>1, <2>2 DEF EnterLast, Broadcast, Reset, Waiting, IInv, TypeOK, MutexInv,
       SleepersInv, Labels, Holding
  <2>5. CurcountCountsWaiting' /\ CountInv'
    <3>1. Threads # {}  OBVIOUS
    <3>2. Count > 0  BY <1>0, <3>1, FS_EmptySet
    <3> QED  BY <1>2, <2>3, <3>2, FS_EmptySet
          DEF EnterLast, Reset, CurcountCountsWaiting, CountInv
  <2>6. RoundsInv'
    <3>1. SUFFICES ASSUME NEW u \in Threads PROVE calls'[u] = Completed(t) + 1
      BY <2>3 DEF RoundsInv, Completed
    <3>2. Completed(u) = Completed(t) /\ Completed(t) = calls[t]
      BY <2>1 DEF IInv, RoundsInv, Completed
    <3>3. CASE u = t  BY <1>2, <3>2, <3>3 DEF EnterLast, IInv, TypeOK
    <3>4. CASE u # t
      <4>1. Completed(u) = calls[u] - 1  BY <2>1, <3>4 DEF Completed
      <4>2. calls'[u] = calls[u] /\ calls[u] \in Nat
        BY <1>2, <3>4 DEF EnterLast, IInv, TypeOK
      <4> QED  BY <3>2, <4>1, <4>2
    <3> QED  BY <3>3, <3>4
  <2> QED  BY <2>4, <2>5, <2>6 DEF IInv
<1>3. ASSUME NEW t \in Threads, EnterWait(t) PROVE IInv'
  <2>1. t \notin Waiting  BY <1>3 DEF EnterWait, Waiting
  <2>2. Waiting' = Waiting \cup {t}
    BY <1>3 DEF EnterWait, Goto, IInv, TypeOK, Waiting
  <2>3. curcount' = Cardinality(Waiting') /\ curcount' < Count /\ curcount' \in 0..Count
    <3>1. Cardinality(Waiting') = Cardinality(Waiting) + 1
      BY <2>1, <2>2, WaitingFinite, FS_AddElement
    <3> QED  BY <1>0, <1>3, <3>1
          DEF EnterWait, IInv, TypeOK, CurcountCountsWaiting, CountInv
  <2>4. MTS
    BY <1>3, <2>3 DEF EnterWait, Goto, IInv, TypeOK, MutexInv, SleepersInv, Labels, Holding
  <2>5. RoundsInv'
    <3>1. SUFFICES ASSUME NEW u \in Threads PROVE Completed(u)' = Completed(u)
      BY DEF IInv, RoundsInv
    <3>2. CASE u = t  BY <1>3, <2>1, <2>2, <3>2 DEF EnterWait, IInv, TypeOK, Completed
    <3>3. CASE u # t  BY <1>3, <2>2, <3>3 DEF EnterWait, IInv, TypeOK, Completed
    <3> QED  BY <3>2, <3>3
  <2> QED  BY <2>3, <2>4, <2>5 DEF IInv, CurcountCountsWaiting, CountInv
<1>4. ASSUME NEW t \in Threads, SpuriousWakeup(t) PROVE IInv'
  <2>1. MTS
    BY <1>4 DEF SpuriousWakeup, Goto, IInv, TypeOK, MutexInv, SleepersInv, Labels, Holding
  <2>2. Waiting' = Waiting  BY <1>4 DEF SpuriousWakeup, Goto, IInv, TypeOK, Waiting
  <2> QED  BY <1>4, <2>1, <2>2, SameWaiting DEF IInv, SpuriousWakeup
<1>5. ASSUME NEW t \in Threads, Check(t) PROVE IInv'
  <2>1. MTS
    BY <1>5 DEF Check, Opened, Goto, IInv, TypeOK, MutexInv, SleepersInv, Labels, Holding
  <2>2. Waiting' = Waiting  BY <1>5 DEF Check, Opened, Goto, IInv, TypeOK, Waiting
  <2> QED  BY <1>5, <2>1, <2>2, SameWaiting DEF IInv, Check
<1>6. ASSUME NEW t \in Threads, Unlock(t) PROVE IInv'
  <2>1. MTS
    BY <1>6 DEF Unlock, Goto, IInv, TypeOK, MutexInv, SleepersInv, Labels, Holding
  <2>2. Waiting' = Waiting  BY <1>6 DEF Unlock, Goto, IInv, TypeOK, Waiting
  <2> QED  BY <1>6, <2>1, <2>2, SameWaiting DEF IInv, Unlock
<1>7. ASSUME UNCHANGED vars PROVE IInv'
  BY <1>7 DEF vars, IInv, TypeOK, MutexInv, SleepersInv, CurcountCountsWaiting, RoundsInv,
     CountInv, Completed, Waiting
<1> QED  BY <1>1, <1>2, <1>3, <1>4, <1>5, <1>6, <1>7 DEF Next, Step, Ended

-----------------------------------------------------------------------------
LEMMA Invariance == Spec => []IInv
<1>1. Init => IInv  BY InitIInv
<1>2. IInv /\ [Next]_vars => IInv'  BY NextIInv
<1> QED  BY <1>1, <1>2, PTL DEF Spec

\* The fields of the barrier and the threads' places keep their types; in
\* particular curcount never passes the number of threads.
THEOREM TypeCorrect == Spec => []TypeOK
<1>1. IInv => TypeOK  BY DEF IInv
<1> QED  BY <1>1, Invariance, PTL

\* curcount is the number of threads that wait in the current generation,
\* while those of the previous one are still on their way out.
THEOREM CountCorrect == Spec => []CurcountCountsWaiting
<1>1. IInv => CurcountCountsWaiting  BY DEF IInv
<1> QED  BY <1>1, Invariance, PTL

\* A thread that takes the mutex to leave is behind nobody: every thread has
\* arrived as often as it has.
LEMMA NobodyBehind ==
    ASSUME IInv, NEW t \in Threads, t \notin Waiting, NEW u \in Threads
    PROVE  calls[u] >= calls[t]
<1>1. Completed(t) = calls[t] /\ Completed(u) = Completed(t)
  BY DEF IInv, RoundsInv, Completed
<1>2. calls[u] \in Nat /\ calls[t] \in Nat  BY DEF IInv, TypeOK
<1>3. CASE u \in Waiting  BY <1>1, <1>2, <1>3 DEF Completed
<1>4. CASE u \notin Waiting  BY <1>1, <1>2, <1>4 DEF Completed
<1> QED  BY <1>3, <1>4

\* Every step of the barrier is a step of the abstract one or changes none of
\* its variables.
LEMMA StepImplements == ASSUME IInv, [Next]_vars PROVE [AB!Next]_(AB!vars)
<1> USE DEF AB!Next, AB!vars, AB!Arrive, AB!Leave, AB!Released, InsideBarrier
<1>1. ASSUME NEW t \in Threads, Lock(t) PROVE UNCHANGED AB!vars
  BY <1>1 DEF Lock, Goto, IInv, TypeOK
<1>2. ASSUME NEW t \in Threads, EnterLast(t) PROVE AB!Arrive(t)
  BY <1>2 DEF EnterLast, Broadcast, IInv, TypeOK
<1>3. ASSUME NEW t \in Threads, EnterWait(t) PROVE AB!Arrive(t)
  BY <1>3 DEF EnterWait, Goto, IInv, TypeOK
<1>4. ASSUME NEW t \in Threads, SpuriousWakeup(t) PROVE UNCHANGED AB!vars
  BY <1>4 DEF SpuriousWakeup, Goto, IInv, TypeOK
<1>5. ASSUME NEW t \in Threads, Check(t) PROVE UNCHANGED AB!vars
  BY <1>5 DEF Check, Goto, IInv, TypeOK
<1>6. ASSUME NEW t \in Threads, Unlock(t) PROVE AB!Leave(t)
  <2>1. t \notin Waiting  BY <1>6 DEF Unlock, Waiting
  <2>2. \A u \in Threads : calls[u] >= calls[t]  BY <2>1, NobodyBehind
  <2> QED  BY <1>6, <2>2 DEF Unlock, Goto, IInv, TypeOK
<1>7. CASE UNCHANGED vars  BY <1>7 DEF vars
<1> QED  BY <1>1, <1>2, <1>3, <1>4, <1>5, <1>6, <1>7 DEF Next, Step, Ended

\* The barrier keeps the promise of AbstractBarrier: no thread goes on before
\* every thread has arrived as often as it has, whatever the interleaving and
\* the spurious wakeups, also when the generation counter wraps.
THEOREM BarrierImplements == Spec => ImplementsAbstractBarrier
<1>1. Init => AB!Init  BY DEF Init, AB!Init, InsideBarrier
<1>2. IInv /\ [Next]_vars => [AB!Next]_(AB!vars)  BY StepImplements
<1> QED  BY <1>1, <1>2, Invariance, PTL DEF Spec, AB!Spec, ImplementsAbstractBarrier
=============================================================================
