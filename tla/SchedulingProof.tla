-------------------------- MODULE SchedulingProof --------------------------
(***************************************************************************)
(* Proofs about Scheduling, for every number of threads, task graph and    *)
(* placeholder size: its types, that the application runs while every      *)
(* other thread is parked, that dague_fini meets the barriers of the other *)
(* threads, that the tasks left are counted exactly and none is left       *)
(* behind, and that the engine implements TaskGraph.                       *)
(***************************************************************************)
EXTENDS Scheduling, ReadyListProof

-----------------------------------------------------------------------------
(* Types, calls and barriers.                                              *)

\* One cell of the placeholder ring stays free.
SlotInv == \A w \in Workers : Len(slot[w]) < PlaceholderSize

\* A thread that runs a task has one, and releases an existing dependency.
Running == {"done_task", "execute", "body", "release", "or"}
RunInv ==
    \A w \in Workers :
        /\ pc[w] \in Running => cur[w] \in Tasks
        /\ pc[w] = "or" => edge[w] \in DOMAIN Out[cur[w]]

DataInv == TypeOK /\ SlotInv /\ RunInv

\* Inside a round, from the barrier that opens it to the one that closes it.
Working == {"loop", "pop_own", "own_locked", "steal", "steal_locked", "done_task", "execute",
            "body", "release", "or", "push", "push_locked", "end"}
Waiting == {"init_wait", "start_wait", "end_wait", "fini_wait"}

\* The rounds a thread has counted: the master in fincount, a worker in its
\* my_barrier_counter.
Counted(w) == IF w = Master THEN fincount ELSE mycount[w]

\* Where a thread is tells how often it has arrived at the barrier, from the
\* rounds it has counted.
Place(w) ==
    /\ pc[w] # "owes"
    /\ pc[w] \in {"app", "fini", "fini_wait"} => w = Master
    /\ pc[w] = "init" => bar[w] = 0 /\ Counted(w) = 0
    /\ pc[w] = "init_wait" => bar[w] = 1 /\ Counted(w) = 0
    /\ pc[w] \in {"start", "app", "fini"} => bar[w] = 2 * Counted(w) - 1
    /\ pc[w] \in Working \cup {"start_wait", "fini_wait"} => bar[w] = 2 * Counted(w)
    /\ pc[w] = "end_wait" => bar[w] = 2 * Counted(w) + 1
    /\ pc[w] = "exit" => bar[w] = 2 * (IF w = Master THEN fincount ELSE mycount[w] - 1)
PlaceInv == \A w \in Workers : Place(w)

\* Nobody is ahead of the others, or by the arrival it waits for.
LockstepInv ==
    \A v, w \in Workers : bar[v] >= (IF pc[w] \in Waiting THEN bar[w] - 1 ELSE bar[w])

FinishInv == finishing => pc[Master] \in {"fini", "fini_wait", "exit"}

PhaseInv == PlaceInv /\ LockstepInv /\ FinishInv

\* The types the phases depend on.
PhaseTypes ==
    /\ pc \in [Workers -> Labels] /\ bar \in [Workers -> Nat]
    /\ fincount \in Nat /\ mycount \in [Workers -> Nat]

-----------------------------------------------------------------------------
(* Phases of the threads.                                                  *)

USE DEF Master, Nobody

LEMMA MasterIsWorker == Master \in Workers
  BY CoresAssumption DEF Workers

LEMMA InitPhaseInv == ASSUME Init PROVE PhaseInv
  BY MasterIsWorker DEF Init, PhaseInv, PlaceInv, Place, LockstepInv, FinishInv, Counted, Working, Waiting

\* The steps of a round move one thread inside it and touch nothing the
\* phases depend on.
LEMMA RoundStep ==
    ASSUME PhaseTypes, PhaseInv, NEW w \in Workers, NEW l \in Working,
           pc[w] \in Working, pc' = [pc EXCEPT ![w] = l],
           UNCHANGED <<bar, fincount, finishing, mycount>>
    PROVE  PhaseInv'
<1>1. PlaceInv'
  BY DEF PhaseTypes, PhaseInv, PlaceInv, Place, Counted, Working
<1>2. LockstepInv'
  BY DEF PhaseTypes, PhaseInv, LockstepInv, Working, Waiting
<1>3. FinishInv'
  BY MasterIsWorker DEF PhaseTypes, PhaseInv, FinishInv, Working
<1> QED  BY <1>1, <1>2, <1>3 DEF PhaseInv

LEMMA ArrivePhase ==
    ASSUME PhaseTypes, PhaseInv, NEW w \in Workers, Arrive(w)
    PROVE  PhaseInv'
<1> USE DEF Arrive, WaitsAt, Goto, appVars
<1>1. PlaceInv'
  BY DEF PhaseTypes, PhaseInv, PlaceInv, Place, Counted, Working
<1>2. LockstepInv'
  BY DEF PhaseTypes, PhaseInv, LockstepInv, Waiting
<1>3. FinishInv'
  BY MasterIsWorker DEF PhaseTypes, PhaseInv, FinishInv
<1> QED  BY <1>1, <1>2, <1>3 DEF PhaseInv

\* A thread that leaves a barrier is behind nobody.
LEMMA LeavePhase ==
    ASSUME PhaseTypes, PhaseInv, NEW w \in Workers, pc[w] \in Waiting, Released(w), UNCHANGED bar,
           NEW l, pc' = [pc EXCEPT ![w] = l]
    PROVE  LockstepInv'
  BY DEF PhaseTypes, PhaseInv, LockstepInv, Waiting, Released

LEMMA LeaveInitPhase ==
    ASSUME PhaseTypes, PhaseInv, NEW w \in Workers, LeaveInit(w)
    PROVE  PhaseInv'
<1> USE DEF LeaveInit, Goto, FirstCounter
<1>1. PlaceInv'
  BY MasterIsWorker DEF PhaseTypes, PhaseInv, PlaceInv, Place, Counted, Working
<1>2. LockstepInv'
  BY LeavePhase DEF Waiting
<1>3. FinishInv'
  BY MasterIsWorker DEF PhaseTypes, PhaseInv, FinishInv
<1> QED  BY <1>1, <1>2, <1>3 DEF PhaseInv

LEMMA LeaveEndPhase ==
    ASSUME PhaseTypes, PhaseInv, NEW w \in Workers, LeaveEnd(w)
    PROVE  PhaseInv'
<1> USE DEF LeaveEnd, Goto
<1>1. PlaceInv'
  BY MasterIsWorker DEF PhaseTypes, PhaseInv, PlaceInv, Place, Counted, Working
<1>2. LockstepInv'
  BY LeavePhase DEF Waiting
<1>3. FinishInv'
  BY MasterIsWorker DEF PhaseTypes, PhaseInv, FinishInv
<1> QED  BY <1>1, <1>2, <1>3 DEF PhaseInv

\* A thread that finds the program finishing has counted as many rounds as
\* the master: it owes no barrier.
LEMMA NothingOwed ==
    ASSUME PhaseTypes, PhaseInv, NEW w \in Workers, pc[w] = "start_wait", Released(w), finishing
    PROVE  w # Master /\ mycount[w] = fincount
<1>1. w # Master /\ pc[Master] \in {"fini", "fini_wait", "exit"}
  BY DEF PhaseInv, FinishInv
<1>2. bar[w] = 2 * mycount[w] /\ bar[w] >= bar[Master] - 1 /\ bar[Master] >= bar[w]
  BY <1>1, MasterIsWorker
     DEF PhaseTypes, PhaseInv, PlaceInv, Place, LockstepInv, Counted, Waiting, Released
<1>3. CASE pc[Master] = "fini"
  <2>1. bar[Master] = 2 * fincount - 1 /\ bar[w] >= bar[Master]
    BY <1>3, MasterIsWorker DEF PhaseTypes, PhaseInv, PlaceInv, Place, LockstepInv, Counted, Waiting
  <2> QED  BY <1>1, <1>2, <2>1, MasterIsWorker DEF PhaseTypes
<1>4. CASE pc[Master] \in {"fini_wait", "exit"}
  <2>1. bar[Master] = 2 * fincount
    BY <1>4, MasterIsWorker DEF PhaseInv, PlaceInv, Place, Counted
  <2> QED  BY <1>1, <1>2, <2>1, MasterIsWorker DEF PhaseTypes
<1> QED  BY <1>1, <1>3, <1>4

LEMMA LeaveStartPhase ==
    ASSUME PhaseTypes, PhaseInv, NEW w \in Workers, LeaveStart(w)
    PROVE  PhaseInv'
<1> USE DEF LeaveStart, Goto
<1>1. CASE finishing
  <2>1. w # Master /\ mycount[w] = fincount
    BY <1>1, NothingOwed
  <2>2. pc' = [pc EXCEPT ![w] = "exit"]
    BY <1>1, <2>1 DEF PhaseTypes
  <2>3. PlaceInv'
    BY <1>1, <2>1, <2>2 DEF PhaseTypes, PhaseInv, PlaceInv, Place, Counted, Working
  <2>4. LockstepInv'
    BY <2>2, LeavePhase DEF Waiting
  <2>5. FinishInv'
    BY <2>1, <2>2, MasterIsWorker DEF PhaseTypes, PhaseInv, FinishInv
  <2> QED  BY <2>3, <2>4, <2>5 DEF PhaseInv
<1>2. CASE ~finishing
  <2>1. PlaceInv'
    BY <1>2 DEF PhaseTypes, PhaseInv, PlaceInv, Place, Counted, Working
  <2>2. LockstepInv'
    BY <1>2, LeavePhase DEF Waiting
  <2>3. FinishInv'
    BY <1>2 DEF FinishInv
  <2> QED  BY <2>1, <2>2, <2>3 DEF PhaseInv
<1> QED  BY <1>1, <1>2

\* What the application does changes the master's place at most.
LEMMA AppPhase ==
    ASSUME PhaseTypes, PhaseInv, App \/ Join
    PROVE  PhaseInv'
<1> USE MasterIsWorker DEF Goto, appVars
<1>1. CASE Enqueue
  BY <1>1 DEF Enqueue, PhaseInv, PlaceInv, Place, LockstepInv, FinishInv, Counted
<1>2. CASE CallWait
  BY <1>2 DEF CallWait, PhaseTypes, PhaseInv, PlaceInv, Place, LockstepInv, FinishInv, Counted, Working, Waiting
<1>3. CASE CallFini
  BY <1>3 DEF CallFini, PhaseTypes, PhaseInv, PlaceInv, Place, LockstepInv, FinishInv, Counted, Working, Waiting
<1>4. CASE Join
  <2>1. PlaceInv'
    BY <1>4 DEF Join, PhaseTypes, PhaseInv, PlaceInv, Place, Counted, Working
  <2>2. LockstepInv'
    BY <1>4, LeavePhase DEF Join, Waiting
  <2>3. FinishInv'
    BY <1>4 DEF Join, PhaseTypes, PhaseInv, FinishInv
  <2> QED  BY <2>1, <2>2, <2>3 DEF PhaseInv
<1> QED  BY <1>1, <1>2, <1>3, <1>4 DEF App

LEMMA WorkPhase ==
    ASSUME PhaseTypes, PhaseInv, NEW w \in Workers,
           \/ Loop(w) \/ TryLock(w) \/ PopFront(w) \/ DoneTask(w) \/ Execute(w) \/ BodyEnds(w)
           \/ ReadMask(w) \/ OrMask(w) \/ Schedule(w) \/ SpinLock(w) \/ Push(w)
    PROVE  PhaseInv'
<1>1. /\ pc[w] \in Working
      /\ \E l \in Working : pc' = [pc EXCEPT ![w] = l]
      /\ UNCHANGED <<bar, fincount, finishing, mycount>>
  BY DEF Loop, ChooseLocalJob, TryLock, PopFront, Miss, DoneTask, Execute, BodyEnds, ReadMask, OrMask, Schedule,
     SpinLock, Push, Goto, appVars, Working
<1> QED  BY <1>1, RoundStep

LEMMA NextPhaseInv == ASSUME PhaseTypes, PhaseInv, [Next]_vars PROVE PhaseInv'
<1>1. ASSUME NEW w \in Workers, Step(w) PROVE PhaseInv'
  BY <1>1, ArrivePhase, LeaveInitPhase, LeaveStartPhase, LeaveEndPhase, WorkPhase DEF Step
<1>2. CASE UNCHANGED vars
  BY <1>2 DEF vars, PhaseInv, PlaceInv, Place, LockstepInv, FinishInv, Counted
<1> QED  BY <1>1, <1>2, AppPhase DEF Next, Ended

-----------------------------------------------------------------------------
(* Types.                                                                  *)

LEMMA InitDataInv == ASSUME Init PROVE DataInv
<1> USE CoresAssumption, TasksAssumption
<1>1. TypeOK
  <2>1. /\ queue \in [Workers -> Seq(Tasks)] /\ slot \in [Workers -> Seq(Tasks)]
        /\ ready \in [Workers -> Seq(Tasks)]
    BY EmptySeq DEF Init
  <2>2. PhaseTypes  BY DEF Init, PhaseTypes, Labels
  <2>3. enqueued \in 0..NbObjects /\ waited \in 0..NbObjects /\ taskstodo \in Int
    BY DEF Init
  <2>4. deps \in [Tasks -> SUBSET (Flows \cup {InDone})]
    BY DEF Init
  <2>5. newmask \in [Workers -> SUBSET (Flows \cup {InDone})]
    BY DEF Init
  <2> QED  BY <2>1, <2>2, <2>3, <2>4, <2>5 DEF Init, TypeOK, PhaseTypes
<1>2. SlotInv  BY EmptySeq DEF Init, SlotInv
<1>3. RunInv  BY DEF Init, RunInv, Running
<1> QED  BY <1>1, <1>2, <1>3 DEF DataInv

\* Steps that move one thread to a label where it runs no task.
LEMMA MoveData ==
    ASSUME DataInv, NEW w \in Workers, NEW l \in Labels \ Running,
           pc' = [pc EXCEPT ![w] = l],
           UNCHANGED <<queue, lock, slot, deps, cur, edge, newmask, ready, victim, status>>,
           UNCHANGED bar \/ bar' = [bar EXCEPT ![w] = @ + 1],
           UNCHANGED mycount \/ \E n \in Nat : mycount' = [mycount EXCEPT ![w] = n],
           taskstodo' \in Int, fincount' \in Nat, finishing' \in BOOLEAN,
           enqueued' \in 0..NbObjects, waited' \in 0..NbObjects
    PROVE  DataInv'
<1>1. TypeOK'
  <2>1. bar' \in [Workers -> Nat]
    <3>1. bar \in [Workers -> Nat] /\ bar[w] + 1 \in Nat  BY DEF DataInv, TypeOK
    <3> QED  BY <3>1
  <2>2. mycount' \in [Workers -> Nat]
    <3>1. mycount \in [Workers -> Nat]  BY DEF DataInv, TypeOK
    <3> QED  BY <3>1
  <2>3. pc' \in [Workers -> Labels]  BY DEF DataInv, TypeOK
  <2> QED  BY <2>1, <2>2, <2>3 DEF DataInv, TypeOK
<1>2. SlotInv'  BY DEF DataInv, SlotInv
<1>3. RunInv'  BY DEF DataInv, TypeOK, RunInv, Running
<1> QED  BY <1>1, <1>2, <1>3 DEF DataInv

LEMMA BarrierData ==
    ASSUME DataInv, NEW w \in Workers,
           Arrive(w) \/ LeaveInit(w) \/ LeaveStart(w) \/ LeaveEnd(w)
    PROVE  DataInv'
<1> USE DEF Labels, Running, Goto, runVars, appVars
<1>0. /\ taskstodo \in Int /\ fincount \in Nat /\ finishing \in BOOLEAN /\ mycount[w] \in Nat
      /\ enqueued \in 0..NbObjects /\ waited \in 0..NbObjects
  BY DEF DataInv, TypeOK
<1>1. CASE Arrive(w)
  <2>1. WaitsAt(pc[w]) \in Labels \ Running  BY <1>1 DEF Arrive, WaitsAt
  <2> QED  BY <1>0, <1>1, <2>1, MoveData DEF Arrive
<1>2. CASE LeaveInit(w)  BY <1>0, <1>2, MoveData DEF LeaveInit, FirstCounter
<1>3. CASE LeaveStart(w)
  <2>1. mycount[w] + 1 \in Nat  BY <1>0
  <2> QED  BY <1>0, <1>3, <2>1, MoveData DEF LeaveStart
<1>4. CASE LeaveEnd(w)
  <2>1. mycount[w] + 1 \in Nat /\ fincount + 1 \in Nat  BY <1>0
  <2> QED  BY <1>0, <1>4, <2>1, MoveData DEF LeaveEnd
<1> QED  BY <1>1, <1>2, <1>3, <1>4

\* What the application may do.
LEMMA AppData ==
    ASSUME DataInv, App \/ Join
    PROVE  DataInv'
<1> USE MasterIsWorker DEF Labels, Running, Goto, runVars, appVars
<1>0. /\ taskstodo \in Int /\ fincount \in Nat /\ finishing \in BOOLEAN
      /\ enqueued \in 0..NbObjects /\ waited \in 0..NbObjects
  BY DEF DataInv, TypeOK
<1>1. CASE Enqueue
  <2>1. enqueued + 1 \in Objects /\ enqueued' \in 0..NbObjects
    BY <1>0, <1>1, CoresAssumption DEF Enqueue, Objects
  <2>2. taskstodo' \in Int
    <3>1. IsFiniteSet(TasksOf(enqueued + 1))
      BY FS_Subset, TasksAssumption DEF TasksOf
    <3>2. Cardinality(TasksOf(enqueued + 1)) \in Nat  BY <3>1, FS_CardinalityType
    <3> QED  BY <1>0, <1>1, <3>2 DEF Enqueue
  <2>3. queue' \in [Workers -> Seq(Tasks)]
    <3>1. StartupList[enqueued + 1] \in Seq(Tasks)  BY <2>1, TasksAssumption
    <3>2. queue \in [Workers -> Seq(Tasks)] /\ queue[Master] \in Seq(Tasks)
      BY DEF DataInv, TypeOK
    <3>3. PushList(queue[Master], StartupList[enqueued + 1]) \in Seq(Tasks)
      BY <3>1, <3>2, ConcatProperties DEF PushList
    <3> HIDE DEF Goto
    <3> QED  BY <1>1, <3>2, <3>3 DEF Enqueue
  <2>4. TypeOK'
    BY <1>1, <2>1, <2>2, <2>3 DEF Enqueue, DataInv, TypeOK
  <2> QED  BY <1>1, <2>4 DEF Enqueue, DataInv, SlotInv, RunInv
<1>2. CASE CallWait  BY <1>0, <1>2, MoveData DEF CallWait
<1>3. CASE CallFini  BY <1>0, <1>3, MoveData DEF CallFini
<1>4. CASE Join  BY <1>0, <1>4, MoveData DEF Join
<1> QED  BY <1>1, <1>2, <1>3, <1>4 DEF App

\* Nothing found: the thread turns to another victim.
LEMMA MissData ==
    ASSUME TypeOK, NEW w \in Workers, Miss(w)
    PROVE  /\ pc' \in [Workers -> Labels] /\ victim' \in [Workers -> Workers]
           /\ \E l \in {"steal", "loop"} : pc' = [pc EXCEPT ![w] = l]
<1> DEFINE next == IF pc[w] \in {"pop_own", "own_locked"} THEN 0 ELSE victim[w] + 1
<1>1. victim[w] \in 0..(NbCores - 1)  BY DEF TypeOK, Workers
<1>2. IsVictim(next) => next \in Workers
  BY <1>1, CoresAssumption DEF IsVictim, Workers
<1>3. CASE IsVictim(next)
  <2>1. pc' = [pc EXCEPT ![w] = "steal"] /\ victim' = [victim EXCEPT ![w] = next]
    BY <1>3 DEF Miss, Goto
  <2> QED  BY <1>2, <1>3, <2>1 DEF TypeOK, Labels
<1>4. CASE ~IsVictim(next)
  <2>1. pc' = [pc EXCEPT ![w] = "loop"] /\ victim' = [victim EXCEPT ![w] = w]
    BY <1>4 DEF Miss, Goto
  <2> QED  BY <2>1 DEF TypeOK, Labels
<1> QED  BY <1>3, <1>4

LEMMA ChooseData ==
    ASSUME DataInv, NEW w \in Workers, Loop(w) \/ TryLock(w) \/ PopFront(w) \/ DoneTask(w)
    PROVE  DataInv'
<1> USE DEF Goto, appVars, runVars
<1>1. CASE Loop(w)
  <2>1. slot[w] # <<>> =>
           /\ Head(slot[w]) \in Tasks /\ Tail(slot[w]) \in Seq(Tasks)
           /\ Len(Tail(slot[w])) < PlaceholderSize
    <3>1. slot[w] \in Seq(Tasks) /\ Len(slot[w]) < PlaceholderSize
      BY DEF DataInv, TypeOK, SlotInv
    <3>2. Len(slot[w]) \in Nat /\ PlaceholderSize \in Nat
      BY <3>1, LenProperties, TasksAssumption
    <3>3. slot[w] # <<>> =>
             /\ Head(slot[w]) \in Tasks /\ Tail(slot[w]) \in Seq(Tasks)
             /\ Len(Tail(slot[w])) = Len(slot[w]) - 1
      BY <3>1, HeadTailProperties
    <3> QED  BY <3>1, <3>2, <3>3
  <2>2. CASE taskstodo = 0
    BY <1>1, <2>2 DEF Loop, ChooseLocalJob, DataInv, TypeOK, SlotInv, RunInv, Labels, Running
  <2>3. CASE taskstodo # 0 /\ slot[w] # <<>>
    <3>0. /\ pc' \in [Workers -> Labels] /\ cur' \in [Workers -> Tasks \cup {NoTask}]
          /\ slot' \in [Workers -> Seq(Tasks)]
      <4>1. pc' \in [Workers -> Labels]
        <5>1. pc \in [Workers -> Labels]  BY DEF DataInv, TypeOK
        <5>2. pc' = [pc EXCEPT ![w] = "done_task"]  BY <1>1, <2>3 DEF Loop, ChooseLocalJob
        <5> QED  BY <5>1, <5>2 DEF Labels
      <4>2. cur' \in [Workers -> Tasks \cup {NoTask}]
        BY <1>1, <2>1, <2>3, ZenonT(30) DEF Loop, ChooseLocalJob, DataInv, TypeOK
      <4>3. slot' \in [Workers -> Seq(Tasks)]
        BY <1>1, <2>1, <2>3 DEF Loop, ChooseLocalJob, DataInv, TypeOK
      <4> QED  BY <4>1, <4>2, <4>3
    <3>1. TypeOK'  BY <1>1, <2>3, <3>0 DEF Loop, ChooseLocalJob, DataInv, TypeOK
    <3>2. SlotInv'  BY <1>1, <2>1, <2>3 DEF Loop, ChooseLocalJob, DataInv, TypeOK, SlotInv
    <3>3. RunInv'  BY <1>1, <2>1, <2>3 DEF Loop, ChooseLocalJob, DataInv, TypeOK, RunInv, Running
    <3> QED  BY <3>1, <3>2, <3>3 DEF DataInv
  <2>4. CASE taskstodo # 0 /\ slot[w] = <<>>
    BY <1>1, <2>4, ZenonT(30) DEF Loop, ChooseLocalJob, DataInv, TypeOK, SlotInv, RunInv, Labels, Running
  <2> QED  BY <2>2, <2>3, <2>4
<1>2. CASE TryLock(w)
  <2>1. /\ pc' \in [Workers -> Labels] /\ victim' \in [Workers -> Workers]
        /\ \E l \in Labels \ Running : pc' = [pc EXCEPT ![w] = l]
    <3>1. CASE lock[victim[w]] = Nobody
      BY <1>2, <3>1 DEF TryLock, DataInv, TypeOK, Labels, Running
    <3>2. CASE lock[victim[w]] # Nobody
      BY <1>2, <3>2, MissData DEF TryLock, DataInv, Labels, Running
    <3> QED  BY <3>1, <3>2
  <2>2. lock' \in [Workers -> Workers \cup {Nobody}]
    <3>1. lock \in [Workers -> Workers \cup {Nobody}]  BY DEF DataInv, TypeOK
    <3>2. UNCHANGED lock \/ lock' = [lock EXCEPT ![victim[w]] = w]
      BY <1>2 DEF TryLock
    <3> QED  BY <3>1, <3>2
  <2>3. TypeOK'  BY <1>2, <2>1, <2>2 DEF TryLock, DataInv, TypeOK
  <2>4. RunInv'  BY <1>2, <2>1 DEF TryLock, DataInv, TypeOK, RunInv, Running
  <2> QED  BY <1>2, <2>3, <2>4 DEF TryLock, DataInv, SlotInv
<1>3. CASE PopFront(w)
  <2>1. lock' \in [Workers -> Workers \cup {Nobody}] /\ victim[w] \in Workers
    BY <1>3 DEF PopFront, DataInv, TypeOK
  <2>2. CASE queue[victim[w]] = <<>>
    <3>1. /\ pc' \in [Workers -> Labels] /\ victim' \in [Workers -> Workers]
          /\ \E l \in Labels \ Running : pc' = [pc EXCEPT ![w] = l]
      BY <1>3, <2>2, MissData DEF PopFront, DataInv, Labels, Running
    <3>2. TypeOK'  BY <1>3, <2>1, <2>2, <3>1 DEF PopFront, DataInv, TypeOK
    <3>3. RunInv'  BY <1>3, <2>2, <3>1 DEF PopFront, DataInv, TypeOK, RunInv, Running
    <3> QED  BY <1>3, <3>2, <3>3 DEF PopFront, DataInv, SlotInv
  <2>3. CASE queue[victim[w]] # <<>>
    <3>1. Head(queue[victim[w]]) \in Tasks /\ Tail(queue[victim[w]]) \in Seq(Tasks)
      BY <2>1, <2>3, HeadTailProperties DEF DataInv, TypeOK
    <3>2. TypeOK'
      <4>1. pc' \in [Workers -> Labels]
        <5>1. pc \in [Workers -> Labels]  BY DEF DataInv, TypeOK
        <5>2. pc' = [pc EXCEPT ![w] = "done_task"]  BY <1>3, <2>3 DEF PopFront
        <5> QED  BY <5>1, <5>2 DEF Labels
      <4>2. cur' \in [Workers -> Tasks \cup {NoTask}]
        <5>1. cur \in [Workers -> Tasks \cup {NoTask}]  BY DEF DataInv, TypeOK
        <5>2. cur' = [cur EXCEPT ![w] = Head(queue[victim[w]])]
          BY <1>3, <2>3 DEF PopFront
        <5> QED  BY <3>1, <5>1, <5>2
      <4>3. queue' \in [Workers -> Seq(Tasks)]
        BY <1>3, <2>3, <3>1 DEF PopFront, DataInv, TypeOK
      <4> QED  BY <1>3, <2>1, <2>3, <4>1, <4>2, <4>3 DEF PopFront, DataInv, TypeOK
    <3>3. RunInv'  BY <1>3, <2>3, <3>1 DEF PopFront, DataInv, TypeOK, RunInv, Running
    <3> QED  BY <1>3, <3>2, <3>3 DEF PopFront, DataInv, SlotInv
  <2> QED  BY <2>2, <2>3
<1>4. CASE DoneTask(w)
  BY <1>4 DEF DoneTask, DataInv, TypeOK, SlotInv, RunInv, Labels, Running
<1> QED  BY <1>1, <1>2, <1>3, <1>4

\* One output dependency of a task names a task and one of its inputs.
LEMMA OutTypes ==
    ASSUME NEW t \in Tasks, NEW i \in DOMAIN Out[t]
    PROVE  Out[t][i][1] \in Tasks /\ Out[t][i][2] \in Flows
<1>1. Out[t] \in Seq(Tasks \X Flows)  BY TasksAssumption
<1>2. Out[t][i] \in Tasks \X Flows  BY <1>1, LenProperties, ElementOfSeq
<1> QED  BY <1>2

LEMMA ReleaseData ==
    ASSUME DataInv, NEW w \in Workers,
           Execute(w) \/ BodyEnds(w) \/ ReadMask(w) \/ OrMask(w)
    PROVE  DataInv'
<1> USE DEF Goto, appVars
<1>0. pc \in [Workers -> Labels] /\ (pc[w] \in Running => cur[w] \in Tasks)
  BY DEF DataInv, TypeOK, RunInv
<1>1. CASE Execute(w)
  <2>1. pc' \in [Workers -> Labels] /\ status' \in [Tasks -> {"waiting", "running", "done"}]
    BY <1>1 DEF Execute, DataInv, TypeOK, Labels
  <2>2. TypeOK'  BY <1>1, <2>1 DEF Execute, DataInv, TypeOK
  <2>3. RunInv'  BY <1>0, <1>1 DEF Execute, DataInv, RunInv, Running
  <2> QED  BY <1>1, <2>2, <2>3 DEF Execute, DataInv, SlotInv
<1>2. CASE BodyEnds(w)
  <2>1. /\ pc' \in [Workers -> Labels] /\ status' \in [Tasks -> {"waiting", "running", "done"}]
        /\ edge' \in [Workers -> Nat]
    BY <1>2 DEF BodyEnds, DataInv, TypeOK, Labels
  <2>2. TypeOK'  BY <1>2, <2>1 DEF BodyEnds, DataInv, TypeOK
  <2>3. RunInv'  BY <1>0, <1>2 DEF BodyEnds, DataInv, RunInv, Running
  <2> QED  BY <1>2, <2>2, <2>3 DEF BodyEnds, DataInv, SlotInv
<1>3. CASE ReadMask(w)
  <2>1. cur[w] \in Tasks /\ edge[w] \in DOMAIN Out[cur[w]]
    BY <1>0, <1>3 DEF ReadMask, Running
  <2> DEFINE succ == Out[cur[w]][edge[w]][1]
             flow == Out[cur[w]][edge[w]][2]
             mask == {InDone, flow} \cup (IF InDone \in deps[succ] THEN {} ELSE Direct[succ])
  <2>2. succ \in Tasks /\ flow \in Flows  BY <2>1, OutTypes
  <2>3. mask \in SUBSET (Flows \cup {InDone})
    <3>1. Direct[succ] \in SUBSET Flows  BY <2>2, TasksAssumption
    <3> QED  BY <2>2, <3>1
  <2>4. newmask' = [newmask EXCEPT ![w] = mask]  BY <1>3 DEF ReadMask
  <2> HIDE DEF mask
  <2>5. newmask' \in [Workers -> SUBSET (Flows \cup {InDone})]
    BY <2>3, <2>4 DEF DataInv, TypeOK
  <2>6. pc' = [pc EXCEPT ![w] = "or"] /\ pc' \in [Workers -> Labels]
    BY <1>0, <1>3 DEF ReadMask, Labels
  <2>7. TypeOK'  BY <1>3, <2>5, <2>6 DEF ReadMask, DataInv, TypeOK
  <2>8. RunInv'  BY <1>0, <1>3, <2>1, <2>6 DEF ReadMask, DataInv, RunInv, Running
  <2> QED  BY <1>3, <2>7, <2>8 DEF ReadMask, DataInv, SlotInv
<1>4. CASE OrMask(w)
  <2>1. cur[w] \in Tasks /\ edge[w] \in DOMAIN Out[cur[w]]
    BY <1>4 DEF OrMask, DataInv, RunInv, Running
  <2> DEFINE succ == Out[cur[w]][edge[w]][1]
             mask == deps[succ] \cup newmask[w]
             list == AddByPriority(ready[w], succ, Priority)
  <2>2. succ \in Tasks  BY <2>1, OutTypes
  <2>3. mask \in SUBSET (Flows \cup {InDone})  BY <2>2 DEF DataInv, TypeOK
  <2>4. list \in Seq(Tasks)
    <3>1. Priority \in [Tasks -> Int]  BY TasksAssumption
    <3>2. ready[w] \in Seq(Tasks)  BY DEF DataInv, TypeOK
    <3> QED  BY <2>2, <3>1, <3>2, AddByPriorityType
  <2>5. /\ deps' = [deps EXCEPT ![succ] = mask]
        /\ UNCHANGED ready \/ ready' = [ready EXCEPT ![w] = list]
        /\ pc' = [pc EXCEPT ![w] = "release"] /\ edge' = [edge EXCEPT ![w] = @ + 1]
    BY <1>4 DEF OrMask
  <2> HIDE DEF mask, list
  <2>6. deps' \in [Tasks -> SUBSET (Flows \cup {InDone})]  BY <2>3, <2>5 DEF DataInv, TypeOK
  <2>7. ready' \in [Workers -> Seq(Tasks)]  BY <2>4, <2>5 DEF DataInv, TypeOK
  <2>8. pc' \in [Workers -> Labels] /\ edge' \in [Workers -> Nat]
    BY <1>0, <2>5 DEF DataInv, TypeOK, Labels
  <2>9. TypeOK'  BY <1>4, <2>6, <2>7, <2>8 DEF OrMask, DataInv, TypeOK
  <2>10. RunInv'  BY <1>0, <1>4, <2>1, <2>5, SMTT(20) DEF OrMask, DataInv, RunInv, Running
  <2> QED  BY <1>4, <2>9, <2>10 DEF OrMask, DataInv, SlotInv
<1> QED  BY <1>1, <1>2, <1>3, <1>4

LEMMA LesserOf ==
    ASSUME NEW a \in Nat, NEW b \in Nat
    PROVE  /\ (IF a < b THEN a ELSE b) \in 0..b
           /\ (IF a < b THEN a ELSE b) <= a
  OBVIOUS

\* The placeholder takes what fits in it, the queue the rest.
LEMMA ScheduleData ==
    ASSUME DataInv, NEW w \in Workers, Schedule(w) \/ SpinLock(w) \/ Push(w)
    PROVE  DataInv'
<1> USE DEF Goto, appVars
<1>0. /\ pc \in [Workers -> Labels] /\ lock \in [Workers -> Workers \cup {Nobody}]
      /\ ready \in [Workers -> Seq(Tasks)] /\ slot \in [Workers -> Seq(Tasks)]
      /\ queue \in [Workers -> Seq(Tasks)] /\ cur \in [Workers -> Tasks \cup {NoTask}]
  BY DEF DataInv, TypeOK
<1>1. CASE Schedule(w)
  <2> DEFINE n    == IF Room(w) < Len(ready[w]) THEN Room(w) ELSE Len(ready[w])
             fits == SubSeq(ready[w], 1, n)
             rest == SubSeq(ready[w], n + 1, Len(ready[w]))
  <2>1. /\ Len(ready[w]) \in Nat /\ Len(slot[w]) \in Nat /\ PlaceholderSize \in Nat
        /\ Len(slot[w]) < PlaceholderSize
    BY <1>0, LenProperties, TasksAssumption DEF DataInv, SlotInv
  <2>2. n \in 0..Len(ready[w]) /\ n <= PlaceholderSize - 1 - Len(slot[w])
    <3>1. Room(w) = PlaceholderSize - 1 - Len(slot[w])  BY DEF Room
    <3>2. Room(w) \in Nat  BY <2>1, <3>1
    <3>3. n \in 0..Len(ready[w]) /\ n <= Room(w)  BY <2>1, <3>2, LesserOf
    <3> HIDE DEF n
    <3> QED  BY <3>1, <3>3
  <2>3. \A i \in 1..Len(ready[w]) : ready[w][i] \in Tasks  BY <1>0, ElementOfSeq
  <2>4. /\ slot' = [slot EXCEPT ![w] = @ \o fits] /\ ready' = [ready EXCEPT ![w] = rest]
        /\ cur' = [cur EXCEPT ![w] = NoTask]
        /\ \E l \in {"loop", "push"} : pc' = [pc EXCEPT ![w] = l]
    BY <1>1 DEF Schedule
  <2> HIDE DEF n
  <2>5. /\ fits \in Seq(Tasks) /\ Len(fits) = n
        /\ rest \in Seq(Tasks)
    BY <2>1, <2>2, <2>3, SubSeqProperties
  <2> HIDE DEF fits, rest
  <2>6. /\ slot[w] \o fits \in Seq(Tasks)
        /\ Len(slot[w] \o fits) < PlaceholderSize
    <3>1. /\ slot[w] \o fits \in Seq(Tasks)
          /\ Len(slot[w] \o fits) = Len(slot[w]) + Len(fits)
      BY <1>0, <2>5, ConcatProperties, ZenonT(30)
    <3> QED  BY <2>1, <2>2, <2>5, <3>1
  <2>7. /\ slot' \in [Workers -> Seq(Tasks)] /\ ready' \in [Workers -> Seq(Tasks)]
        /\ cur' \in [Workers -> Tasks \cup {NoTask}] /\ pc' \in [Workers -> Labels]
    BY <1>0, <2>4, <2>5, <2>6 DEF Labels
  <2>8. TypeOK'  BY <1>1, <2>7 DEF Schedule, DataInv, TypeOK
  <2>9. SlotInv'  BY <1>0, <2>4, <2>6 DEF DataInv, SlotInv
  <2>10. RunInv'  BY <1>0, <1>1, <2>4 DEF Schedule, DataInv, RunInv, Running
  <2> QED  BY <2>8, <2>9, <2>10 DEF DataInv
<1>2. CASE SpinLock(w)
  <2>1. lock' \in [Workers -> Workers \cup {Nobody}] /\ pc' \in [Workers -> Labels]
    <3>1. lock' = [lock EXCEPT ![w] = w] /\ pc' = [pc EXCEPT ![w] = "push_locked"]
      BY <1>2 DEF SpinLock
    <3>2. lock' \in [Workers -> Workers \cup {Nobody}]  BY <1>0, <3>1
    <3> QED  BY <1>0, <3>1, <3>2 DEF Labels
  <2>2. TypeOK'  BY <1>2, <2>1 DEF SpinLock, DataInv, TypeOK
  <2>3. RunInv'  BY <1>0, <1>2 DEF SpinLock, DataInv, RunInv, Running
  <2> QED  BY <1>2, <2>2, <2>3 DEF SpinLock, DataInv, SlotInv
<1>3. CASE Push(w)
  <2>1. /\ queue' = [queue EXCEPT ![w] = PushList(@, ready[w])]
        /\ ready' = [ready EXCEPT ![w] = <<>>] /\ lock' = [lock EXCEPT ![w] = Nobody]
        /\ pc' = [pc EXCEPT ![w] = "loop"]
    BY <1>3 DEF Push
  <2>2. PushList(queue[w], ready[w]) \in Seq(Tasks)
    BY <1>0, ConcatProperties DEF PushList
  <2>3. queue' \in [Workers -> Seq(Tasks)]  BY <1>0, <2>1, <2>2
  <2>4. ready' \in [Workers -> Seq(Tasks)]  BY <1>0, <2>1, EmptySeq
  <2>5. lock' \in [Workers -> Workers \cup {Nobody}]  BY <1>0, <2>1
  <2>6. pc' \in [Workers -> Labels]  BY <1>0, <2>1 DEF Labels
  <2>7. TypeOK'  BY <1>3, <2>3, <2>4, <2>5, <2>6 DEF Push, DataInv, TypeOK
  <2>8. RunInv'  BY <1>0, <1>3 DEF Push, DataInv, RunInv, Running
  <2> QED  BY <1>3, <2>7, <2>8 DEF Push, DataInv, SlotInv
<1> QED  BY <1>1, <1>2, <1>3

LEMMA NextDataInv == ASSUME DataInv, [Next]_vars PROVE DataInv'
<1>1. ASSUME NEW w \in Workers, Step(w) PROVE DataInv'
  BY <1>1, BarrierData, ChooseData, ReleaseData, ScheduleData DEF Step
<1>2. CASE UNCHANGED vars
  BY <1>2 DEF vars, DataInv, TypeOK, SlotInv, RunInv
<1> QED  BY <1>1, <1>2, AppData DEF Next, Ended

-----------------------------------------------------------------------------
LEMMA Invariance == Spec => [](DataInv /\ PhaseInv)
<1>1. Init => DataInv /\ PhaseInv  BY InitDataInv, InitPhaseInv
<1>2. ASSUME DataInv, PhaseInv, [Next]_vars PROVE (DataInv /\ PhaseInv)'
  <2>1. TypeOK /\ PhaseTypes  BY <1>2 DEF DataInv, TypeOK, PhaseTypes
  <2> QED  BY <1>2, <2>1, NextDataInv, NextPhaseInv
<1> QED  BY <1>1, <1>2, PTL DEF Spec

\* The types of the engine's state; every victim is a thread, every list holds
\* tasks and a dependency mask only the bits of its flows.
THEOREM TypeCorrect == Spec => []TypeOK
<1>1. DataInv => TypeOK  BY DEF DataInv
<1> QED  BY <1>1, Invariance, PTL

\* While the application runs between two rounds, and while dague_fini is on
\* its way to its barrier, every other thread is parked: dague_enqueue changes
\* taskstodo and the queue of thread 0 with nobody else near them.
THEOREM AloneCorrect == Spec => []ApplicationRunsAlone
<1>1. ASSUME DataInv, PhaseInv PROVE ApplicationRunsAlone
  <2>1. SUFFICES ASSUME pc[Master] \in {"app", "fini"}, NEW w \in Workers \ {Master}
                 PROVE  pc[w] \in Parked
    BY DEF ApplicationRunsAlone
  <2>2. PhaseTypes /\ pc[w] \in Labels  BY <1>1 DEF DataInv, TypeOK, PhaseTypes
  <2>3. /\ bar[Master] = 2 * fincount - 1 /\ bar[w] >= bar[Master]
        /\ bar[Master] >= (IF pc[w] \in Waiting THEN bar[w] - 1 ELSE bar[w])
    BY <1>1, <2>1, MasterIsWorker
       DEF PhaseInv, PlaceInv, Place, LockstepInv, Counted, Waiting
  <2>4. pc[w] \in Waiting \cup {"start"}
    BY <1>1, <2>1, <2>2, <2>3, MasterIsWorker
       DEF PhaseInv, PlaceInv, Place, Counted, PhaseTypes, Working, Waiting, Labels
  <2> QED  BY <1>1, <2>1, <2>4 DEF PhaseInv, PlaceInv, Place, Waiting, Parked
<1> QED  BY <1>1, Invariance, PTL

\* A thread that leaves the start barrier while the program finishes has met
\* every barrier of the other threads: dague_fini strands nobody.
THEOREM FiniCorrect == Spec => []NoBarrierOwed
<1>1. PhaseInv => NoBarrierOwed  BY DEF PhaseInv, PlaceInv, Place, NoBarrierOwed
<1> QED  BY <1>1, Invariance, PTL

-----------------------------------------------------------------------------
(* The places of the tasks.                                                *)

\* The places a task can be in once it is ready: a thread's dequeue, its
\* placeholder, the list of its release, its hands.
Places == {"queue", "slot", "ready", "cur"} \X Workers

HeldBy(q, s, r, c, at) ==
    [a \in Places |->
        IF a[1] = "queue" THEN Range(q[a[2]])
        ELSE IF a[1] = "slot" THEN Range(s[a[2]])
        ELSE IF a[1] = "ready" THEN Range(r[a[2]])
        ELSE IF at[a[2]] \in Running THEN {c[a[2]]} ELSE {}]
Held == HeldBy(queue, slot, ready, cur, pc)

\* No task is in two places, or twice in one.
Apart(held) == \A a, b \in Places : a # b => held[a] \cap held[b] = {}
ListsInv ==
    \A w \in Workers : IsInjective(queue[w]) /\ IsInjective(slot[w]) /\ IsInjective(ready[w])

\* All the inputs of a task are there. This never becomes false again.
Available(t) == ObjectOf[t] <= enqueued /\ (CanStart(t) \/ Goal[t] \subseteq deps[t])

\* Only such tasks are in a place, and those in a list have not run.
HeldInv ==
    \A a \in Places : \A t \in Held[a] :
        Available(t) /\ (a[1] # "cur" => status[t] = "waiting")

StatusInv ==
    \A t \in Tasks :
        /\ status[t] # "waiting" => Available(t)
        /\ status[t] = "running" => \E w \in Workers : pc[w] = "body" /\ cur[w] = t

CurInv ==
    \A w \in Workers :
        /\ pc[w] \in {"done_task", "execute"} => status[cur[w]] = "waiting"
        /\ pc[w] = "body" => status[cur[w]] = "running"
        /\ pc[w] \in {"release", "or"} => status[cur[w]] = "done"

\* A flow is in the mask of a task only when its producer has released it:
\* the producer is done and, if its thread still releases, past this edge.
EdgeInv ==
    \A p \in Tasks : \A i \in DOMAIN Out[p] :
        Out[p][i][2] \in deps[Out[p][i][1]] =>
            /\ status[p] = "done"
            /\ \A w \in Workers : pc[w] \in {"release", "or"} /\ cur[w] = p => i < edge[w]

\* What a thread is about to add to a mask: the flow of this edge and inputs
\* nobody else releases.
MaskInv ==
    \A w \in Workers : pc[w] = "or" =>
        newmask[w] \subseteq {InDone, Out[cur[w]][edge[w]][2]} \cup Direct[Out[cur[w]][edge[w]][1]]

CoreInv ==
    /\ ListsInv /\ Apart(Held) /\ HeldInv
    /\ StatusInv /\ CurInv
    /\ EdgeInv /\ MaskInv
    /\ CountsTasksLeft

\* dague_wait is on its way out only when nothing is left to take.
EndInv == pc[Master] \in {"end", "end_wait"} => taskstodo = 0

GraphInv == CoreInv /\ EndInv /\ NothingLeftBehind

-----------------------------------------------------------------------------
(* Lists.                                                                  *)

LEMMA EmptyList == Range(<<>>) = {} /\ IsInjective(<<>>)
  BY DEF Range, IsInjective

LEMMA TailList ==
    ASSUME NEW s \in Seq(Tasks), s # <<>>, IsInjective(s)
    PROVE  /\ Head(s) \in Range(s) /\ Head(s) \in Tasks
           /\ Range(Tail(s)) = Range(s) \ {Head(s)}
           /\ IsInjective(Tail(s))
<1>1. /\ Len(s) \in Nat \ {0} /\ DOMAIN s = 1..Len(s)
      /\ Tail(s) \in Seq(Tasks) /\ DOMAIN Tail(s) = 1..(Len(s) - 1)
      /\ \A i \in 1..(Len(s) - 1) : Tail(s)[i] = s[i + 1]
      /\ Head(s) = s[1] /\ Head(s) \in Tasks
  BY EmptySeq, HeadTailProperties, LenProperties
<1>2. \A i \in 1..Len(s) : i = 1 \/ (i - 1 \in 1..(Len(s) - 1) /\ (i - 1) + 1 = i)
  BY <1>1
<1>3. \A i \in 1..(Len(s) - 1) : i + 1 \in 1..Len(s) /\ i + 1 # 1
  BY <1>1
<1>4. \A i \in 1..Len(s), j \in 1..Len(s) : s[i] = s[j] => i = j
  BY <1>1 DEF IsInjective
<1>5. IsInjective(Tail(s))
  <2>1. SUFFICES ASSUME NEW i \in 1..(Len(s) - 1), NEW j \in 1..(Len(s) - 1),
                        Tail(s)[i] = Tail(s)[j]
                 PROVE  i = j
    BY <1>1 DEF IsInjective
  <2>2. i + 1 = j + 1
    BY <1>1, <1>3, <1>4, <2>1
  <2> QED  BY <2>2
<1>6. ASSUME NEW i \in 1..(Len(s) - 1) PROVE Tail(s)[i] \in Range(s) /\ Tail(s)[i] # s[1]
  <2>1. Tail(s)[i] = s[i + 1] /\ i + 1 \in 1..Len(s) /\ i + 1 # 1 /\ 1 \in 1..Len(s)
    BY <1>1, <1>3
  <2> QED  BY <1>1, <1>4, <2>1 DEF Range
<1>7. ASSUME NEW i \in 1..Len(s), s[i] # s[1] PROVE s[i] \in Range(Tail(s))
  <2>1. i - 1 \in 1..(Len(s) - 1) /\ Tail(s)[i - 1] = s[i]
    BY <1>1, <1>2, <1>7
  <2> QED  BY <1>1, <2>1 DEF Range
<1>8. Range(s) = {s[i] : i \in 1..Len(s)} /\ Range(Tail(s)) = {Tail(s)[i] : i \in 1..(Len(s) - 1)}
  BY <1>1 DEF Range
<1>9. Range(Tail(s)) = Range(s) \ {s[1]}
  BY <1>6, <1>7, <1>8
<1>10. Head(s) \in Range(s)
  BY <1>1, <1>8
<1> QED  BY <1>1, <1>5, <1>9, <1>10

LEMMA ConcatList ==
    ASSUME NEW s \in Seq(Tasks), NEW t \in Seq(Tasks)
    PROVE  /\ Range(s \o t) = Range(s) \cup Range(t)
           /\ IsInjective(s) /\ IsInjective(t) /\ Range(s) \cap Range(t) = {} =>
                 IsInjective(s \o t)
           /\ IsInjective(s \o t) =>
                 IsInjective(s) /\ IsInjective(t) /\ Range(s) \cap Range(t) = {}
<1> DEFINE m == Len(s)
           n == Len(t)
           c == s \o t
<1>1. /\ m \in Nat /\ n \in Nat /\ DOMAIN s = 1..m /\ DOMAIN t = 1..n
      /\ DOMAIN c = 1..(m + n)
      /\ \A i \in 1..(m + n) : c[i] = IF i <= m THEN s[i] ELSE t[i - m]
  BY ConcatProperties, LenProperties
<1> HIDE DEF m, n, c
<1>2. \A i \in 1..m : i \in 1..(m + n) /\ c[i] = s[i]
  BY <1>1
<1>3. \A j \in 1..n : m + j \in 1..(m + n) /\ c[m + j] = t[j]
  <2>1. SUFFICES ASSUME NEW j \in 1..n PROVE m + j \in 1..(m + n) /\ c[m + j] = t[j]
    OBVIOUS
  <2>2. m + j \in 1..(m + n) /\ ~(m + j <= m) /\ (m + j) - m = j
    BY <1>1
  <2> QED  BY <1>1, <2>2
<1>4. \A i \in 1..(m + n) : i \in 1..m \/ \E j \in 1..n : i = m + j
  <2>1. SUFFICES ASSUME NEW i \in 1..(m + n), i \notin 1..m PROVE \E j \in 1..n : i = m + j
    OBVIOUS
  <2>2. i - m \in 1..n /\ i = m + (i - m)
    BY <1>1, <2>1
  <2> QED  BY <2>2
<1>5. Range(c) = Range(s) \cup Range(t)
  <2>1. /\ Range(c) = {c[i] : i \in 1..(m + n)}
        /\ Range(s) = {s[i] : i \in 1..m} /\ Range(t) = {t[j] : j \in 1..n}
    BY <1>1 DEF Range
  <2>2. \A i \in 1..(m + n) : c[i] \in Range(s) \cup Range(t)
    BY <1>2, <1>3, <1>4, <2>1
  <2>3. \A i \in 1..m : s[i] \in Range(c)
    BY <1>2, <2>1
  <2>4. \A j \in 1..n : t[j] \in Range(c)
    BY <1>3, <2>1
  <2> QED  BY <2>1, <2>2, <2>3, <2>4
<1>6. ASSUME IsInjective(s), IsInjective(t), Range(s) \cap Range(t) = {}
      PROVE  IsInjective(c)
  <2>1. \A i \in 1..m, j \in 1..n : s[i] # t[j]
    BY <1>1, <1>6 DEF Range
  <2>2. SUFFICES ASSUME NEW i \in 1..(m + n), NEW j \in 1..(m + n), c[i] = c[j] PROVE i = j
    BY <1>1 DEF IsInjective
  <2>3. \A k \in 1..m, l \in 1..m : s[k] = s[l] => k = l
    BY <1>1, <1>6 DEF IsInjective
  <2>4. \A k \in 1..n, l \in 1..n : t[k] = t[l] => k = l
    BY <1>1, <1>6 DEF IsInjective
  <2> QED  BY <1>2, <1>3, <1>4, <2>1, <2>2, <2>3, <2>4
<1>7. ASSUME IsInjective(c)
      PROVE  IsInjective(s) /\ IsInjective(t) /\ Range(s) \cap Range(t) = {}
  <2>1. \A i \in 1..(m + n), j \in 1..(m + n) : c[i] = c[j] => i = j
    BY <1>1, <1>7 DEF IsInjective
  <2>2. IsInjective(s)
    BY <1>1, <1>2, <2>1 DEF IsInjective
  <2>3. IsInjective(t)
    <3>1. SUFFICES ASSUME NEW i \in 1..n, NEW j \in 1..n, t[i] = t[j] PROVE i = j
      BY <1>1 DEF IsInjective
    <3>2. m + i = m + j
      BY <1>3, <2>1, <3>1
    <3> QED  BY <1>1, <3>2
  <2>4. \A i \in 1..m, j \in 1..n : s[i] # t[j]
    <3>1. SUFFICES ASSUME NEW i \in 1..m, NEW j \in 1..n, s[i] = t[j] PROVE FALSE
      OBVIOUS
    <3>2. i = m + j
      BY <1>2, <1>3, <2>1, <3>1
    <3> QED  BY <1>1, <3>2
  <2> QED  BY <1>1, <2>2, <2>3, <2>4 DEF Range
<1> QED  BY <1>5, <1>6, <1>7 DEF c

\* A list cut in two.
LEMMA SplitList ==
    ASSUME NEW s \in Seq(Tasks), IsInjective(s), NEW n \in 0..Len(s)
    PROVE  LET front == SubSeq(s, 1, n)
               rest  == SubSeq(s, n + 1, Len(s))
           IN  /\ front \in Seq(Tasks) /\ rest \in Seq(Tasks)
               /\ IsInjective(front) /\ IsInjective(rest)
               /\ Range(front) \cup Range(rest) = Range(s)
               /\ Range(front) \cap Range(rest) = {}
<1> DEFINE front == SubSeq(s, 1, n)
           rest  == SubSeq(s, n + 1, Len(s))
<1>1. Len(s) \in Nat /\ \A i \in 1..Len(s) : s[i] \in Tasks
  BY LenProperties, ElementOfSeq
<1>2. front \in Seq(Tasks) /\ rest \in Seq(Tasks)
  BY <1>1, SubSeqProperties
<1>3. front \o rest = s
  <2>1. 1 \in 1..(Len(s) + 1) /\ n \in (1 - 1)..Len(s) /\ Len(s) \in n..Len(s)
    BY <1>1
  <2>2. SubSeq(s, 1, n) \o SubSeq(s, n + 1, Len(s)) = SubSeq(s, 1, Len(s))
    BY <2>1, ConcatAdjacentSubSeq
  <2> QED  BY <2>2, SubSeqFull
<1> HIDE DEF front, rest
<1>4. /\ IsInjective(front) /\ IsInjective(rest)
      /\ Range(front) \cup Range(rest) = Range(s)
      /\ Range(front) \cap Range(rest) = {}
  BY <1>2, <1>3, ConcatList
<1> QED  BY <1>2, <1>4 DEF front, rest

LEMMA InsertList ==
    ASSUME NEW s \in Seq(Tasks), IsInjective(s), NEW t \in Tasks, t \notin Range(s)
    PROVE  LET next == AddByPriority(s, t, Priority)
           IN  Range(next) = Range(s) \cup {t} /\ IsInjective(next)
<1>1. Priority \in [Tasks -> Int]
  BY TasksAssumption
<1>2. PICK n \in 0..Len(s) : AddByPriority(s, t, Priority) = InsertAfter(s, n, t)
  BY <1>1, AddByPriorityInserts
<1> DEFINE front == SubSeq(s, 1, n)
           rest  == SubSeq(s, n + 1, Len(s))
           one   == <<t>>
<1>3. /\ front \in Seq(Tasks) /\ rest \in Seq(Tasks)
      /\ IsInjective(front) /\ IsInjective(rest)
      /\ Range(front) \cup Range(rest) = Range(s)
      /\ Range(front) \cap Range(rest) = {}
  BY SplitList
<1>4. one \in Seq(Tasks) /\ Range(one) = {t} /\ IsInjective(one)
  BY DEF Range, IsInjective
<1>5. AddByPriority(s, t, Priority) = (front \o one) \o rest
  BY <1>2 DEF InsertAfter
<1> HIDE DEF front, rest, one
<1>6. /\ front \o one \in Seq(Tasks)
      /\ Range(front \o one) = Range(front) \cup {t}
      /\ IsInjective(front \o one)
  BY <1>3, <1>4, ConcatList, ConcatProperties
<1> DEFINE m == front \o one
<1> HIDE DEF m
<1>7. Range(m) \cap Range(rest) = {} /\ Range(m) \cup Range(rest) = Range(s) \cup {t}
  BY <1>3, <1>6 DEF m
<1>8. m \in Seq(Tasks) /\ IsInjective(m)
  BY <1>6 DEF m
<1>9. Range(m \o rest) = Range(s) \cup {t} /\ IsInjective(m \o rest)
  BY <1>3, <1>7, <1>8, ConcatList
<1> QED  BY <1>5, <1>9 DEF m

LEMMA PushedList ==
    ASSUME NEW q \in Seq(Tasks), NEW list \in Seq(Tasks)
    PROVE  /\ Range(PushList(q, list)) = Range(q) \cup Range(list)
           /\ IsInjective(q) /\ IsInjective(list) /\ Range(q) \cap Range(list) = {} =>
                 IsInjective(PushList(q, list))
<1>1. CASE PushList(q, list) = list \o q
  BY <1>1, ConcatList
<1>2. CASE PushList(q, list) = q \o list
  BY <1>2, ConcatList
<1> QED  BY <1>1, <1>2 DEF PushList

\* A task comes into a place nobody else has it in, and leaves the others.
LEMMA ApartKept ==
    ASSUME NEW held, Apart(held), NEW next, NEW c \in Places, NEW X,
           \A a \in Places \ {c} : next[a] \subseteq held[a] \ X,
           next[c] \subseteq held[c] \cup X
    PROVE  Apart(next)
  BY DEF Apart

HeldIs(held, q, s, r, c, at, w) ==
    /\ held[<<"queue", w>>] = Range(q[w])
    /\ held[<<"slot", w>>] = Range(s[w])
    /\ held[<<"ready", w>>] = Range(r[w])
    /\ held[<<"cur", w>>] = IF at[w] \in Running THEN {c[w]} ELSE {}

LEMMA HeldByIs ==
    ASSUME NEW q, NEW s, NEW r, NEW c, NEW at, NEW w \in Workers
    PROVE  HeldIs(HeldBy(q, s, r, c, at), q, s, r, c, at, w)
<1> DEFINE held == HeldBy(q, s, r, c, at)
           Of(k) == IF k = "queue" THEN Range(q[w])
                    ELSE IF k = "slot" THEN Range(s[w])
                    ELSE IF k = "ready" THEN Range(r[w])
                    ELSE IF at[w] \in Running THEN {c[w]} ELSE {}
           Kinds == {"queue", "slot", "ready", "cur"}
<1>1. ASSUME NEW k \in Kinds PROVE held[<<k, w>>] = Of(k)
  <2>1. <<k, w>> \in Places /\ <<k, w>>[1] = k /\ <<k, w>>[2] = w
    BY DEF Places
  <2> DEFINE a == <<k, w>>
  <2> HIDE DEF a
  <2>2. a \in Places /\ a[1] = k /\ a[2] = w
    BY <2>1 DEF a
  <2>3. held[a] = Of(k)
    BY <2>2 DEF HeldBy
  <2> QED  BY <2>3 DEF a
<1>2. Of("queue") = Range(q[w])
  OBVIOUS
<1>3. Of("slot") = Range(s[w])
  OBVIOUS
<1>4. Of("ready") = Range(r[w])
  OBVIOUS
<1>5. Of("cur") = IF at[w] \in Running THEN {c[w]} ELSE {}
  OBVIOUS
<1> HIDE DEF held, Of
<1>6. /\ held[<<"queue", w>>] = Of("queue") /\ held[<<"slot", w>>] = Of("slot")
      /\ held[<<"ready", w>>] = Of("ready") /\ held[<<"cur", w>>] = Of("cur")
  BY <1>1
<1> QED  BY <1>2, <1>3, <1>4, <1>5, <1>6 DEF held, HeldIs

LEMMA HeldAt ==
    ASSUME NEW w \in Workers
    PROVE  /\ Held[<<"queue", w>>] = Range(queue[w])
           /\ Held[<<"slot", w>>] = Range(slot[w])
           /\ Held[<<"ready", w>>] = Range(ready[w])
           /\ Held[<<"cur", w>>] = IF pc[w] \in Running THEN {cur[w]} ELSE {}
           /\ Held'[<<"queue", w>>] = Range(queue'[w])
           /\ Held'[<<"slot", w>>] = Range(slot'[w])
           /\ Held'[<<"ready", w>>] = Range(ready'[w])
           /\ Held'[<<"cur", w>>] = IF pc'[w] \in Running THEN {cur'[w]} ELSE {}
<1>1. /\ Held = HeldBy(queue, slot, ready, cur, pc)
      /\ Held' = HeldBy(queue', slot', ready', cur', pc')
  BY DEF Held, HeldBy
<1>2. /\ HeldIs(Held, queue, slot, ready, cur, pc, w)
      /\ HeldIs(Held', queue', slot', ready', cur', pc', w)
  BY <1>1, HeldByIs
<1> QED  BY <1>2 DEF HeldIs

LEMMA PlaceIs ==
    ASSUME NEW a \in Places
    PROVE  \E w \in Workers : \/ a = <<"queue", w>> \/ a = <<"slot", w>>
                              \/ a = <<"ready", w>> \/ a = <<"cur", w>>
  BY DEF Places

LEMMA PlaceOf ==
    ASSUME NEW k \in {"queue", "slot", "ready", "cur"}, NEW w \in Workers
    PROVE  /\ <<k, w>> \in Places /\ <<k, w>>[1] = k
           /\ \A l, v : <<l, v>> = <<k, w>> <=> l = k /\ v = w
  BY DEF Places

\* The places after a step, when nothing comes or goes, or tasks do at one
\* place; the rest of the state a release depends on.
Same == \A a \in Places : Held'[a] = Held[a]
Moves(from, to, X) ==
    \A a \in Places : Held'[a] = IF a = to THEN Held[a] \cup X
                                 ELSE IF a = from THEN Held[a] \ X
                                 ELSE Held[a]
Steady == UNCHANGED <<deps, edge, newmask, status, enqueued>>

LEMMA SameWhen ==
    ASSUME NEW w \in Workers, UNCHANGED <<queue, slot, ready, cur>>,
           pc \in [Workers -> Labels],
           NEW l, pc' = [pc EXCEPT ![w] = l], l \in Running <=> pc[w] \in Running
    PROVE  Same /\ (ListsInv => ListsInv')
<1>1. ASSUME NEW v \in Workers PROVE pc'[v] \in Running <=> pc[v] \in Running
  BY <1>1
<1>2. ASSUME NEW a \in Places PROVE Held'[a] = Held[a]
  <2>1. PICK v \in Workers : \/ a = <<"queue", v>> \/ a = <<"slot", v>>
                             \/ a = <<"ready", v>> \/ a = <<"cur", v>>
    BY PlaceIs
  <2>2. CASE a = <<"queue", v>>  BY <2>2, HeldAt
  <2>3. CASE a = <<"slot", v>>  BY <2>3, HeldAt
  <2>4. CASE a = <<"ready", v>>  BY <2>4, HeldAt
  <2>5. CASE a = <<"cur", v>>
    <3>1. /\ Held[a] = IF pc[v] \in Running THEN {cur[v]} ELSE {}
          /\ Held'[a] = IF pc'[v] \in Running THEN {cur'[v]} ELSE {}
      BY <2>5, HeldAt
    <3>2. cur'[v] = cur[v]
      OBVIOUS
    <3>3. CASE pc[v] \in Running  BY <1>1, <3>1, <3>2, <3>3
    <3>4. CASE pc[v] \notin Running  BY <1>1, <3>1, <3>4
    <3> QED  BY <3>3, <3>4
  <2> QED  BY <2>1, <2>2, <2>3, <2>4, <2>5
<1>3. Same
  BY <1>2 DEF Same
<1>4. ListsInv => ListsInv'
  BY DEF ListsInv
<1> QED  BY <1>3, <1>4

\* A thread that ran no task takes t from a dequeue or a placeholder.
Takes(w, from, t) ==
    /\ pc[w] \notin Running
    /\ from \in Places /\ from[1] \in {"queue", "slot"} /\ t \in Held[from] /\ t \in Tasks
    /\ Goto(w, "done_task") /\ cur' = [cur EXCEPT ![w] = t]
    /\ Moves(from, <<"cur", w>>, {t})
    /\ ListsInv'
    /\ Steady /\ UNCHANGED taskstodo

LEMMA TakesMoves ==
    ASSUME DataInv, NEW w \in Workers, pc[w] \notin Running, Goto(w, "done_task"),
           NEW t, cur' = [cur EXCEPT ![w] = t], UNCHANGED ready,
           NEW k \in {"queue", "slot"}, NEW u \in Workers,
           Held'[<<k, u>>] = Held[<<k, u>>] \ {t},
           \A v \in Workers : <<"queue", v>> # <<k, u>> => queue'[v] = queue[v],
           \A v \in Workers : <<"slot", v>> # <<k, u>> => slot'[v] = slot[v]
    PROVE  Moves(<<k, u>>, <<"cur", w>>, {t})
<1> DEFINE from == <<k, u>>
           to   == <<"cur", w>>
<1>1. /\ cur'[w] = t /\ \A v \in Workers \ {w} : cur'[v] = cur[v]
      /\ pc'[w] \in Running /\ pc[w] \notin Running /\ \A v \in Workers \ {w} : pc'[v] = pc[v]
  BY DEF DataInv, TypeOK, Goto, Running
<1>2. from \in Places /\ to \in Places
  BY PlaceOf
<1>3. /\ \A v \in Workers : <<"queue", v>> # from => queue'[v] = queue[v]
      /\ \A v \in Workers : <<"slot", v>> # from => slot'[v] = slot[v]
      /\ \A v \in Workers : <<"ready", v>> # from
      /\ \A v \in Workers : <<"cur", v>> # from
  BY PlaceOf
<1>4. /\ \A v \in Workers : <<"queue", v>> # to /\ <<"slot", v>> # to /\ <<"ready", v>> # to
      /\ \A v \in Workers : <<"cur", v>> = to <=> v = w
  BY PlaceOf
<1>5. Held'[from] = Held[from] \ {t}
  OBVIOUS
<1> HIDE DEF from, to
<1>6. ASSUME NEW a \in Places
      PROVE  Held'[a] = IF a = to THEN Held[a] \cup {t}
                        ELSE IF a = from THEN Held[a] \ {t} ELSE Held[a]
  <2>1. PICK v \in Workers : \/ a = <<"queue", v>> \/ a = <<"slot", v>>
                             \/ a = <<"ready", v>> \/ a = <<"cur", v>>
    BY PlaceIs
  <2>2. CASE a = <<"queue", v>>
    <3>1. Held[a] = Range(queue[v]) /\ Held'[a] = Range(queue'[v])  BY <2>2, HeldAt
    <3> QED  BY <1>3, <1>4, <1>5, <2>2, <3>1
  <2>3. CASE a = <<"slot", v>>
    <3>1. Held[a] = Range(slot[v]) /\ Held'[a] = Range(slot'[v])  BY <2>3, HeldAt
    <3> QED  BY <1>3, <1>4, <1>5, <2>3, <3>1
  <2>4. CASE a = <<"ready", v>>
    <3>1. Held[a] = Range(ready[v]) /\ Held'[a] = Range(ready'[v])  BY <2>4, HeldAt
    <3> QED  BY <1>3, <1>4, <2>4, <3>1
  <2>5. CASE a = <<"cur", v>>
    <3>1. a # from /\ (a = to <=> v = w)  BY <1>3, <1>4, <2>5
    <3>2. /\ Held[a] = IF pc[v] \in Running THEN {cur[v]} ELSE {}
          /\ Held'[a] = IF pc'[v] \in Running THEN {cur'[v]} ELSE {}
      BY <2>5, HeldAt
    <3>3. CASE v = w  BY <1>1, <3>1, <3>2, <3>3
    <3>4. CASE v # w  BY <1>1, <3>1, <3>2, <3>4
    <3> QED  BY <3>3, <3>4
  <2> QED  BY <2>1, <2>2, <2>3, <2>4, <2>5
<1> QED  BY <1>6 DEF Moves, from, to

LEMMA LoopTakes ==
    ASSUME DataInv, ListsInv, NEW w \in Workers, Loop(w), taskstodo # 0, slot[w] # <<>>
    PROVE  Takes(w, <<"slot", w>>, Head(slot[w]))
<1> DEFINE t == Head(slot[w])
<1>1. /\ pc[w] = "loop" /\ Goto(w, "done_task")
      /\ cur' = [cur EXCEPT ![w] = t] /\ slot' = [slot EXCEPT ![w] = Tail(@)]
      /\ UNCHANGED <<taskstodo, queue, ready>> /\ Steady
  BY DEF Loop, ChooseLocalJob, Steady, appVars
<1>2. slot \in [Workers -> Seq(Tasks)]
  BY DEF DataInv, TypeOK
<1>3. /\ t \in Range(slot[w]) /\ t \in Tasks
      /\ Range(Tail(slot[w])) = Range(slot[w]) \ {t}
      /\ IsInjective(Tail(slot[w]))
  BY <1>2, TailList DEF ListsInv
<1>4. slot'[w] = Tail(slot[w]) /\ \A v \in Workers \ {w} : slot'[v] = slot[v]
  BY <1>1, <1>2
<1>5. pc[w] \notin Running
  BY <1>1 DEF Running
<1>6. ListsInv'
  BY <1>1, <1>3, <1>4 DEF ListsInv
<1> HIDE DEF t
<1>7. t \in Held[<<"slot", w>>] /\ Held'[<<"slot", w>>] = Held[<<"slot", w>>] \ {t}
  BY <1>3, <1>4, HeldAt
<1>8. \A v \in Workers : <<"slot", v>> # <<"slot", w>> => slot'[v] = slot[v]
  BY <1>4
<1>9. Moves(<<"slot", w>>, <<"cur", w>>, {t})
  BY <1>1, <1>5, <1>7, <1>8, TakesMoves
<1>10. <<"slot", w>> \in Places /\ <<"slot", w>>[1] = "slot"
  BY PlaceOf
<1> QED  BY <1>1, <1>3, <1>5, <1>6, <1>7, <1>9, <1>10 DEF Takes, t

LEMMA PopTakes ==
    ASSUME DataInv, ListsInv, NEW w \in Workers, PopFront(w), queue[victim[w]] # <<>>
    PROVE  Takes(w, <<"queue", victim[w]>>, Head(queue[victim[w]]))
<1> DEFINE u == victim[w]
           t == Head(queue[u])
<1>1. /\ pc[w] \in {"own_locked", "steal_locked"} /\ Goto(w, "done_task")
      /\ cur' = [cur EXCEPT ![w] = t] /\ queue' = [queue EXCEPT ![u] = Tail(@)]
      /\ UNCHANGED <<taskstodo, slot, ready>> /\ Steady
  BY DEF PopFront, Steady, appVars
<1>2. queue \in [Workers -> Seq(Tasks)] /\ u \in Workers
  BY DEF DataInv, TypeOK
<1> HIDE DEF u
<1>3. /\ t \in Range(queue[u]) /\ t \in Tasks
      /\ Range(Tail(queue[u])) = Range(queue[u]) \ {t}
      /\ IsInjective(Tail(queue[u]))
  BY <1>2, TailList DEF ListsInv, u
<1>4. queue'[u] = Tail(queue[u]) /\ \A v \in Workers \ {u} : queue'[v] = queue[v]
  BY <1>1, <1>2
<1>5. pc[w] \notin Running
  BY <1>1 DEF Running
<1>6. ListsInv'
  BY <1>1, <1>3, <1>4 DEF ListsInv
<1> HIDE DEF t
<1>7. t \in Held[<<"queue", u>>] /\ Held'[<<"queue", u>>] = Held[<<"queue", u>>] \ {t}
  BY <1>2, <1>3, <1>4, HeldAt
<1>8. \A v \in Workers : <<"queue", v>> # <<"queue", u>> => queue'[v] = queue[v]
  BY <1>4
<1>9. Moves(<<"queue", u>>, <<"cur", w>>, {t})
  BY <1>1, <1>2, <1>5, <1>7, <1>8, TakesMoves
<1>10. <<"queue", u>> \in Places /\ <<"queue", u>>[1] = "queue"
  BY <1>2, PlaceOf
<1> QED  BY <1>1, <1>3, <1>5, <1>6, <1>7, <1>9, <1>10 DEF Takes, t, u

-----------------------------------------------------------------------------
(* The invariant, step by step.                                            *)

LEMMA AvailableKept ==
    ASSUME UNCHANGED <<deps, enqueued>>, NEW t
    PROVE  Available(t)' <=> Available(t)
  BY DEF Available

\* A step that neither starts nor ends a task, nor passes done_task.
LEMMA LeftKept ==
    ASSUME CountsTasksLeft, UNCHANGED <<taskstodo, enqueued, status>>,
           \A v \in Workers : pc'[v] = "execute" <=> pc[v] = "execute",
           \A v \in Workers : pc[v] = "execute" => cur'[v] = cur[v]
    PROVE  CountsTasksLeft'
<1>1. {cur[v] : v \in {u \in Workers : pc[u] = "execute"}}' =
         {cur[v] : v \in {u \in Workers : pc[u] = "execute"}}
  OBVIOUS
<1>2. Taken' = Taken
  BY <1>1 DEF Taken
<1> QED  BY <1>2 DEF CountsTasksLeft

\* A step that changes places only. What it moves, and whether the tasks in
\* hand are where CurInv wants them, is for each step to say.
LEMMA SteadyFlow ==
    ASSUME EdgeInv, MaskInv, Steady,
           \A v \in Workers : pc'[v] \in {"release", "or"} =>
               pc[v] \in {"release", "or"} /\ cur'[v] = cur[v],
           \A v \in Workers : pc'[v] = "or" => pc[v] = "or"
    PROVE  EdgeInv' /\ MaskInv'
<1>1. EdgeInv'
  BY DEF EdgeInv, Steady
<1>2. MaskInv'
  BY DEF MaskInv, Steady
<1> QED  BY <1>1, <1>2

LEMMA SteadyStatus ==
    ASSUME StatusInv, Steady,
           \A v \in Workers : pc[v] = "body" => pc'[v] = "body" /\ cur'[v] = cur[v]
    PROVE  StatusInv'
<1>1. \A t \in Tasks : Available(t)' <=> Available(t)
  BY AvailableKept DEF Steady
<1> QED  BY <1>1 DEF StatusInv, Steady

\* Everything stays where it is.
LEMMA QuietCore ==
    ASSUME DataInv, CoreInv, NEW w \in Workers, pc[w] \notin Running,
           NEW l, l \notin Running, Goto(w, l),
           UNCHANGED <<queue, slot, ready, cur, taskstodo>>, Steady
    PROVE  CoreInv'
<1>1. pc' = [pc EXCEPT ![w] = l] /\ pc \in [Workers -> Labels]
  BY DEF Goto, DataInv, TypeOK
<1>2. Same /\ ListsInv'
  BY <1>1, SameWhen DEF CoreInv
<1>3. Apart(Held')
  BY <1>2 DEF CoreInv, Apart, Same
<1>4. \A t : Available(t)' <=> Available(t)
  BY AvailableKept DEF Steady
<1>5. HeldInv'
  BY <1>2, <1>4 DEF CoreInv, HeldInv, Same, Steady
<1>6. StatusInv'
  BY <1>1, SteadyStatus DEF CoreInv, Running
<1>7. CurInv'
  BY <1>1 DEF CoreInv, CurInv, Steady, Running
<1>8. EdgeInv' /\ MaskInv'
  BY <1>1, SteadyFlow DEF CoreInv, Running
<1>9. CountsTasksLeft'
  BY <1>1, LeftKept DEF CoreInv, Running, Steady
<1> QED  BY <1>2, <1>3, <1>5, <1>6, <1>7, <1>8, <1>9 DEF CoreInv

LEMMA TakesCore ==
    ASSUME DataInv, CoreInv, NEW w \in Workers, NEW from, NEW t, Takes(w, from, t)
    PROVE  CoreInv'
<1> DEFINE to == <<"cur", w>>
<1>1. /\ pc' = [pc EXCEPT ![w] = "done_task"] /\ cur' = [cur EXCEPT ![w] = t]
      /\ pc \in [Workers -> Labels] /\ cur \in [Workers -> Tasks \cup {NoTask}]
      /\ pc[w] \notin Running /\ Steady /\ UNCHANGED taskstodo
  BY DEF Takes, Goto, DataInv, TypeOK
<1>2. /\ from \in Places /\ t \in Held[from] /\ t \in Tasks /\ from[1] # "cur"
      /\ ListsInv'
  BY DEF Takes
<1>3. to \in Places /\ to[1] = "cur" /\ Held[to] = {}
  BY <1>1, PlaceOf, HeldAt
<1> HIDE DEF to
<1>4. \A a \in Places : Held'[a] = IF a = to THEN Held[a] \cup {t}
                                   ELSE IF a = from THEN Held[a] \ {t} ELSE Held[a]
  BY DEF Takes, Moves, to
<1>5. Available(t) /\ status[t] = "waiting"
  BY <1>2 DEF CoreInv, HeldInv
<1>6. Apart(Held')
  <2>1. \A a \in Places \ {to} : Held'[a] \subseteq Held[a] \ {t}
    BY <1>2, <1>4 DEF CoreInv, Apart
  <2> QED  BY <1>3, <1>4, <2>1, ApartKept DEF CoreInv
<1>7. \A u : Available(u)' <=> Available(u)
  BY <1>1, AvailableKept DEF Steady
<1>8. HeldInv'
  <2>1. \A a \in Places : \A u \in Held'[a] : u \in Held[a] \/ (a = to /\ u = t)
    BY <1>4
  <2> QED  BY <1>1, <1>3, <1>5, <1>7, <2>1 DEF CoreInv, HeldInv, Steady
<1>9. StatusInv'
  BY <1>1, SteadyStatus DEF CoreInv, Running
<1>10. CurInv'
  BY <1>1, <1>5 DEF CoreInv, CurInv, Steady, Running
<1>11. EdgeInv' /\ MaskInv'
  BY <1>1, SteadyFlow DEF CoreInv, Running
<1>12. CountsTasksLeft'
  BY <1>1, LeftKept DEF CoreInv, Running, Steady
<1> QED  BY <1>2, <1>6, <1>8, <1>9, <1>10, <1>11, <1>12 DEF CoreInv

\* Two threads never have the same task in hand, and it is available.
LEMMA InHand ==
    ASSUME DataInv, CoreInv, NEW w \in Workers, pc[w] \in Running
    PROVE  /\ cur[w] \in Tasks /\ Available(cur[w])
           /\ \A v \in Workers \ {w} : pc[v] \in Running => cur[v] # cur[w]
           /\ \A a \in Places : a # <<"cur", w>> => cur[w] \notin Held[a]
<1>1. cur[w] \in Tasks
  BY DEF DataInv, RunInv
<1>2. Held[<<"cur", w>>] = {cur[w]} /\ <<"cur", w>> \in Places
  BY HeldAt, PlaceOf
<1>3. \A a \in Places : a # <<"cur", w>> => cur[w] \notin Held[a]
  BY <1>2 DEF CoreInv, Apart
<1>4. ASSUME NEW v \in Workers \ {w}, pc[v] \in Running PROVE cur[v] # cur[w]
  <2>1. Held[<<"cur", v>>] = {cur[v]} /\ <<"cur", v>> \in Places
    BY <1>4, HeldAt, PlaceOf
  <2>2. <<"cur", v>> # <<"cur", w>>
    BY <1>4
  <2> QED  BY <1>3, <2>1, <2>2
<1>5. Available(cur[w])
  BY <1>2 DEF CoreInv, HeldInv
<1> QED  BY <1>1, <1>3, <1>4, <1>5

LEMMA HeldTasks ==
    ASSUME DataInv, NEW a \in Places
    PROVE  Held[a] \subseteq Tasks
<1>1. PICK w \in Workers : \/ a = <<"queue", w>> \/ a = <<"slot", w>>
                           \/ a = <<"ready", w>> \/ a = <<"cur", w>>
  BY PlaceIs
<1>2. /\ Range(queue[w]) \subseteq Tasks /\ Range(slot[w]) \subseteq Tasks
      /\ Range(ready[w]) \subseteq Tasks
  <2>1. queue[w] \in Seq(Tasks) /\ slot[w] \in Seq(Tasks) /\ ready[w] \in Seq(Tasks)
    BY DEF DataInv, TypeOK
  <2> QED  BY <2>1, RangeOfSeq
<1>3. CASE a = <<"queue", w>>  BY <1>2, <1>3, HeldAt
<1>4. CASE a = <<"slot", w>>  BY <1>2, <1>4, HeldAt
<1>5. CASE a = <<"ready", w>>  BY <1>2, <1>5, HeldAt
<1>6. CASE a = <<"cur", w>>
  <2>1. Held[a] = IF pc[w] \in Running THEN {cur[w]} ELSE {}
    BY <1>6, HeldAt
  <2>2. pc[w] \in Running => cur[w] \in Tasks
    BY DEF DataInv, RunInv
  <2> QED  BY <2>1, <2>2
<1> QED  BY <1>1, <1>3, <1>4, <1>5, <1>6

\* A step of a task: it stays in its thread's hands.
LEMMA InHandKept ==
    ASSUME DataInv, CoreInv, NEW w \in Workers, pc[w] \in Running,
           NEW l \in Running, Goto(w, l),
           UNCHANGED <<queue, slot, ready, cur, deps, enqueued>>,
           \A t \in Tasks \ {cur[w]} : status'[t] = status[t]
    PROVE  ListsInv' /\ Apart(Held') /\ HeldInv'
<1>1. pc' = [pc EXCEPT ![w] = l] /\ pc \in [Workers -> Labels]
  BY DEF Goto, DataInv, TypeOK
<1>2. Same /\ ListsInv'
  BY <1>1, SameWhen DEF CoreInv
<1>3. Apart(Held')
  BY <1>2 DEF CoreInv, Apart, Same
<1>4. \A t : Available(t)' <=> Available(t)
  BY AvailableKept
<1>5. \A a \in Places : a[1] # "cur" => a # <<"cur", w>>
  OBVIOUS
<1>6. \A a \in Places : a[1] # "cur" => cur[w] \notin Held[a]
  BY <1>5, InHand
<1>7. \A a \in Places : Held[a] \subseteq Tasks
  BY HeldTasks
<1>8. HeldInv'
  BY <1>2, <1>4, <1>6, <1>7 DEF CoreInv, HeldInv, Same
<1> QED  BY <1>2, <1>3, <1>8

\* The tasks counted in taskstodo.
Left == {t \in Tasks : ObjectOf[t] <= enqueued} \ Taken

LEMMA LeftFinite == IsFiniteSet(Left) /\ Cardinality(Left) \in Nat
<1>1. Left \in SUBSET Tasks
  BY DEF Left
<1> QED  BY <1>1, TasksAssumption, FS_Subset, FS_CardinalityType

LEMMA DoneTaskCore ==
    ASSUME DataInv, CoreInv, NEW w \in Workers, DoneTask(w)
    PROVE  CoreInv'
<1>1. /\ pc[w] = "done_task" /\ pc[w] \in Running /\ pc' = [pc EXCEPT ![w] = "execute"]
      /\ Goto(w, "execute") /\ pc \in [Workers -> Labels] /\ taskstodo' = taskstodo - 1
      /\ UNCHANGED <<queue, slot, ready, cur, deps, edge, newmask, status, enqueued>>
  BY DEF DoneTask, Goto, DataInv, TypeOK, runVars, appVars, Running
<1>2. /\ cur[w] \in Tasks /\ Available(cur[w])
      /\ \A v \in Workers \ {w} : pc[v] \in Running => cur[v] # cur[w]
  BY <1>1, InHand
<1>3. ListsInv' /\ Apart(Held') /\ HeldInv'
  BY <1>1, InHandKept DEF Running
<1>4. Steady
  BY <1>1 DEF Steady
<1>5. StatusInv'
  BY <1>1, <1>4, SteadyStatus DEF CoreInv
<1>6. CurInv'
  BY <1>1 DEF CoreInv, CurInv
<1>7. EdgeInv' /\ MaskInv'
  BY <1>1, <1>4, SteadyFlow DEF CoreInv
<1>8. CountsTasksLeft'
  <2>1. status[cur[w]] = "waiting"
    BY <1>1 DEF CoreInv, CurInv
  <2>2. cur[w] \in Left
    BY <1>1, <1>2, <2>1 DEF Left, Taken, Available, Running
  <2>3. Taken' = Taken \cup {cur[w]}
    BY <1>1 DEF Taken
  <2>4. Left' = Left \ {cur[w]}
    BY <1>1, <2>3 DEF Left
  <2>5. Cardinality(Left \ {cur[w]}) = Cardinality(Left) - 1
    BY <2>2, LeftFinite, FS_RemoveElement
  <2>6. taskstodo = Cardinality(Left)
    BY DEF CoreInv, CountsTasksLeft, Left
  <2>7. taskstodo' = Cardinality(Left')
    BY <1>1, <2>4, <2>5, <2>6
  <2> QED  BY <2>7 DEF CountsTasksLeft, Left
<1> QED  BY <1>3, <1>5, <1>6, <1>7, <1>8 DEF CoreInv

LEMMA ExecuteCore ==
    ASSUME DataInv, CoreInv, NEW w \in Workers, Execute(w)
    PROVE  CoreInv'
<1> DEFINE t == cur[w]
<1>1. /\ pc[w] = "execute" /\ pc[w] \in Running /\ pc' = [pc EXCEPT ![w] = "body"]
      /\ Goto(w, "body") /\ pc \in [Workers -> Labels]
      /\ status' = [status EXCEPT ![t] = "running"]
      /\ status \in [Tasks -> {"waiting", "running", "done"}]
      /\ UNCHANGED <<taskstodo, queue, slot, ready, cur, deps, edge, newmask, enqueued>>
  BY DEF Execute, Goto, DataInv, TypeOK, appVars, Running
<1>2. /\ t \in Tasks /\ Available(t)
      /\ \A v \in Workers \ {w} : pc[v] \in Running => cur[v] # t
      /\ status[t] = "waiting"
  BY <1>1, InHand DEF CoreInv, CurInv
<1>3. ListsInv' /\ Apart(Held') /\ HeldInv'
  BY <1>1, InHandKept DEF Running
<1>4. \A u : Available(u)' <=> Available(u)
  BY <1>1, AvailableKept
<1>5. StatusInv'
  <2>1. ASSUME NEW u \in Tasks
        PROVE  /\ status'[u] # "waiting" => Available(u)
               /\ status'[u] = "running" => \E v \in Workers : pc'[v] = "body" /\ cur'[v] = u
    <3>1. CASE u = t
      BY <1>1, <1>2, <3>1
    <3>2. CASE u # t
      <4>1. status'[u] = status[u]
        BY <1>1, <3>2
      <4> QED  BY <1>1, <4>1 DEF CoreInv, StatusInv
    <3> QED  BY <3>1, <3>2
  <2> QED  BY <1>4, <2>1 DEF StatusInv
<1>6. CurInv'
  BY <1>1, <1>2 DEF CoreInv, CurInv, Running
<1>7. EdgeInv'
  <2>1. SUFFICES ASSUME NEW p \in Tasks, NEW i \in DOMAIN Out[p],
                        Out[p][i][2] \in deps[Out[p][i][1]]
                 PROVE  /\ status'[p] = "done"
                        /\ \A v \in Workers : pc'[v] \in {"release", "or"} /\ cur'[v] = p =>
                                                 i < edge'[v]
    BY <1>1 DEF EdgeInv
  <2>2. /\ status[p] = "done"
        /\ \A v \in Workers : pc[v] \in {"release", "or"} /\ cur[v] = p => i < edge[v]
    BY <2>1 DEF CoreInv, EdgeInv
  <2> QED  BY <1>1, <1>2, <2>2
<1>8. MaskInv'
  BY <1>1 DEF CoreInv, MaskInv
<1>9. CountsTasksLeft'
  <2>1. Taken' = Taken
    BY <1>1, <1>2 DEF Taken
  <2> QED  BY <1>1, <2>1 DEF CoreInv, CountsTasksLeft
<1> QED  BY <1>3, <1>5, <1>6, <1>7, <1>8, <1>9 DEF CoreInv

LEMMA BodyEndsCore ==
    ASSUME DataInv, CoreInv, NEW w \in Workers, BodyEnds(w)
    PROVE  CoreInv'
<1> DEFINE t == cur[w]
<1>1. /\ pc[w] = "body" /\ pc[w] \in Running /\ pc' = [pc EXCEPT ![w] = "release"]
      /\ Goto(w, "release") /\ pc \in [Workers -> Labels]
      /\ status' = [status EXCEPT ![t] = "done"]
      /\ status \in [Tasks -> {"waiting", "running", "done"}]
      /\ UNCHANGED <<taskstodo, queue, slot, ready, cur, deps, newmask, enqueued>>
      /\ \A v \in Workers \ {w} : edge'[v] = edge[v]
  BY DEF BodyEnds, Goto, DataInv, TypeOK, appVars, Running
<1>2. /\ t \in Tasks /\ Available(t)
      /\ \A v \in Workers \ {w} : pc[v] \in Running => cur[v] # t
      /\ status[t] = "running"
  BY <1>1, InHand DEF CoreInv, CurInv
<1>3. ListsInv' /\ Apart(Held') /\ HeldInv'
  BY <1>1, InHandKept DEF Running
<1>4. \A u : Available(u)' <=> Available(u)
  BY <1>1, AvailableKept
<1>5. StatusInv'
  <2>1. ASSUME NEW u \in Tasks
        PROVE  /\ status'[u] # "waiting" => Available(u)
               /\ status'[u] = "running" => \E v \in Workers : pc'[v] = "body" /\ cur'[v] = u
    <3>1. CASE u = t
      BY <1>1, <1>2, <3>1
    <3>2. CASE u # t
      <4>1. status'[u] = status[u]
        BY <1>1, <3>2
      <4> QED  BY <1>1, <3>2, <4>1 DEF CoreInv, StatusInv
    <3> QED  BY <3>1, <3>2
  <2> QED  BY <1>4, <2>1 DEF StatusInv
<1>6. CurInv'
  BY <1>1, <1>2 DEF CoreInv, CurInv, Running
<1>7. EdgeInv'
  <2>1. SUFFICES ASSUME NEW p \in Tasks, NEW i \in DOMAIN Out[p],
                        Out[p][i][2] \in deps[Out[p][i][1]]
                 PROVE  /\ status'[p] = "done"
                        /\ \A v \in Workers : pc'[v] \in {"release", "or"} /\ cur'[v] = p =>
                                                 i < edge'[v]
    BY <1>1 DEF EdgeInv
  <2>2. /\ status[p] = "done"
        /\ \A v \in Workers : pc[v] \in {"release", "or"} /\ cur[v] = p => i < edge[v]
    BY <2>1 DEF CoreInv, EdgeInv
  <2>3. p # t
    BY <1>2, <2>2
  <2> QED  BY <1>1, <2>2, <2>3
<1>8. MaskInv'
  BY <1>1 DEF CoreInv, MaskInv
<1>9. CountsTasksLeft'
  <2>1. Taken' = Taken
    BY <1>1, <1>2 DEF Taken
  <2> QED  BY <1>1, <2>1 DEF CoreInv, CountsTasksLeft
<1> QED  BY <1>3, <1>5, <1>6, <1>7, <1>8, <1>9 DEF CoreInv

LEMMA ReadMaskCore ==
    ASSUME DataInv, CoreInv, NEW w \in Workers, ReadMask(w)
    PROVE  CoreInv'
<1>1. /\ pc[w] = "release" /\ pc[w] \in Running /\ pc' = [pc EXCEPT ![w] = "or"]
      /\ Goto(w, "or") /\ pc \in [Workers -> Labels]
      /\ UNCHANGED <<taskstodo, queue, slot, ready, cur, deps, edge, status, enqueued>>
  BY DEF ReadMask, Goto, DataInv, TypeOK, appVars, Running
<1>2. ListsInv' /\ Apart(Held') /\ HeldInv'
  BY <1>1, InHandKept DEF Running
<1>3. \A u : Available(u)' <=> Available(u)
  BY <1>1, AvailableKept
<1>4. StatusInv'
  BY <1>1, <1>3 DEF CoreInv, StatusInv
<1>5. CurInv'
  BY <1>1 DEF CoreInv, CurInv
<1>6. EdgeInv'
  BY <1>1 DEF CoreInv, EdgeInv
<1>7. MaskInv'
  <2> DEFINE succ == Out[cur[w]][edge[w]][1]
             flow == Out[cur[w]][edge[w]][2]
             mask == {InDone, flow} \cup (IF InDone \in deps[succ] THEN {} ELSE Direct[succ])
  <2>1. newmask' = [newmask EXCEPT ![w] = mask]
    BY DEF ReadMask
  <2>2. mask \subseteq {InDone, flow} \cup Direct[succ]
    OBVIOUS
  <2> HIDE DEF mask
  <2>3. newmask \in [Workers -> SUBSET (Flows \cup {InDone})]
    BY DEF DataInv, TypeOK
  <2> QED  BY <1>1, <2>1, <2>2, <2>3 DEF CoreInv, MaskInv
<1>8. CountsTasksLeft'
  BY <1>1, LeftKept DEF CoreInv
<1> QED  BY <1>2, <1>4, <1>5, <1>6, <1>7, <1>8 DEF CoreInv

\* A list gets the tasks of X, which leave another list or are new; hands may
\* become empty.
MovesLists(from, to, X) ==
    \A a \in Places :
        IF a[1] = "cur" THEN Held'[a] \subseteq Held[a]
        ELSE Held'[a] = IF a = to THEN Held[a] \cup X
                        ELSE IF a = from THEN Held[a] \ X
                        ELSE Held[a]

LEMMA ListsMove ==
    ASSUME NEW k \in {"queue", "slot", "ready"}, NEW l \in {"queue", "slot", "ready"},
           NEW w \in Workers, NEW X,
           Held'[<<l, w>>] = Held[<<l, w>>] \cup X,
           k # l => Held'[<<k, w>>] = Held[<<k, w>>] \ X,
           \A v \in Workers : ~(v = w /\ "queue" \in {k, l}) => queue'[v] = queue[v],
           \A v \in Workers : ~(v = w /\ "slot" \in {k, l}) => slot'[v] = slot[v],
           \A v \in Workers : ~(v = w /\ "ready" \in {k, l}) => ready'[v] = ready[v],
           \A v \in Workers : pc'[v] \in Running => pc[v] \in Running /\ cur'[v] = cur[v]
    PROVE  MovesLists(<<k, w>>, <<l, w>>, X)
<1> DEFINE from == <<k, w>>
           to   == <<l, w>>
<1>1. /\ Held'[to] = Held[to] \cup X
      /\ k # l => Held'[from] = Held[from] \ X
      /\ k = l <=> from = to
  OBVIOUS
<1>2. \A m, v : /\ <<m, v>> = from <=> m = k /\ v = w
                /\ <<m, v>> = to <=> m = l /\ v = w
                /\ <<m, v>>[1] = m
  OBVIOUS
<1> HIDE DEF from, to
<1>3. ASSUME NEW a \in Places
      PROVE  IF a[1] = "cur" THEN Held'[a] \subseteq Held[a]
             ELSE Held'[a] = IF a = to THEN Held[a] \cup X
                             ELSE IF a = from THEN Held[a] \ X
                             ELSE Held[a]
  <2>1. PICK v \in Workers : \/ a = <<"queue", v>> \/ a = <<"slot", v>>
                             \/ a = <<"ready", v>> \/ a = <<"cur", v>>
    BY PlaceIs
  <2>2. ASSUME NEW m \in {"queue", "slot", "ready"}, a = <<m, v>>,
               ~(v = w /\ m \in {k, l}) => Held'[a] = Held[a]
        PROVE  /\ a[1] # "cur"
               /\ Held'[a] = IF a = to THEN Held[a] \cup X
                             ELSE IF a = from THEN Held[a] \ X
                             ELSE Held[a]
    <3>1. a[1] = m /\ (a = from <=> m = k /\ v = w) /\ (a = to <=> m = l /\ v = w)
      BY <1>2, <2>2
    <3>2. CASE v = w /\ m = l
      BY <1>1, <3>1, <3>2
    <3>3. CASE v = w /\ m = k /\ k # l
      BY <1>1, <3>1, <3>3
    <3>4. CASE ~(v = w /\ m \in {k, l})
      BY <2>2, <3>1, <3>4
    <3> QED  BY <3>1, <3>2, <3>3, <3>4
  <2>3. CASE a = <<"queue", v>>
    <3>1. Held[a] = Range(queue[v]) /\ Held'[a] = Range(queue'[v])  BY <2>3, HeldAt
    <3> QED  BY <2>2, <2>3, <3>1
  <2>4. CASE a = <<"slot", v>>
    <3>1. Held[a] = Range(slot[v]) /\ Held'[a] = Range(slot'[v])  BY <2>4, HeldAt
    <3> QED  BY <2>2, <2>4, <3>1
  <2>5. CASE a = <<"ready", v>>
    <3>1. Held[a] = Range(ready[v]) /\ Held'[a] = Range(ready'[v])  BY <2>5, HeldAt
    <3> QED  BY <2>2, <2>5, <3>1
  <2>6. CASE a = <<"cur", v>>
    <3>1. a[1] = "cur"  BY <1>2, <2>6
    <3>2. /\ Held[a] = IF pc[v] \in Running THEN {cur[v]} ELSE {}
          /\ Held'[a] = IF pc'[v] \in Running THEN {cur'[v]} ELSE {}
      BY <2>6, HeldAt
    <3>3. pc'[v] \in Running => pc[v] \in Running /\ cur'[v] = cur[v]
      OBVIOUS
    <3>4. Held'[a] \subseteq Held[a]
      BY <3>2, <3>3
    <3> QED  BY <3>1, <3>4
  <2> QED  BY <2>1, <2>3, <2>4, <2>5, <2>6
<1> QED  BY <1>3 DEF MovesLists, from, to

LEMMA MovedApart ==
    ASSUME Apart(Held), NEW from \in Places, NEW to \in Places, NEW X,
           from[1] # "cur", to[1] # "cur", MovesLists(from, to, X),
           \A a \in Places \ {from, to} : X \cap Held[a] = {}
    PROVE  Apart(Held')
<1>1. \A a \in Places \ {to} : Held'[a] \subseteq Held[a] \ X
  BY DEF MovesLists
<1>2. Held'[to] \subseteq Held[to] \cup X
  BY DEF MovesLists
<1> QED  BY <1>1, <1>2, ApartKept

LEMMA MovedHeld ==
    ASSUME DataInv, HeldInv, NEW from, NEW to, NEW X, MovesLists(from, to, X),
           UNCHANGED status, \A t \in Tasks : Available(t) => Available(t)',
           \A t \in X : Available(t)' /\ status[t] = "waiting"
    PROVE  HeldInv'
<1>1. ASSUME NEW a \in Places, NEW t \in Held'[a]
      PROVE  Available(t)' /\ (a[1] # "cur" => status'[t] = "waiting")
  <2>1. t \in Held[a] \/ (t \in X)
    BY <1>1 DEF MovesLists
  <2> QED  BY <1>1, <2>1, HeldTasks DEF HeldInv
<1> QED  BY <1>1 DEF HeldInv

\* An output dependency names an input of its successor that does not come
\* from memory.
LEMMA EdgeIs ==
    ASSUME NEW p \in Tasks, NEW i \in DOMAIN Out[p]
    PROVE  /\ Out[p][i] = <<Out[p][i][1], Out[p][i][2]>> /\ i \in Nat
           /\ Out[p][i][1] \in Tasks /\ Out[p][i][2] \in Flows
           /\ Out[p][i][2] \in Goal[Out[p][i][1]] \ Direct[Out[p][i][1]]
           /\ ObjectOf[Out[p][i][1]] = ObjectOf[p]
<1>1. Out[p] \in Seq(Tasks \X Flows)
  BY TasksAssumption
<1>2. Out[p][i] \in Tasks \X Flows /\ i \in Nat
  BY <1>1, LenProperties, ElementOfSeq
<1>3. /\ Out[p][i][2] \in Goal[Out[p][i][1]] \ Direct[Out[p][i][1]]
      /\ ObjectOf[Out[p][i][1]] = ObjectOf[p]
  BY GraphAssumption
<1> QED  BY <1>2, <1>3

\* The successor a thread is about to release is nowhere and has not run: one
\* of its flows, this one, is not there.
LEMMA SuccessorWaits ==
    ASSUME DataInv, CoreInv, NEW w \in Workers, pc[w] = "or",
           NEW succ, succ = Out[cur[w]][edge[w]][1]
    PROVE  /\ cur[w] \in Tasks /\ edge[w] \in DOMAIN Out[cur[w]]
           /\ succ \in Tasks /\ ObjectOf[succ] <= enqueued
           /\ ~CanStart(succ) /\ status[succ] = "waiting"
           /\ \A a \in Places : succ \notin Held[a]
<1> DEFINE flow == Out[cur[w]][edge[w]][2]
<1>1. cur[w] \in Tasks /\ Available(cur[w])
  BY InHand DEF Running
<1>2. edge[w] \in DOMAIN Out[cur[w]]
  BY DEF DataInv, RunInv
<1>3. /\ succ \in Tasks /\ flow \in Goal[succ] \ Direct[succ]
      /\ ObjectOf[succ] = ObjectOf[cur[w]] /\ edge[w] \in Nat
  BY <1>1, <1>2, EdgeIs
<1>4. flow \notin deps[succ]
  BY <1>1, <1>2, <1>3 DEF CoreInv, EdgeInv
<1>5. ~CanStart(succ) /\ ~Available(succ)
  BY <1>3, <1>4 DEF CanStart, Available
<1>6. status[succ] = "waiting"
  BY <1>3, <1>5 DEF CoreInv, StatusInv
<1>7. \A a \in Places : succ \notin Held[a]
  BY <1>5 DEF CoreInv, HeldInv
<1>8. ObjectOf[succ] <= enqueued
  BY <1>1, <1>3 DEF Available
<1> QED  BY <1>1, <1>2, <1>3, <1>5, <1>6, <1>7, <1>8

LEMMA OrMaskFlow ==
    ASSUME DataInv, CoreInv, NEW w \in Workers, OrMask(w)
    PROVE  EdgeInv' /\ MaskInv' /\ \A t \in Tasks : deps[t] \subseteq deps'[t]
<1> DEFINE succ == Out[cur[w]][edge[w]][1]
           flow == Out[cur[w]][edge[w]][2]
<1>1. /\ pc[w] = "or" /\ pc' = [pc EXCEPT ![w] = "release"] /\ pc \in [Workers -> Labels]
      /\ deps' = [deps EXCEPT ![succ] = deps[succ] \cup newmask[w]]
      /\ deps \in [Tasks -> SUBSET (Flows \cup {InDone})]
      /\ edge' = [edge EXCEPT ![w] = @ + 1] /\ edge \in [Workers -> Nat]
      /\ UNCHANGED <<cur, newmask, status>>
  BY DEF OrMask, Goto, DataInv, TypeOK
<1>2. /\ cur[w] \in Tasks /\ edge[w] \in DOMAIN Out[cur[w]] /\ succ \in Tasks
      /\ status[cur[w]] = "done"
      /\ \A v \in Workers \ {w} : pc[v] \in Running => cur[v] # cur[w]
  BY <1>1, SuccessorWaits, InHand DEF Running, CoreInv, CurInv
<1>3. newmask[w] \subseteq {InDone, flow} \cup Direct[succ]
  BY <1>1 DEF CoreInv, MaskInv
<1>4. /\ deps'[succ] = deps[succ] \cup newmask[w]
      /\ \A t \in Tasks : t # succ => deps'[t] = deps[t]
      /\ edge'[w] = edge[w] + 1 /\ \A v \in Workers \ {w} : edge'[v] = edge[v]
      /\ \A v \in Workers : edge[v] \in Nat /\ edge'[v] \in Nat /\ edge'[v] >= edge[v]
  BY <1>1, <1>2
<1>5. EdgeInv'
  <2>1. SUFFICES ASSUME NEW p \in Tasks, NEW i \in DOMAIN Out[p],
                        Out[p][i][2] \in deps'[Out[p][i][1]]
                 PROVE  /\ status[p] = "done"
                        /\ \A v \in Workers : pc'[v] \in {"release", "or"} /\ cur[v] = p =>
                                                 i < edge'[v]
    BY <1>1 DEF EdgeInv
  <2>2. /\ Out[p][i] = <<Out[p][i][1], Out[p][i][2]>> /\ i \in Nat
        /\ Out[p][i][1] \in Tasks /\ Out[p][i][2] \in Flows
        /\ Out[p][i][2] \in Goal[Out[p][i][1]] \ Direct[Out[p][i][1]]
    BY EdgeIs
  <2>3. CASE Out[p][i][2] \in deps[Out[p][i][1]]
    <3>1. /\ status[p] = "done"
          /\ \A v \in Workers : pc[v] \in {"release", "or"} /\ cur[v] = p => i < edge[v]
      BY <2>3 DEF CoreInv, EdgeInv
    <3>2. \A v \in Workers : pc'[v] \in {"release", "or"} => pc[v] \in {"release", "or"}
      BY <1>1
    <3> QED  BY <1>4, <2>2, <3>1, <3>2
  <2>4. CASE Out[p][i][2] \notin deps[Out[p][i][1]]
    <3>1. Out[p][i][1] = succ /\ Out[p][i][2] \in newmask[w]
      BY <1>4, <2>1, <2>2, <2>4
    <3>2. Out[p][i][2] = flow
      BY <1>3, <2>2, <3>1, TasksAssumption
    <3>3. Out[cur[w]][edge[w]] = <<succ, flow>>
      BY <1>2, EdgeIs
    <3>4. Out[p][i] = Out[cur[w]][edge[w]]
      BY <2>2, <3>1, <3>2, <3>3
    <3>5. p = cur[w] /\ i = edge[w]
      BY <1>2, <3>4, GraphAssumption
    <3>6. \A v \in Workers : pc'[v] \in {"release", "or"} /\ cur[v] = p => v = w
      BY <1>1, <1>2, <3>5 DEF Running
    <3> QED  BY <1>2, <1>4, <3>5, <3>6
  <2> QED  BY <2>3, <2>4
<1>6. MaskInv'
  <2>1. \A v \in Workers : pc'[v] = "or" => pc[v] = "or" /\ v # w
    BY <1>1
  <2>2. \A v \in Workers : v # w => edge'[v] = edge[v]
    BY <1>4
  <2> QED  BY <1>1, <2>1, <2>2 DEF CoreInv, MaskInv
<1>7. \A t \in Tasks : deps[t] \subseteq deps'[t]
  BY <1>4
<1> QED  BY <1>5, <1>6, <1>7

LEMMA OrMaskCore ==
    ASSUME DataInv, CoreInv, NEW w \in Workers, OrMask(w)
    PROVE  CoreInv'
<1>0. PICK succ : succ = Out[cur[w]][edge[w]][1]
  OBVIOUS
<1> DEFINE mask == deps[succ] \cup newmask[w]
           here == <<"ready", w>>
<1>1. /\ pc[w] = "or" /\ pc' = [pc EXCEPT ![w] = "release"] /\ pc \in [Workers -> Labels]
      /\ UNCHANGED <<taskstodo, queue, slot, cur, newmask, status, enqueued>>
  BY DEF OrMask, Goto, DataInv, TypeOK, appVars
<1>2. /\ succ \in Tasks /\ ObjectOf[succ] <= enqueued
      /\ ~CanStart(succ) /\ status[succ] = "waiting"
      /\ \A a \in Places : succ \notin Held[a]
  BY <1>0, <1>1, SuccessorWaits
<1>3. EdgeInv' /\ MaskInv' /\ \A t \in Tasks : deps[t] \subseteq deps'[t]
  BY OrMaskFlow
<1>4. \A t \in Tasks : Available(t) => Available(t)'
  BY <1>1, <1>3 DEF Available
<1>5. ready \in [Workers -> Seq(Tasks)]
  BY DEF DataInv, TypeOK
<1>6. \A v \in Workers : pc'[v] \in Running => pc[v] \in Running /\ cur'[v] = cur[v]
  BY <1>1 DEF Running
<1>7. here \in Places /\ here[1] = "ready" /\ here[1] # "cur"
  BY PlaceOf
<1>8. \E X \in SUBSET {succ} :
         /\ MovesLists(here, here, X) /\ ListsInv'
         /\ \A t \in X : Available(t)'
  <2>1. CASE AllInputs(succ, mask)
    <3>1. ready' = [ready EXCEPT ![w] = AddByPriority(@, succ, Priority)]
      BY <1>0, <2>1 DEF OrMask
    <3>2. succ \notin Range(ready[w]) /\ IsInjective(ready[w])
      BY <1>2, <1>7, HeldAt DEF CoreInv, ListsInv
    <3>3. /\ Range(ready'[w]) = Range(ready[w]) \cup {succ} /\ IsInjective(ready'[w])
          /\ \A v \in Workers \ {w} : ready'[v] = ready[v]
      BY <1>2, <1>5, <3>1, <3>2, InsertList
    <3>4. ListsInv'
      BY <1>1, <3>3 DEF CoreInv, ListsInv
    <3>5. deps'[succ] = mask
      BY <1>0, <1>2 DEF OrMask, DataInv, TypeOK
    <3>6. Available(succ)'
      BY <1>1, <1>2, <2>1, <3>5 DEF AllInputs, Available
    <3>7. Held'[here] = Held[here] \cup {succ}
      BY <3>3, HeldAt
    <3>8. MovesLists(here, here, {succ})
      BY <1>1, <1>6, <3>3, <3>7, ListsMove
    <3> QED  BY <3>4, <3>6, <3>8
  <2>2. CASE ~AllInputs(succ, mask)
    <3>1. UNCHANGED ready
      BY <1>0, <2>2 DEF OrMask
    <3>2. ListsInv'
      BY <1>1, <3>1 DEF CoreInv, ListsInv
    <3>3. Held'[here] = Held[here] \cup {}
      BY <3>1, HeldAt
    <3>4. MovesLists(here, here, {})
      BY <1>1, <1>6, <3>1, <3>3, ListsMove
    <3> QED  BY <3>2, <3>4
  <2> QED  BY <2>1, <2>2
<1> HIDE DEF here
<1>9. PICK X \in SUBSET {succ} :
         /\ MovesLists(here, here, X) /\ ListsInv'
         /\ \A t \in X : Available(t)'
  BY <1>8
<1>10. Apart(Held')
  <2>1. \A a \in Places \ {here, here} : X \cap Held[a] = {}
    BY <1>2
  <2> QED  BY <1>7, <1>9, <2>1, MovedApart DEF CoreInv
<1>11. HeldInv'
  BY <1>1, <1>2, <1>4, <1>9, MovedHeld DEF CoreInv
<1>12. StatusInv'
  <2>1. \A v \in Workers : pc[v] = "body" => pc'[v] = "body" /\ cur'[v] = cur[v]
    BY <1>1
  <2> QED  BY <1>1, <1>4, <2>1 DEF CoreInv, StatusInv
<1>13. CurInv'
  BY <1>1 DEF CoreInv, CurInv
<1>14. CountsTasksLeft'
  BY <1>1, LeftKept DEF CoreInv
<1> QED  BY <1>3, <1>9, <1>10, <1>11, <1>12, <1>13, <1>14 DEF CoreInv

\* The placeholder gets the front of the ready list; the task is done with.
LEMMA ScheduleCore ==
    ASSUME DataInv, CoreInv, NEW w \in Workers, Schedule(w)
    PROVE  CoreInv'
<1> DEFINE n     == IF Room(w) < Len(ready[w]) THEN Room(w) ELSE Len(ready[w])
           front == SubSeq(ready[w], 1, n)
           rest  == SubSeq(ready[w], n + 1, Len(ready[w]))
           from  == <<"ready", w>>
           to    == <<"slot", w>>
<1>1. /\ pc[w] = "release" /\ cur' = [cur EXCEPT ![w] = NoTask]
      /\ \E l \in {"loop", "push"} : pc' = [pc EXCEPT ![w] = l]
      /\ slot' = [slot EXCEPT ![w] = @ \o front]
      /\ ready' = [ready EXCEPT ![w] = rest]
      /\ UNCHANGED <<taskstodo, queue>> /\ Steady
  BY DEF Schedule, Goto, Steady, appVars
<1>2. /\ pc \in [Workers -> Labels] /\ cur \in [Workers -> Tasks \cup {NoTask}]
      /\ ready \in [Workers -> Seq(Tasks)] /\ slot \in [Workers -> Seq(Tasks)]
  BY DEF DataInv, TypeOK
<1>3. n \in 0..Len(ready[w])
  <2>1. Len(ready[w]) \in Nat /\ Len(slot[w]) \in Nat /\ PlaceholderSize \in Nat
        /\ Len(slot[w]) < PlaceholderSize
    BY <1>2, LenProperties, TasksAssumption DEF DataInv, SlotInv
  <2>2. Room(w) = PlaceholderSize - 1 - Len(slot[w])
    BY DEF Room
  <2>3. Room(w) \in Nat
    BY <2>1, <2>2
  <2> QED  BY <2>1, <2>3, LesserOf
<1> HIDE DEF n
<1>4. /\ front \in Seq(Tasks) /\ rest \in Seq(Tasks)
      /\ IsInjective(front) /\ IsInjective(rest)
      /\ Range(front) \cup Range(rest) = Range(ready[w])
      /\ Range(front) \cap Range(rest) = {}
  BY <1>2, <1>3, SplitList DEF CoreInv, ListsInv
<1> HIDE DEF front, rest
<1>5. from \in Places /\ to \in Places /\ from # to /\ from[1] = "ready" /\ to[1] = "slot"
  BY PlaceOf
<1>6. Range(slot[w]) \cap Range(ready[w]) = {}
  BY <1>5, HeldAt DEF CoreInv, Apart
<1>7. Range(slot[w] \o front) = Range(slot[w]) \cup Range(front) /\ IsInjective(slot[w] \o front)
  <2>1. Range(slot[w]) \cap Range(front) = {} /\ slot[w] \in Seq(Tasks) /\ IsInjective(slot[w])
    BY <1>2, <1>4, <1>6 DEF CoreInv, ListsInv
  <2> QED  BY <1>4, <2>1, ConcatList
<1>8. /\ slot'[w] = slot[w] \o front /\ \A v \in Workers \ {w} : slot'[v] = slot[v]
      /\ ready'[w] = rest /\ \A v \in Workers \ {w} : ready'[v] = ready[v]
      /\ pc'[w] \in {"loop", "push"} /\ \A v \in Workers \ {w} : pc'[v] = pc[v]
      /\ \A v \in Workers \ {w} : cur'[v] = cur[v]
  BY <1>1, <1>2
<1>9. ListsInv'
  BY <1>1, <1>4, <1>7, <1>8 DEF CoreInv, ListsInv
<1> DEFINE X == Range(front)
<1>10. Held'[to] = Held[to] \cup X /\ Held'[from] = Held[from] \ X
  <2>1. Held'[to] = Range(slot'[w]) /\ Held[to] = Range(slot[w])
    BY HeldAt
  <2>2. Held'[from] = Range(ready'[w]) /\ Held[from] = Range(ready[w])
    BY HeldAt
  <2> QED  BY <1>4, <1>7, <1>8, <2>1, <2>2
<1>11. \A v \in Workers : pc'[v] \in Running => pc[v] \in Running /\ cur'[v] = cur[v]
  BY <1>8 DEF Running
<1> HIDE DEF X
<1>12. MovesLists(from, to, X)
  BY <1>1, <1>8, <1>10, <1>11, ListsMove
<1>13. X \subseteq Held[from]
  BY <1>4, HeldAt DEF X
<1>14. Apart(Held')
  <2>1. \A a \in Places \ {from, to} : X \cap Held[a] = {}
    BY <1>5, <1>13 DEF CoreInv, Apart
  <2> QED  BY <1>5, <1>12, <2>1, MovedApart DEF CoreInv
<1>15. HeldInv'
  <2>1. \A t : Available(t)' <=> Available(t)
    BY <1>1, AvailableKept DEF Steady
  <2>2. \A t \in X : Available(t) /\ status[t] = "waiting"
    BY <1>5, <1>13 DEF CoreInv, HeldInv
  <2> QED  BY <1>1, <1>12, <2>1, <2>2, MovedHeld DEF CoreInv, Steady
<1>16. StatusInv'
  BY <1>1, <1>8, SteadyStatus DEF CoreInv
<1>17. CurInv'
  BY <1>1, <1>8 DEF CoreInv, CurInv, Steady
<1>18. EdgeInv' /\ MaskInv'
  BY <1>1, <1>8, SteadyFlow DEF CoreInv
<1>19. CountsTasksLeft'
  BY <1>1, <1>8, LeftKept DEF CoreInv, Steady
<1> QED  BY <1>9, <1>14, <1>15, <1>16, <1>17, <1>18, <1>19 DEF CoreInv

\* The queue gets the rest.
LEMMA PushCore ==
    ASSUME DataInv, CoreInv, NEW w \in Workers, Push(w)
    PROVE  CoreInv'
<1> DEFINE from == <<"ready", w>>
           to   == <<"queue", w>>
<1>1. /\ pc[w] = "push_locked" /\ pc' = [pc EXCEPT ![w] = "loop"]
      /\ queue' = [queue EXCEPT ![w] = PushList(@, ready[w])]
      /\ ready' = [ready EXCEPT ![w] = <<>>]
      /\ UNCHANGED <<taskstodo, slot, cur>> /\ Steady
  BY DEF Push, Goto, Steady, appVars
<1>2. /\ pc \in [Workers -> Labels]
      /\ ready \in [Workers -> Seq(Tasks)] /\ queue \in [Workers -> Seq(Tasks)]
  BY DEF DataInv, TypeOK
<1>3. from \in Places /\ to \in Places /\ from # to /\ from[1] = "ready" /\ to[1] = "queue"
  BY PlaceOf
<1>4. Range(queue[w]) \cap Range(ready[w]) = {}
  BY <1>3, HeldAt DEF CoreInv, Apart
<1>5. /\ Range(PushList(queue[w], ready[w])) = Range(queue[w]) \cup Range(ready[w])
      /\ IsInjective(PushList(queue[w], ready[w]))
  BY <1>2, <1>4, PushedList DEF CoreInv, ListsInv
<1>6. /\ queue'[w] = PushList(queue[w], ready[w]) /\ \A v \in Workers \ {w} : queue'[v] = queue[v]
      /\ ready'[w] = <<>> /\ \A v \in Workers \ {w} : ready'[v] = ready[v]
      /\ pc'[w] = "loop" /\ \A v \in Workers \ {w} : pc'[v] = pc[v]
  BY <1>1, <1>2
<1>7. ListsInv'
  BY <1>1, <1>5, <1>6, EmptyList DEF CoreInv, ListsInv
<1> DEFINE X == Range(ready[w])
<1>8. Held'[to] = Held[to] \cup X /\ Held'[from] = Held[from] \ X /\ X = Held[from]
  <2>1. Held'[to] = Range(queue'[w]) /\ Held[to] = Range(queue[w])
    BY HeldAt
  <2>2. Held'[from] = Range(ready'[w]) /\ Held[from] = Range(ready[w])
    BY HeldAt
  <2> QED  BY <1>5, <1>6, <2>1, <2>2, EmptyList
<1>9. \A v \in Workers : pc'[v] \in Running => pc[v] \in Running /\ cur'[v] = cur[v]
  BY <1>1, <1>6 DEF Running
<1> HIDE DEF X
<1>10. MovesLists(from, to, X)
  BY <1>1, <1>6, <1>8, <1>9, ListsMove
<1>11. Apart(Held')
  <2>1. \A a \in Places \ {from, to} : X \cap Held[a] = {}
    BY <1>3, <1>8 DEF CoreInv, Apart
  <2> QED  BY <1>3, <1>10, <2>1, MovedApart DEF CoreInv
<1>12. HeldInv'
  <2>1. \A t : Available(t)' <=> Available(t)
    BY <1>1, AvailableKept DEF Steady
  <2>2. \A t \in X : Available(t) /\ status[t] = "waiting"
    BY <1>3, <1>8 DEF CoreInv, HeldInv
  <2> QED  BY <1>1, <1>10, <2>1, <2>2, MovedHeld DEF CoreInv, Steady
<1>13. StatusInv'
  BY <1>1, <1>6, SteadyStatus DEF CoreInv
<1>14. CurInv'
  BY <1>1, <1>6 DEF CoreInv, CurInv, Steady
<1>15. EdgeInv' /\ MaskInv'
  BY <1>1, <1>6, SteadyFlow DEF CoreInv
<1>16. CountsTasksLeft'
  BY <1>1, <1>6, LeftKept DEF CoreInv, Steady
<1> QED  BY <1>7, <1>11, <1>12, <1>13, <1>14, <1>15, <1>16 DEF CoreInv

\* The tasks of an object are nowhere before it is enqueued.
LEMMA NotEnqueued ==
    ASSUME DataInv, CoreInv, NEW t \in Tasks, ~(ObjectOf[t] <= enqueued)
    PROVE  /\ \A a \in Places : t \notin Held[a]
           /\ status[t] = "waiting" /\ t \notin Taken
<1>1. ~Available(t)
  BY DEF Available
<1>2. \A a \in Places : t \notin Held[a]
  BY <1>1 DEF CoreInv, HeldInv
<1>3. status[t] = "waiting"
  BY <1>1 DEF CoreInv, StatusInv
<1>4. \A w \in Workers : pc[w] = "execute" => cur[w] # t
  BY <1>1, InHand DEF Running
<1> QED  BY <1>2, <1>3, <1>4 DEF Taken

LEMMA EnqueueCore ==
    ASSUME DataInv, CoreInv, Enqueue
    PROVE  CoreInv'
<1>0. PICK o : o = enqueued + 1
  OBVIOUS
<1> DEFINE list == StartupList[o]
           X    == Range(list)
           here == <<"queue", Master>>
<1>1. /\ enqueued' = o /\ enqueued \in Int /\ o \in Objects
      /\ taskstodo' = taskstodo + Cardinality(TasksOf(o))
      /\ \/ list = <<>> /\ UNCHANGED queue
         \/ queue' = [queue EXCEPT ![Master] = PushList(@, list)]
      /\ UNCHANGED <<slot, deps, pc, cur, edge, newmask, ready, status>>
  BY <1>0, CoresAssumption DEF Enqueue, DataInv, TypeOK, Objects
<1>2. /\ list \in Seq(Tasks) /\ X = {t \in Tasks : ObjectOf[t] = o /\ CanStart(t)}
      /\ IsInjective(list)
  BY <1>1, TasksAssumption, GraphAssumption DEF Range, IsInjective
<1>3. queue \in [Workers -> Seq(Tasks)] /\ Master \in Workers /\ ObjectOf \in [Tasks -> Int]
  BY MasterIsWorker, TasksAssumption DEF DataInv, TypeOK, Objects
<1>4. here \in Places /\ here[1] = "queue" /\ here[1] # "cur"
  BY <1>3, PlaceOf
<1> HIDE DEF list
<1>5. \A t \in Tasks : ObjectOf[t] = o => ~(ObjectOf[t] <= enqueued)
  BY <1>0, <1>1
<1>6. \A t \in X : \A a \in Places : t \notin Held[a]
  BY <1>2, <1>5, NotEnqueued
<1>7. \A t \in X : status[t] = "waiting"
  BY <1>2, <1>5, NotEnqueued
<1>8. /\ Range(queue'[Master]) = Range(queue[Master]) \cup X /\ IsInjective(queue'[Master])
      /\ \A v \in Workers \ {Master} : queue'[v] = queue[v]
  <2>1. Range(queue[Master]) \cap X = {} /\ IsInjective(queue[Master])
    <3>1. Held[here] = Range(queue[Master])
      BY <1>3, HeldAt
    <3>2. Held[here] \cap X = {}
      BY <1>4, <1>6
    <3> QED  BY <1>3, <3>1, <3>2 DEF CoreInv, ListsInv
  <2>2. CASE list = <<>> /\ UNCHANGED queue
    BY <2>1, <2>2, EmptyList
  <2>3. CASE queue' = [queue EXCEPT ![Master] = PushList(@, list)]
    <3>1. queue'[Master] = PushList(queue[Master], list)
      BY <1>3, <2>3
    <3>2. \A v \in Workers \ {Master} : queue'[v] = queue[v]
      BY <1>3, <2>3
    <3>3. queue[Master] \in Seq(Tasks)
      BY <1>3
    <3> QED  BY <1>2, <2>1, <3>1, <3>2, <3>3, PushedList
  <2> QED  BY <1>1, <2>2, <2>3
<1>9. ListsInv'
  BY <1>1, <1>3, <1>8 DEF CoreInv, ListsInv
<1>10. Held'[here] = Held[here] \cup X
  BY <1>3, <1>8, HeldAt
<1> HIDE DEF X
<1>11. MovesLists(here, here, X)
  BY <1>1, <1>3, <1>8, <1>10, ListsMove
<1>12. Apart(Held')
  <2>1. \A a \in Places \ {here, here} : X \cap Held[a] = {}
    BY <1>6
  <2> QED  BY <1>4, <1>11, <2>1, MovedApart DEF CoreInv
<1>13. \A t \in Tasks : Available(t) => Available(t)'
  BY <1>0, <1>1, <1>3 DEF Available
<1>14. HeldInv'
  <2>1. \A t \in X : Available(t)'
    BY <1>1, <1>2, <1>3 DEF Available
  <2> QED  BY <1>1, <1>7, <1>11, <1>13, <2>1, MovedHeld DEF CoreInv
<1>15. StatusInv'
  BY <1>1, <1>13 DEF CoreInv, StatusInv
<1>16. CurInv'
  BY <1>1 DEF CoreInv, CurInv
<1>17. EdgeInv' /\ MaskInv'
  BY <1>1 DEF CoreInv, EdgeInv, MaskInv
<1>18. CountsTasksLeft'
  <2>1. Taken' = Taken
    BY <1>1 DEF Taken
  <2>2. \A t \in TasksOf(o) : t \in Tasks /\ t \notin Left /\ t \notin Taken
    BY <1>5, NotEnqueued DEF TasksOf, Left
  <2>3. Left' = Left \cup TasksOf(o)
    <3>1. \A t \in Tasks : ObjectOf[t] <= o <=> ObjectOf[t] <= enqueued \/ ObjectOf[t] = o
      BY <1>0, <1>1, <1>3
    <3> QED  BY <1>1, <2>1, <2>2, <3>1 DEF Left, TasksOf
  <2>4. IsFiniteSet(TasksOf(o)) /\ Cardinality(TasksOf(o)) \in Nat
    <3>1. TasksOf(o) \in SUBSET Tasks
      BY DEF TasksOf
    <3> QED  BY <3>1, TasksAssumption, FS_Subset, FS_CardinalityType
  <2>5. Left \cap TasksOf(o) = {}
    BY <2>2
  <2>6. Cardinality(Left \cup TasksOf(o)) =
           Cardinality(Left) + Cardinality(TasksOf(o)) - Cardinality(Left \cap TasksOf(o))
    BY <2>4, LeftFinite, FS_Union
  <2>7. Cardinality(Left \cap TasksOf(o)) = 0
    BY <2>5, FS_EmptySet
  <2>8. Cardinality(Left') = Cardinality(Left) + Cardinality(TasksOf(o))
    BY <2>3, <2>4, <2>6, <2>7, LeftFinite
  <2> QED  BY <1>1, <2>8 DEF CoreInv, CountsTasksLeft, Left
<1> QED  BY <1>9, <1>12, <1>14, <1>15, <1>16, <1>17, <1>18 DEF CoreInv

\* The other steps: no task moves.
Quiet(w) ==
    \/ Arrive(w) \/ LeaveInit(w) \/ LeaveStart(w) \/ LeaveEnd(w)
    \/ Loop(w) /\ ~(taskstodo # 0 /\ slot[w] # <<>>)
    \/ PopFront(w) /\ queue[victim[w]] = <<>>
    \/ TryLock(w) \/ SpinLock(w)

LEMMA QuietSteps ==
    ASSUME DataInv, NEW w \in Workers, Quiet(w)
    PROVE  /\ pc[w] \notin Running
           /\ \E l : l \notin Running /\ Goto(w, l)
           /\ UNCHANGED <<queue, slot, ready, cur, taskstodo>> /\ Steady
<1> USE DEF Steady, runVars, appVars
<1>1. CASE Arrive(w)
  <2>1. WaitsAt(pc[w]) \notin Running /\ pc[w] \notin Running
    BY <1>1 DEF Arrive, WaitsAt, Running
  <2> QED  BY <1>1, <2>1 DEF Arrive
<1>2. CASE LeaveInit(w)
  <2>1. Goto(w, "app") \/ Goto(w, "start")
    BY <1>2 DEF LeaveInit
  <2> QED  BY <1>2, <2>1 DEF LeaveInit, Running
<1>3. CASE LeaveStart(w)
  <2>1. Goto(w, "owes") \/ Goto(w, "exit") \/ Goto(w, "loop")
    BY <1>3 DEF LeaveStart
  <2> QED  BY <1>3, <2>1 DEF LeaveStart, Running
<1>4. CASE LeaveEnd(w)
  <2>1. Goto(w, "app") \/ Goto(w, "start")
    BY <1>4 DEF LeaveEnd
  <2> QED  BY <1>4, <2>1 DEF LeaveEnd, Running
<1>5. CASE Loop(w) /\ ~(taskstodo # 0 /\ slot[w] # <<>>)
  <2>1. Goto(w, "end") \/ Goto(w, "pop_own")
    BY <1>5 DEF Loop, ChooseLocalJob
  <2> QED  BY <1>5, <2>1 DEF Loop, ChooseLocalJob, Running
<1>6. ASSUME Miss(w) PROVE Goto(w, "steal") \/ Goto(w, "loop")
  BY <1>6 DEF Miss
<1>7. CASE TryLock(w)
  <2>1. Goto(w, "own_locked") \/ Goto(w, "steal_locked") \/ Goto(w, "steal") \/ Goto(w, "loop")
    BY <1>6, <1>7 DEF TryLock
  <2> QED  BY <1>7, <2>1 DEF TryLock, Running
<1>8. CASE PopFront(w) /\ queue[victim[w]] = <<>>
  <2>1. Goto(w, "steal") \/ Goto(w, "loop")
    BY <1>6, <1>8 DEF PopFront
  <2> QED  BY <1>8, <2>1 DEF PopFront, Running
<1>9. CASE SpinLock(w)
  BY <1>9 DEF SpinLock, Running
<1> QED  BY <1>1, <1>2, <1>3, <1>4, <1>5, <1>7, <1>8, <1>9 DEF Quiet

LEMMA StepCore ==
    ASSUME DataInv, CoreInv, NEW w \in Workers, Step(w)
    PROVE  CoreInv'
<1>1. ListsInv
  BY DEF CoreInv
<1>2. CASE Quiet(w)
  <2>1. /\ pc[w] \notin Running
        /\ \E l : l \notin Running /\ Goto(w, l)
        /\ UNCHANGED <<queue, slot, ready, cur, taskstodo>> /\ Steady
    BY <1>2, QuietSteps
  <2>2. PICK l : l \notin Running /\ Goto(w, l)
    BY <2>1
  <2> QED  BY <2>1, <2>2, QuietCore
<1>3. CASE Loop(w) /\ taskstodo # 0 /\ slot[w] # <<>>
  BY <1>1, <1>3, LoopTakes, TakesCore
<1>4. CASE PopFront(w) /\ queue[victim[w]] # <<>>
  BY <1>1, <1>4, PopTakes, TakesCore
<1>5. CASE DoneTask(w)  BY <1>5, DoneTaskCore
<1>6. CASE Execute(w)  BY <1>6, ExecuteCore
<1>7. CASE BodyEnds(w)  BY <1>7, BodyEndsCore
<1>8. CASE ReadMask(w)  BY <1>8, ReadMaskCore
<1>9. CASE OrMask(w)  BY <1>9, OrMaskCore
<1>10. CASE Schedule(w)  BY <1>10, ScheduleCore
<1>11. CASE Push(w)  BY <1>11, PushCore
<1>12. CASE Loop(w)  BY <1>2, <1>3, <1>12 DEF Quiet
<1>13. CASE PopFront(w)  BY <1>2, <1>4, <1>13 DEF Quiet
<1>14. CASE \/ Arrive(w) \/ LeaveInit(w) \/ LeaveStart(w) \/ LeaveEnd(w)
            \/ TryLock(w) \/ SpinLock(w)
  BY <1>2, <1>14 DEF Quiet
<1> QED  BY <1>5, <1>6, <1>7, <1>8, <1>9, <1>10, <1>11, <1>12, <1>13, <1>14 DEF Step

LEMMA InitCore == ASSUME Init PROVE CoreInv
<1>1. /\ \A w \in Workers : queue[w] = <<>> /\ slot[w] = <<>> /\ ready[w] = <<>>
      /\ \A w \in Workers : pc[w] = "init"
      /\ \A t \in Tasks : deps[t] = {} /\ status[t] = "waiting"
      /\ taskstodo = 0 /\ enqueued = 0
  BY DEF Init
<1>2. \A a \in Places : Held[a] = {}
  <2>1. SUFFICES ASSUME NEW a \in Places PROVE Held[a] = {}
    OBVIOUS
  <2>2. PICK w \in Workers : \/ a = <<"queue", w>> \/ a = <<"slot", w>>
                             \/ a = <<"ready", w>> \/ a = <<"cur", w>>
    BY PlaceIs
  <2>3. /\ Held[<<"queue", w>>] = Range(<<>>) /\ Held[<<"slot", w>>] = Range(<<>>)
        /\ Held[<<"ready", w>>] = Range(<<>>)
    BY <1>1, HeldAt
  <2>4. Held[<<"cur", w>>] = {}
    BY <1>1, HeldAt DEF Running
  <2> QED  BY <2>2, <2>3, <2>4, EmptyList
<1>3. ListsInv
  BY <1>1, EmptyList DEF ListsInv
<1>4. Apart(Held) /\ HeldInv
  BY <1>2 DEF Apart, HeldInv
<1>5. StatusInv /\ CurInv /\ MaskInv
  BY <1>1 DEF StatusInv, CurInv, MaskInv
<1>6. EdgeInv
  <2>1. \A p \in Tasks : \A i \in DOMAIN Out[p] : Out[p][i][1] \in Tasks
    BY EdgeIs
  <2> QED  BY <1>1, <2>1 DEF EdgeInv
<1>7. CountsTasksLeft
  <2>1. \A t \in Tasks : ~(ObjectOf[t] <= enqueued)
    BY <1>1, TasksAssumption DEF Objects
  <2>2. {t \in Tasks : ObjectOf[t] <= enqueued} \ Taken = {}
    BY <2>1
  <2> QED  BY <1>1, <2>2, FS_EmptySet DEF CountsTasksLeft
<1> QED  BY <1>3, <1>4, <1>5, <1>6, <1>7 DEF CoreInv

LEMMA NextCore ==
    ASSUME DataInv, CoreInv, [Next]_vars
    PROVE  CoreInv'
<1>1. CASE CallWait \/ CallFini \/ Join
  <2>1. /\ pc[Master] \notin Running
        /\ Goto(Master, "start") \/ Goto(Master, "fini") \/ Goto(Master, "exit")
        /\ UNCHANGED <<queue, slot, ready, cur, taskstodo>> /\ Steady
    BY <1>1 DEF CallWait, CallFini, Join, Running, Steady, runVars, appVars
  <2>2. "start" \notin Running /\ "fini" \notin Running /\ "exit" \notin Running
    BY DEF Running
  <2> QED  BY <2>1, <2>2, MasterIsWorker, QuietCore
<1>2. CASE UNCHANGED vars
  <2>1. /\ UNCHANGED <<queue, slot, ready, cur, pc, taskstodo, newmask, edge>> /\ Steady
    BY <1>2 DEF vars, Steady
  <2>2. Held' = Held /\ ListsInv'
    BY <2>1 DEF Held, HeldBy, CoreInv, ListsInv
  <2>3. \A t : Available(t)' <=> Available(t)
    BY <2>1, AvailableKept DEF Steady
  <2>4. Apart(Held') /\ HeldInv'
    BY <2>1, <2>2, <2>3 DEF CoreInv, HeldInv, Steady
  <2>5. StatusInv' /\ CurInv' /\ EdgeInv' /\ MaskInv'
    BY <2>1, SteadyStatus, SteadyFlow DEF CoreInv, CurInv, Steady
  <2>6. CountsTasksLeft'
    BY <2>1, LeftKept DEF CoreInv, Steady
  <2> QED  BY <2>2, <2>4, <2>5, <2>6 DEF CoreInv
<1> QED  BY <1>1, <1>2, EnqueueCore, StepCore DEF Next, App, Ended
-----------------------------------------------------------------------------
(* The end of a round.                                                     *)

\* With nothing left to take, every task of an enqueued object has run or is
\* about to, and no list holds one.
LEMMA NothingLeft ==
    ASSUME DataInv, CoreInv, taskstodo = 0
    PROVE  /\ \A w \in Workers :
                 queue[w] = <<>> /\ slot[w] = <<>> /\ pc[w] # "done_task"
           /\ \A t \in Tasks : ObjectOf[t] <= enqueued =>
                 status[t] # "waiting" \/ \E w \in Workers : pc[w] = "execute" /\ cur[w] = t
<1>1. Left = {}
  <2>1. Cardinality(Left) = 0
    BY DEF CoreInv, CountsTasksLeft, Left
  <2> QED  BY <2>1, LeftFinite, FS_EmptySet
<1>2. \A t \in Tasks : ObjectOf[t] <= enqueued => t \in Taken
  BY <1>1 DEF Left
<1>3. ASSUME NEW a \in Places, a[1] # "cur" PROVE Held[a] = {}
  <2>1. SUFFICES ASSUME NEW t \in Held[a] PROVE FALSE
    OBVIOUS
  <2>2. t \in Tasks /\ ObjectOf[t] <= enqueued /\ status[t] = "waiting"
    BY <1>3, HeldTasks DEF CoreInv, HeldInv, Available
  <2>3. PICK v \in Workers : pc[v] = "execute" /\ cur[v] = t
    BY <1>2, <2>2 DEF Taken
  <2>4. pc[v] \in Running /\ a # <<"cur", v>>
    BY <1>3, <2>3 DEF Running
  <2> QED  BY <2>3, <2>4, InHand
<1>4. ASSUME NEW w \in Workers PROVE queue[w] = <<>> /\ slot[w] = <<>>
  <2>1. /\ <<"queue", w>> \in Places /\ <<"queue", w>>[1] # "cur"
        /\ <<"slot", w>> \in Places /\ <<"slot", w>>[1] # "cur"
    BY PlaceOf
  <2>2. Range(queue[w]) = {} /\ Range(slot[w]) = {}
    BY <1>3, <2>1, HeldAt
  <2>3. /\ queue[w] \in Seq(Tasks) /\ IsInjective(queue[w])
        /\ slot[w] \in Seq(Tasks) /\ IsInjective(slot[w])
    BY DEF DataInv, TypeOK, CoreInv, ListsInv
  <2> QED  BY <2>2, <2>3, TailList
<1>5. ASSUME NEW w \in Workers, pc[w] = "done_task" PROVE FALSE
  <2>1. /\ cur[w] \in Tasks /\ Available(cur[w]) /\ status[cur[w]] = "waiting"
        /\ \A v \in Workers \ {w} : pc[v] \in Running => cur[v] # cur[w]
    BY <1>5, InHand DEF CoreInv, CurInv, Running
  <2>2. PICK v \in Workers : pc[v] = "execute" /\ cur[v] = cur[w]
    BY <1>2, <2>1 DEF Taken, Available
  <2> QED  BY <1>5, <2>1, <2>2 DEF Running
<1>6. \A t \in Tasks : ObjectOf[t] <= enqueued =>
         status[t] # "waiting" \/ \E w \in Workers : pc[w] = "execute" /\ cur[w] = t
  BY <1>2 DEF Taken
<1> QED  BY <1>4, <1>5, <1>6

\* A thread ends its round when it has seen taskstodo at zero; a step gives
\* tasks to no other thread.
EndsRound(w) ==
    /\ \E l : Goto(w, l) /\
          (l \in {"end", "end_wait"} =>
              /\ l = "end" => taskstodo = 0
              /\ l = "end_wait" => pc[w] = "end"
              /\ UNCHANGED <<queue, slot>>)
    /\ \A v \in Workers \ {w} : queue[v] = <<>> => queue'[v] = <<>>
    /\ \A v \in Workers \ {w} : slot[v] = <<>> => slot'[v] = <<>>
    /\ UNCHANGED taskstodo \/ pc[w] = "done_task"

LEMMA StepEndsRound ==
    ASSUME DataInv, NEW w \in Workers, Step(w)
    PROVE  EndsRound(w)
<1> USE DEF EndsRound, runVars, appVars
<1>0. /\ queue \in [Workers -> Seq(Tasks)] /\ slot \in [Workers -> Seq(Tasks)]
      /\ pc[w] \in Labels
  BY DEF DataInv, TypeOK
<1>1. CASE Arrive(w)
  <2>1. /\ WaitsAt(pc[w]) # "end"
        /\ WaitsAt(pc[w]) = "end_wait" => pc[w] = "end"
    BY <1>1 DEF Arrive, WaitsAt
  <2> QED  BY <1>1, <2>1 DEF Arrive
<1>2. CASE LeaveInit(w) \/ LeaveStart(w) \/ LeaveEnd(w)
  <2>1. /\ \/ Goto(w, "app") \/ Goto(w, "start") \/ Goto(w, "owes") \/ Goto(w, "exit")
           \/ Goto(w, "loop")
        /\ UNCHANGED <<queue, slot, taskstodo>>
    BY <1>2 DEF LeaveInit, LeaveStart, LeaveEnd
  <2> QED  BY <2>1
<1>3. CASE Loop(w)
  <2>1. /\ \/ taskstodo = 0 /\ Goto(w, "end") /\ UNCHANGED slot
           \/ Goto(w, "done_task") \/ Goto(w, "pop_own")
        /\ UNCHANGED <<queue, taskstodo>>
        /\ \A v \in Workers \ {w} : slot'[v] = slot[v]
    BY <1>0, <1>3 DEF Loop, ChooseLocalJob
  <2> QED  BY <2>1
<1>4. CASE TryLock(w)
  <2>1. /\ \/ Goto(w, "own_locked") \/ Goto(w, "steal_locked") \/ Goto(w, "steal")
           \/ Goto(w, "loop")
        /\ UNCHANGED <<queue, slot, taskstodo>>
    BY <1>4 DEF TryLock, Miss
  <2> QED  BY <2>1
<1>5. CASE PopFront(w)
  <2>1. /\ Goto(w, "steal") \/ Goto(w, "loop") \/ Goto(w, "done_task")
        /\ UNCHANGED <<slot, taskstodo>>
        /\ UNCHANGED queue \/ (queue[victim[w]] # <<>> /\
              queue' = [queue EXCEPT ![victim[w]] = Tail(@)])
    BY <1>5 DEF PopFront, Miss
  <2>2. \A v \in Workers : queue[v] = <<>> => queue'[v] = <<>>
    BY <1>0, <2>1
  <2> QED  BY <2>1, <2>2
<1>6. CASE DoneTask(w)  BY <1>6 DEF DoneTask
<1>7. CASE Execute(w) \/ BodyEnds(w) \/ ReadMask(w) \/ OrMask(w) \/ SpinLock(w)
  <2>1. /\ \/ Goto(w, "body") \/ Goto(w, "release") \/ Goto(w, "or") \/ Goto(w, "push_locked")
        /\ UNCHANGED <<queue, slot, taskstodo>>
    BY <1>7 DEF Execute, BodyEnds, ReadMask, OrMask, SpinLock
  <2> QED  BY <2>1
<1>8. CASE Schedule(w)
  <2>1. /\ Goto(w, "loop") \/ Goto(w, "push")
        /\ UNCHANGED <<queue, taskstodo>>
        /\ \A v \in Workers \ {w} : slot'[v] = slot[v]
    BY <1>0, <1>8 DEF Schedule
  <2> QED  BY <2>1
<1>9. CASE Push(w)
  <2>1. /\ Goto(w, "loop") /\ UNCHANGED <<slot, taskstodo>>
        /\ \A v \in Workers \ {w} : queue'[v] = queue[v]
    BY <1>0, <1>9 DEF Push
  <2> QED  BY <2>1
<1> QED  BY <1>1, <1>2, <1>3, <1>4, <1>5, <1>6, <1>7, <1>8, <1>9 DEF Step

LEMMA StepEnd ==
    ASSUME DataInv, GraphInv, NEW w \in Workers, EndsRound(w)
    PROVE  EndInv' /\ NothingLeftBehind'
<1>1. PICK l : /\ Goto(w, l)
               /\ l \in {"end", "end_wait"} =>
                     /\ l = "end" => taskstodo = 0
                     /\ l = "end_wait" => pc[w] = "end"
                     /\ UNCHANGED <<queue, slot>>
  BY DEF EndsRound
<1>2. pc'[w] = l /\ \A v \in Workers \ {w} : pc'[v] = pc[v]
  BY <1>1 DEF Goto, DataInv, TypeOK
<1>3. taskstodo = 0 => taskstodo' = 0
  BY NothingLeft DEF EndsRound, GraphInv
<1>4. EndInv'
  BY <1>1, <1>2, <1>3, MasterIsWorker DEF GraphInv, EndInv
<1>5. ASSUME NEW v \in Workers, pc'[v] \in {"end", "end_wait"}
      PROVE  queue'[v] = <<>> /\ slot'[v] = <<>>
  <2>1. CASE v = w
    BY <1>1, <1>2, <1>5, <2>1, NothingLeft DEF GraphInv, NothingLeftBehind
  <2>2. CASE v # w
    BY <1>2, <1>5, <2>2 DEF EndsRound, GraphInv, NothingLeftBehind
  <2> QED  BY <2>1, <2>2
<1> QED  BY <1>4, <1>5 DEF NothingLeftBehind

LEMMA NextGraphInv ==
    ASSUME DataInv, GraphInv, [Next]_vars
    PROVE  GraphInv'
<1>1. CoreInv'
  BY NextCore DEF GraphInv
<1>2. ASSUME NEW w \in Workers, Step(w) PROVE EndInv' /\ NothingLeftBehind'
  BY <1>2, StepEndsRound, StepEnd
<1>3. CASE Enqueue
  <2>1. /\ pc[Master] = "app" /\ UNCHANGED <<pc, slot>>
        /\ \A v \in Workers \ {Master} : queue'[v] = queue[v]
    BY <1>3 DEF Enqueue, DataInv, TypeOK
  <2> QED  BY <1>1, <2>1 DEF GraphInv, EndInv, NothingLeftBehind
<1>4. CASE CallWait \/ CallFini \/ Join
  <2>1. /\ Goto(Master, "start") \/ Goto(Master, "fini") \/ Goto(Master, "exit")
        /\ UNCHANGED <<queue, slot, taskstodo>>
    BY <1>4 DEF CallWait, CallFini, Join, runVars
  <2>2. /\ pc'[Master] \notin {"end", "end_wait"}
        /\ \A v \in Workers \ {Master} : pc'[v] = pc[v]
    BY <2>1, MasterIsWorker DEF Goto, DataInv, TypeOK
  <2> QED  BY <1>1, <2>1, <2>2 DEF GraphInv, EndInv, NothingLeftBehind
<1>5. CASE UNCHANGED vars
  BY <1>1, <1>5 DEF vars, GraphInv, EndInv, NothingLeftBehind
<1> QED  BY <1>1, <1>2, <1>3, <1>4, <1>5 DEF GraphInv, Next, App, Ended

LEMMA GraphInvariance == Spec => [](DataInv /\ PhaseInv /\ GraphInv)
<1>1. Init => GraphInv
  BY InitCore, MasterIsWorker DEF Init, GraphInv, EndInv, NothingLeftBehind
<1>2. ASSUME DataInv, GraphInv, [Next]_vars PROVE GraphInv'
  BY <1>2, NextGraphInv
<1> QED  BY <1>1, <1>2, Invariance, PTL DEF Spec

\* taskstodo is the number of enqueued tasks nobody has taken, whatever the
\* threads do between the two: it never wraps, and no thread sees it at zero
\* while a task is still in a list or waits for its inputs.
THEOREM TasksLeftCorrect == Spec => []CountsTasksLeft
<1>1. GraphInv => CountsTasksLeft  BY DEF GraphInv, CoreInv
<1> QED  BY <1>1, GraphInvariance, PTL

\* The assertion after the loop of __dague_progress: a thread that ends its
\* round leaves no task in its dequeue or its placeholder.
THEOREM NothingLeftCorrect == Spec => []NothingLeftBehind
<1>1. GraphInv => NothingLeftBehind  BY DEF GraphInv
<1> QED  BY <1>1, GraphInvariance, PTL

-----------------------------------------------------------------------------
(* The refinement.                                                         *)

\* A task some thread executes has its predecessors behind it: each of its
\* flows in the mask was put there by its producer.
LEMMA PredsDone ==
    ASSUME DataInv, CoreInv, NEW t \in Tasks, Available(t), NEW p \in PredsOf[t]
    PROVE  status[p] = "done"
<1>1. p \in Tasks /\ p \in Preds(t)
  BY DEF PredsOf, Preds
<1>2. PICK i \in DOMAIN Out[p] : Out[p][i][1] = t
  BY <1>1 DEF Preds
<1>3. Out[p][i][2] \in Goal[t] \ Direct[t]
  BY <1>1, <1>2, EdgeIs
<1>4. Out[p][i][2] \in deps[Out[p][i][1]]
  BY <1>2, <1>3 DEF Available, CanStart
<1> QED  BY <1>1, <1>4 DEF CoreInv, EdgeInv

\* When the master leaves the barrier that closes a round nobody is inside it,
\* so every task taken is finished.
LEMMA AllDone ==
    ASSUME DataInv, PhaseInv, GraphInv, LeaveEnd(Master), NEW t \in Tasks, ObjectOf[t] <= enqueued
    PROVE  status[t] = "done"
<1>1. pc[Master] = "end_wait" /\ Released(Master) /\ taskstodo = 0
  BY DEF LeaveEnd, GraphInv, EndInv
<1>2. ASSUME NEW w \in Workers, pc[w] \in {"execute", "body"} PROVE FALSE
  <2>1. w # Master /\ pc[w] \in Working /\ pc[w] \notin Waiting
    BY <1>1, <1>2 DEF Working, Waiting
  <2>2. bar[Master] = 2 * fincount + 1 /\ bar[w] = 2 * mycount[w]
    BY <1>1, <2>1, MasterIsWorker DEF PhaseInv, PlaceInv, Place, Counted
  <2>3. bar[w] >= bar[Master] /\ bar[Master] >= bar[w]
    BY <1>1, <2>1, MasterIsWorker DEF Released, PhaseInv, LockstepInv
  <2>4. fincount \in Nat /\ mycount[w] \in Nat
    BY DEF DataInv, TypeOK
  <2> QED  BY <2>2, <2>3, <2>4
<1>3. status[t] # "waiting"
  BY <1>1, <1>2, NothingLeft DEF GraphInv
<1>4. status[t] # "running"
  BY <1>2 DEF GraphInv, CoreInv, StatusInv
<1> QED  BY <1>3, <1>4 DEF DataInv, TypeOK

LEMMA StepImplements ==
    ASSUME DataInv, PhaseInv, GraphInv, [Next]_vars
    PROVE  [TG!Next]_(TG!vars)
<1> USE DEF runVars, appVars
<1>1. CASE Enqueue
  <2>1. enqueued + 1 \in Objects
    BY <1>1, CoresAssumption DEF Enqueue, DataInv, TypeOK, Objects
  <2>2. TG!Enqueue
    BY <1>1, <2>1 DEF Enqueue, TG!Enqueue
  <2> QED  BY <2>2 DEF TG!Next
<1>2. ASSUME NEW w \in Workers, Execute(w) PROVE \E t \in Tasks : TG!Start(t)
  <2>1. /\ pc[w] \in Running /\ pc[w] = "execute"
        /\ status' = [status EXCEPT ![cur[w]] = "running"] /\ UNCHANGED <<enqueued, waited>>
    BY <1>2 DEF Execute, Running
  <2>2. cur[w] \in Tasks /\ Available(cur[w]) /\ status[cur[w]] = "waiting"
    BY <2>1, InHand DEF GraphInv, CoreInv, CurInv
  <2>3. \A p \in PredsOf[cur[w]] : status[p] = "done"
    BY <2>2, PredsDone DEF GraphInv
  <2>4. TG!Start(cur[w])
    BY <2>1, <2>2, <2>3 DEF TG!Start, TG!EnqueuedTasks, Available
  <2> QED  BY <2>2, <2>4
<1>3. ASSUME NEW w \in Workers, BodyEnds(w) PROVE \E t \in Tasks : TG!Finish(t)
  <2>1. /\ pc[w] \in Running /\ pc[w] = "body"
        /\ status' = [status EXCEPT ![cur[w]] = "done"] /\ UNCHANGED <<enqueued, waited>>
    BY <1>3 DEF BodyEnds, Running
  <2>2. cur[w] \in Tasks /\ status[cur[w]] = "running"
    BY <2>1, InHand DEF GraphInv, CoreInv, CurInv
  <2>3. TG!Finish(cur[w])
    BY <2>1, <2>2 DEF TG!Finish
  <2> QED  BY <2>2, <2>3
<1>4. CASE LeaveEnd(Master)
  <2>1. waited' = enqueued /\ UNCHANGED <<enqueued, status>>
    BY <1>4 DEF LeaveEnd
  <2>2. \A t \in TG!EnqueuedTasks : status[t] = "done"
    BY <1>4, AllDone DEF TG!EnqueuedTasks
  <2>3. TG!WaitReturns
    BY <2>1, <2>2 DEF TG!WaitReturns
  <2> QED  BY <2>3 DEF TG!Next
<1>5. ASSUME NEW w \in Workers, LeaveEnd(w), w # Master PROVE UNCHANGED TG!vars
  BY <1>5 DEF LeaveEnd, TG!vars
<1>6. ASSUME NEW w \in Workers, Arrive(w) \/ LeaveInit(w) \/ LeaveStart(w) PROVE UNCHANGED TG!vars
  BY <1>6 DEF Arrive, LeaveInit, LeaveStart, TG!vars
<1>7. ASSUME NEW w \in Workers, Loop(w) \/ TryLock(w) \/ PopFront(w) \/ DoneTask(w)
      PROVE  UNCHANGED TG!vars
  BY <1>7 DEF Loop, ChooseLocalJob, TryLock, PopFront, DoneTask, TG!vars
<1>8. ASSUME NEW w \in Workers,
             ReadMask(w) \/ OrMask(w) \/ Schedule(w) \/ SpinLock(w) \/ Push(w)
      PROVE  UNCHANGED TG!vars
  BY <1>8 DEF ReadMask, OrMask, Schedule, SpinLock, Push, TG!vars
<1>9. CASE CallWait \/ CallFini \/ Join
  <2>1. UNCHANGED TG!vars
    BY <1>9 DEF CallWait, CallFini, Join, TG!vars
  <2> QED  BY <2>1
<1>10. CASE UNCHANGED vars
  <2>1. UNCHANGED TG!vars
    BY <1>10 DEF vars, TG!vars
  <2> QED  BY <2>1
<1>11. ASSUME NEW w \in Workers, Step(w) PROVE [TG!Next]_(TG!vars)
  <2>1. CASE Execute(w)  BY <1>2, <2>1 DEF TG!Next
  <2>2. CASE BodyEnds(w)  BY <1>3, <2>2 DEF TG!Next
  <2>3. CASE LeaveEnd(w)  BY <1>4, <1>5, <2>3
  <2> QED  BY <1>6, <1>7, <1>8, <1>11, <2>1, <2>2, <2>3 DEF Step
<1> QED  BY <1>1, <1>9, <1>10, <1>11 DEF Next, App, Ended

\* The engine keeps the promise of TaskGraph: every task runs once, after the
\* tasks it takes its inputs from, and dague_wait returns only when every task
\* enqueued so far is finished, whatever the threads, the graph and the
\* priorities.
THEOREM SchedulingImplements == Spec => ImplementsTaskGraph
<1>1. Init => TG!Init  BY DEF Init, TG!Init
<1>2. DataInv /\ PhaseInv /\ GraphInv /\ [Next]_vars => [TG!Next]_(TG!vars)
  BY StepImplements
<1> QED  BY <1>1, <1>2, GraphInvariance, PTL DEF Spec, TG!Spec, ImplementsTaskGraph
=============================================================================
