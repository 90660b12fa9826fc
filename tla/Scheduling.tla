----------------------------- MODULE Scheduling -----------------------------
(***************************************************************************)
(* The shared-memory engine of one node: dague_enqueue, dague_wait and     *)
(* dague_fini called by the master thread, the loop of __dague_progress    *)
(* every thread runs, the scheduling of ready tasks (__dague_schedule) and *)
(* the release of the dependencies of a finished task                      *)
(* (dague_release_local_OUT_dependencies, with dependency masks).          *)
(*                                                                         *)
(* This is the build without hwloc: each thread owns a dequeue protected   *)
(* by a spin lock (module Dequeue has its pointers) and a placeholder only *)
(* its owner touches. The barrier is the abstract one of AbstractBarrier,  *)
(* which module Barrier implements: bar[w] counts the arrivals of w and a  *)
(* thread goes on when every thread arrived as often as it did.            *)
(***************************************************************************)
EXTENDS Integers, Sequences, FiniteSets, ReadyList

CONSTANTS
    NbCores,        \* context->nb_cores; thread 0 is the master thread
    Tasks,          \* the task instances of all objects
    NbObjects,      \* objects 1..NbObjects, enqueued in this order
    ObjectOf,       \* [Tasks -> 1..NbObjects]
    Flows,          \* names of the input flows (bits of a dependency mask)
    Goal,           \* [Tasks -> SUBSET Flows]: function->dependencies_goal
    Direct,         \* [Tasks -> SUBSET Flows]: inputs read from memory
    Out,            \* [Tasks -> Seq(Tasks \X Flows)]: iterate_successors
    StartupList,    \* [1..NbObjects -> Seq(Tasks)]: object->startup_list
    Priority,       \* [Tasks -> Nat]: exec_context->priority
    HighPriority,   \* SUBSET Tasks: DAGUE_HIGH_PRIORITY_TASK
    PlaceholderSize,\* PLACEHOLDER_SIZE
    InDone,         \* the mask bit DAGUE_DEPENDENCIES_IN_DONE
    NoTask          \* no execution context

Workers == 0..(NbCores - 1)
Objects == 1..NbObjects
Master  == 0
Nobody  == -1                            \* a free spin lock

Preds(t) == {p \in Tasks : \E i \in DOMAIN Out[p] : Out[p][i][1] = t}

\* What the generated startup code tests of each task: all its inputs come from
\* memory.
CanStart(t) == Goal[t] \subseteq Direct[t]

\* The tasks the generated constructor of an object counts, and two miscounts:
\* its startup tasks only; those of the other objects too.
StartupTasksOf(o) == {t \in Tasks : ObjectOf[t] = o /\ CanStart(t)}
AllTasksOf(o) == {t \in Tasks : ObjectOf[t] >= o}
TasksOf(o) == {t \in Tasks : ObjectOf[t] = o}

ASSUME CoresAssumption == NbCores \in Nat \ {0} /\ NbObjects \in Nat
ASSUME TasksAssumption ==
    /\ IsFiniteSet(Tasks)
    /\ ObjectOf \in [Tasks -> Objects]
    /\ Goal \in [Tasks -> SUBSET Flows]
    /\ Direct \in [Tasks -> SUBSET Flows]
    /\ Out \in [Tasks -> Seq(Tasks \X Flows)]
    /\ StartupList \in [Objects -> Seq(Tasks)]
    /\ Priority \in [Tasks -> Nat]
    /\ HighPriority \subseteq Tasks
    /\ PlaceholderSize \in Nat \ {0}
    /\ InDone \notin Flows /\ NoTask \notin Tasks
\* A JDF program names each input of a task from both sides: the flows of
\* Goal[t] outside Direct[t] are those some predecessor releases, and the
\* startup list of an object holds its tasks that can start, each once.
ASSUME GraphAssumption ==
    /\ \A t \in Tasks : Direct[t] \subseteq Goal[t]
    /\ \A p \in Tasks : \A i \in DOMAIN Out[p] :
          LET t == Out[p][i][1]  f == Out[p][i][2]
          IN  f \in Goal[t] \ Direct[t] /\ ObjectOf[t] = ObjectOf[p]
    /\ \A p, q \in Tasks : \A i \in DOMAIN Out[p], j \in DOMAIN Out[q] :
          Out[p][i] = Out[q][j] => p = q /\ i = j
    /\ \A o \in Objects :
          /\ {StartupList[o][i] : i \in DOMAIN StartupList[o]} =
                {t \in Tasks : ObjectOf[t] = o /\ CanStart(t)}
          /\ \A i, j \in DOMAIN StartupList[o] :
                StartupList[o][i] = StartupList[o][j] => i = j

VARIABLES
    taskstodo,   \* context->taskstodo
    queue,       \* eu_task_queue of each thread, front first
    lock,        \* holder of the spin lock of each queue, or Nobody
    slot,        \* placeholder of each thread, oldest first
    deps,        \* dependency mask of each task: flows and InDone
    pc,          \* where each thread is
    cur,         \* exec_context being run
    edge,        \* next output dependency of cur to release
    newmask,     \* dep_new_value
    ready,       \* arg.ready_list
    victim,      \* queue to pop from: own first, then 0..NbCores-1
    bar,         \* barrier arrivals of each thread
    enqueued,    \* objects enqueued so far
    fincount,    \* __dague_internal_finalization_counter
    finishing,   \* __dague_internal_finalization_in_progress
    mycount,     \* my_barrier_counter
    status,      \* history: "waiting", "running", "done" for each task
    waited       \* history: objects enqueued when dague_wait last returned

vars == <<taskstodo, queue, lock, slot, deps, pc, cur, edge, newmask, ready,
          victim, bar, enqueued, fincount, finishing, mycount, status, waited>>
runVars == <<queue, lock, slot, deps, cur, edge, newmask, ready, victim, status>>
appVars == <<enqueued, fincount, finishing, mycount, waited>>

Goto(w, l) == pc' = [pc EXCEPT ![w] = l]

Init ==
    /\ taskstodo = 0
    /\ queue = [w \in Workers |-> <<>>]
    /\ lock = [w \in Workers |-> Nobody]
    /\ slot = [w \in Workers |-> <<>>]
    /\ deps = [t \in Tasks |-> {}]
    /\ pc = [w \in Workers |-> "init"]
    /\ cur = [w \in Workers |-> NoTask]
    /\ edge = [w \in Workers |-> 0]
    /\ newmask = [w \in Workers |-> {}]
    /\ ready = [w \in Workers |-> <<>>]
    /\ victim = [w \in Workers |-> w]
    /\ bar = [w \in Workers |-> 0]
    /\ enqueued = 0
    /\ fincount = 0
    /\ finishing = FALSE
    /\ mycount = [w \in Workers |-> 0]
    /\ status = [t \in Tasks |-> "waiting"]
    /\ waited = 0

-----------------------------------------------------------------------------
(* Barriers of the life of a thread. "init" is the barrier of dague_init,  *)
(* "start" and "end" those around a round of __dague_progress and "fini"   *)
(* the one of dague_fini.                                                  *)

WaitsAt(l) == CASE l = "init"  -> "init_wait"
                [] l = "start" -> "start_wait"
                [] l = "end"   -> "end_wait"
                [] l = "fini"  -> "fini_wait"

Arrive(w) ==
    /\ pc[w] \in {"init", "start", "end", "fini"}
    /\ bar' = [bar EXCEPT ![w] = @ + 1]
    /\ Goto(w, WaitsAt(pc[w]))
    /\ UNCHANGED <<taskstodo, runVars, appVars>>

\* The mistake of a barrier that lets a thread go on one round early.
ReleasedEarly(w) == \A v \in Workers : bar[v] >= bar[w] - 1
Released(w) == \A v \in Workers : bar[v] >= bar[w]

\* my_barrier_counter after the barrier of dague_init, and a mistake.
FirstCounterLate == 0
FirstCounter == 1

\* The master thread returns from dague_init; a worker sets its counter and
\* waits for the first round.
LeaveInit(w) ==
    /\ pc[w] = "init_wait" /\ Released(w)
    /\ IF w = Master
       THEN fincount' = fincount + 1 /\ Goto(w, "app") /\ UNCHANGED mycount
       ELSE mycount' = [mycount EXCEPT ![w] = FirstCounter] /\ Goto(w, "start") /\ UNCHANGED fincount
    /\ UNCHANGED <<taskstodo, runVars, bar, enqueued, finishing, waited>>

\* Out of the barrier that opens a round. When the program is finishing the
\* thread owes a barrier for every round it missed ("owes" is then the next
\* label) and ends otherwise.
LeaveStart(w) ==
    /\ pc[w] = "start_wait" /\ Released(w)
    /\ IF finishing
       THEN /\ mycount' = [mycount EXCEPT ![w] = @ + 1]
            /\ Goto(w, IF mycount[w] + 1 <= fincount THEN "owes" ELSE "exit")
       ELSE Goto(w, "loop") /\ UNCHANGED mycount
    /\ UNCHANGED <<taskstodo, runVars, bar, enqueued, fincount, finishing, waited>>

\* Out of the barrier that closes a round: dague_wait returns to the
\* application, a worker goes back to wait for the next round.
LeaveEnd(w) ==
    /\ pc[w] = "end_wait" /\ Released(w)
    /\ IF w = Master
       THEN /\ fincount' = fincount + 1
            /\ waited' = enqueued
            /\ Goto(w, "app")
            /\ UNCHANGED mycount
       ELSE /\ mycount' = [mycount EXCEPT ![w] = @ + 1]
            /\ Goto(w, "start")
            /\ UNCHANGED <<fincount, waited>>
    /\ UNCHANGED <<taskstodo, runVars, bar, enqueued, finishing>>

-----------------------------------------------------------------------------
(* The application, on the master thread.                                  *)

\* Where __dague_schedule puts a list in a dequeue: the class of its first
\* element decides for the whole list.
PushList(q, list) == IF list[1] \in HighPriority THEN list \o q ELSE q \o list

\* dague_enqueue: count the tasks, give the startup tasks to thread 0.
Enqueue ==
    /\ pc[Master] = "app" /\ ~finishing
    /\ enqueued < NbObjects
    /\ enqueued' = enqueued + 1
    /\ taskstodo' = taskstodo + Cardinality(TasksOf(enqueued + 1))
    /\ LET list == StartupList[enqueued + 1]
       IN  IF list = <<>> THEN UNCHANGED queue
           ELSE /\ lock[Master] = Nobody
                /\ queue' = [queue EXCEPT ![Master] = PushList(@, list)]
    /\ UNCHANGED <<lock, slot, deps, pc, cur, edge, newmask, ready, victim, bar,
                   fincount, finishing, mycount, status, waited>>

CallWait ==
    /\ pc[Master] = "app" /\ ~finishing
    /\ bar[Master] <= 2 * NbObjects     \* bound: at most NbObjects rounds
    /\ Goto(Master, "start")
    /\ UNCHANGED <<taskstodo, runVars, bar, appVars>>

\* dague_fini, and the mistake of not telling the other threads.
CallFiniQuietly ==
    /\ pc[Master] = "app" /\ ~finishing
    /\ Goto(Master, "fini")
    /\ UNCHANGED <<taskstodo, runVars, bar, appVars>>
CallFini ==
    /\ pc[Master] = "app" /\ ~finishing
    /\ finishing' = TRUE
    /\ Goto(Master, "fini")
    /\ UNCHANGED <<taskstodo, runVars, bar, enqueued, fincount, mycount, waited>>

\* pthread_join of the other threads.
Join ==
    /\ pc[Master] = "fini_wait" /\ Released(Master)
    /\ \A w \in Workers \ {Master} : pc[w] = "exit"
    /\ Goto(Master, "exit")
    /\ UNCHANGED <<taskstodo, runVars, bar, appVars>>

-----------------------------------------------------------------------------
(* Choosing a task.                                                        *)

\* The placeholder first, then the queue of the worker.
ChooseLocalJob(w) ==
    IF slot[w] # <<>>
    THEN /\ cur' = [cur EXCEPT ![w] = Head(slot[w])]
         /\ slot' = [slot EXCEPT ![w] = Tail(@)]
         /\ Goto(w, "done_task") /\ UNCHANGED victim
    ELSE Goto(w, "pop_own") /\ victim' = [victim EXCEPT ![w] = w] /\ UNCHANGED <<slot, cur>>

\* while( !all_tasks_done ).
Loop(w) ==
    /\ pc[w] = "loop"
    /\ IF taskstodo = 0
       THEN Goto(w, "end") /\ UNCHANGED <<slot, cur, victim>>
       ELSE ChooseLocalJob(w)
    /\ UNCHANGED <<taskstodo, queue, lock, deps, edge, newmask, ready, bar, status, appVars>>

\* The victims are 0..NbCores-1.
IsVictim(v) == v < NbCores

\* Nothing found in victim[w]: the next thread to steal from, or a new turn
\* of the loop.
Miss(w) ==
    LET next == IF pc[w] \in {"pop_own", "own_locked"} THEN 0 ELSE victim[w] + 1
    IN  IF IsVictim(next)
        THEN Goto(w, "steal") /\ victim' = [victim EXCEPT ![w] = next]
        ELSE Goto(w, "loop") /\ victim' = [victim EXCEPT ![w] = w]

\* dague_dequeue_pop_front: a try-lock, whose failure is a miss.
TryLock(w) ==
    /\ pc[w] \in {"pop_own", "steal"}
    /\ IF lock[victim[w]] = Nobody
       THEN /\ lock' = [lock EXCEPT ![victim[w]] = w]
            /\ Goto(w, IF pc[w] = "pop_own" THEN "own_locked" ELSE "steal_locked")
            /\ UNCHANGED victim
       ELSE Miss(w) /\ UNCHANGED lock
    /\ UNCHANGED <<taskstodo, queue, slot, deps, cur, edge, newmask, ready, bar, status, appVars>>

PopFront(w) ==
    /\ pc[w] \in {"own_locked", "steal_locked"}
    /\ lock' = [lock EXCEPT ![victim[w]] = Nobody]
    /\ IF queue[victim[w]] = <<>>
       THEN Miss(w) /\ UNCHANGED <<queue, cur>>
       ELSE /\ cur' = [cur EXCEPT ![w] = Head(queue[victim[w]])]
            /\ queue' = [queue EXCEPT ![victim[w]] = Tail(@)]
            /\ Goto(w, "done_task") /\ UNCHANGED victim
    /\ UNCHANGED <<taskstodo, slot, deps, edge, newmask, ready, bar, status, appVars>>

\* done_task: the counter goes down before the task is executed.
DoneTask(w) ==
    /\ pc[w] = "done_task"
    /\ taskstodo' = taskstodo - 1
    /\ Goto(w, "execute")
    /\ UNCHANGED <<runVars, bar, appVars>>

-----------------------------------------------------------------------------
(* Running a task and releasing its output dependencies.                   *)

Execute(w) ==
    /\ pc[w] = "execute"
    /\ status' = [status EXCEPT ![cur[w]] = "running"]
    /\ Goto(w, "body")
    /\ UNCHANGED <<taskstodo, queue, lock, slot, deps, cur, edge, newmask, ready, victim,
                   bar, appVars>>

BodyEnds(w) ==
    /\ pc[w] = "body"
    /\ status' = [status EXCEPT ![cur[w]] = "done"]
    /\ edge' = [edge EXCEPT ![w] = 1]
    /\ Goto(w, "release")
    /\ UNCHANGED <<taskstodo, queue, lock, slot, deps, cur, newmask, ready, victim, bar, appVars>>

\* One output dependency: read the mask of the successor without
\* synchronisation to decide whether its direct inputs are still to be added.
ReadMask(w) ==
    /\ pc[w] = "release"
    /\ edge[w] \in DOMAIN Out[cur[w]]
    /\ LET succ == Out[cur[w]][edge[w]][1]
           flow == Out[cur[w]][edge[w]][2]
       IN  newmask' = [newmask EXCEPT ![w] = {InDone, flow} \cup
                          (IF InDone \in deps[succ] THEN {} ELSE Direct[succ])]
    /\ Goto(w, "or")
    /\ UNCHANGED <<taskstodo, queue, lock, slot, deps, cur, edge, ready, victim, bar, status,
                   appVars>>

\* The goal of the successor is met by the mask; the mistake of "any" for "all".
AnyInput(t, mask) == Goal[t] \cap mask # {}
AllInputs(t, mask) == Goal[t] \subseteq mask

\* The atomic or, whose result says whether this release completes the goal.
OrMask(w) ==
    /\ pc[w] = "or"
    /\ LET succ == Out[cur[w]][edge[w]][1]
           mask == deps[succ] \cup newmask[w]
       IN  /\ deps' = [deps EXCEPT ![succ] = mask]
           /\ IF AllInputs(succ, mask)
              THEN ready' = [ready EXCEPT ![w] = AddByPriority(@, succ, Priority)]
              ELSE UNCHANGED ready
    /\ edge' = [edge EXCEPT ![w] = @ + 1]
    /\ Goto(w, "release")
    /\ UNCHANGED <<taskstodo, queue, lock, slot, cur, newmask, victim, bar, status, appVars>>

\* __dague_schedule: fill the placeholder ring, of which one cell stays free,
\* then the rest of the list needs the lock of the thread's queue.
Room(w) == PlaceholderSize - 1 - Len(slot[w])

Schedule(w) ==
    /\ pc[w] = "release"
    /\ edge[w] \notin DOMAIN Out[cur[w]]
    /\ cur' = [cur EXCEPT ![w] = NoTask]
    /\ LET n == IF Room(w) < Len(ready[w]) THEN Room(w) ELSE Len(ready[w])
       IN  /\ slot' = [slot EXCEPT ![w] = @ \o SubSeq(ready[w], 1, n)]
           /\ ready' = [ready EXCEPT ![w] = SubSeq(@, n + 1, Len(@))]
           /\ Goto(w, IF n = Len(ready[w]) THEN "loop" ELSE "push")
    /\ UNCHANGED <<taskstodo, queue, lock, deps, edge, newmask, victim, bar, status, appVars>>

SpinLock(w) ==
    /\ pc[w] = "push"
    /\ lock[w] = Nobody
    /\ lock' = [lock EXCEPT ![w] = w]
    /\ Goto(w, "push_locked")
    /\ UNCHANGED <<taskstodo, queue, slot, deps, cur, edge, newmask, ready, victim, bar, status,
                   appVars>>

Push(w) ==
    /\ pc[w] = "push_locked"
    /\ queue' = [queue EXCEPT ![w] = PushList(@, ready[w])]
    /\ ready' = [ready EXCEPT ![w] = <<>>]
    /\ lock' = [lock EXCEPT ![w] = Nobody]
    /\ Goto(w, "loop")
    /\ UNCHANGED <<taskstodo, slot, deps, cur, edge, newmask, victim, bar, status, appVars>>

-----------------------------------------------------------------------------
App == Enqueue \/ CallWait \/ CallFini

Step(w) ==
    \/ Arrive(w) \/ LeaveInit(w) \/ LeaveStart(w) \/ LeaveEnd(w)
    \/ Loop(w) \/ TryLock(w) \/ PopFront(w) \/ DoneTask(w)
    \/ Execute(w) \/ BodyEnds(w) \/ ReadMask(w) \/ OrMask(w)
    \/ Schedule(w) \/ SpinLock(w) \/ Push(w)

\* Every thread has ended: the program may stop.
Ended == (\A w \in Workers : pc[w] = "exit") /\ UNCHANGED vars

Next == App \/ Join \/ (\E w \in Workers : Step(w)) \/ Ended

\* Every thread keeps running; a spinning CAS succeeds eventually when the
\* lock is free again and again, since the threads that poll the queue sleep
\* between two polls (exponential_backoff).
Fairness ==
    /\ \A w \in Workers : WF_vars(Step(w)) /\ SF_vars(SpinLock(w))
    /\ WF_vars(Join)

Spec     == Init /\ [][Next]_vars
FairSpec == Spec /\ Fairness

-----------------------------------------------------------------------------
(* Correctness.                                                            *)

Labels == {"init", "init_wait", "start", "start_wait", "end", "end_wait", "fini",
           "fini_wait", "owes", "exit", "app", "loop", "pop_own", "own_locked", "steal",
           "steal_locked", "done_task", "execute", "body", "release", "or", "push",
           "push_locked"}

TypeOK ==
    /\ taskstodo \in Int
    /\ queue \in [Workers -> Seq(Tasks)]
    /\ lock \in [Workers -> Workers \cup {Nobody}]
    /\ slot \in [Workers -> Seq(Tasks)]
    /\ deps \in [Tasks -> SUBSET (Flows \cup {InDone})]
    /\ pc \in [Workers -> Labels]
    /\ cur \in [Workers -> Tasks \cup {NoTask}]
    /\ edge \in [Workers -> Nat]
    /\ newmask \in [Workers -> SUBSET (Flows \cup {InDone})]
    /\ ready \in [Workers -> Seq(Tasks)]
    /\ victim \in [Workers -> Workers]
    /\ bar \in [Workers -> Nat]
    /\ enqueued \in 0..NbObjects
    /\ fincount \in Nat
    /\ finishing \in BOOLEAN
    /\ mycount \in [Workers -> Nat]
    /\ status \in [Tasks -> {"waiting", "running", "done"}]
    /\ waited \in 0..NbObjects

\* The assertion after the loop of __dague_progress: a thread that has seen
\* taskstodo at zero leaves no task behind, in its dequeue or its placeholder.
NothingLeftBehind ==
    \A w \in Workers : pc[w] \in {"end", "end_wait"} => queue[w] = <<>> /\ slot[w] = <<>>

\* dague_enqueue updates taskstodo with a plain "+=" and reads no lock: while
\* the application runs, every other thread is parked between two rounds.
Parked == {"init_wait", "start", "start_wait", "end_wait"}
ApplicationRunsAlone ==
    pc[Master] \in {"app", "fini"} => \A w \in Workers \ {Master} : pc[w] \in Parked

\* taskstodo is the number of enqueued tasks no thread has taken yet, so it
\* never wraps and reaches zero only when every task has been taken.
Taken == {t \in Tasks : status[t] # "waiting"}
            \cup {cur[w] : w \in {v \in Workers : pc[v] = "execute"}}
CountsTasksLeft ==
    taskstodo = Cardinality({t \in Tasks : ObjectOf[t] <= enqueued} \ Taken)

\* dague_fini meets the barriers of the other threads: at its barrier none of
\* them owes one, so none is left waiting in a barrier the master never joins.
NoBarrierOwed == \A w \in Workers : pc[w] # "owes"

\* The engine keeps the promises of TaskGraph.
PredsOf == [t \in Tasks |-> Preds(t)]
TG == INSTANCE TaskGraph
ImplementsTaskGraph == TG!Spec

\* Every call of dague_wait returns, and dague_fini ends every thread.
CallsReturn ==
    /\ (pc[Master] = "start") ~> (pc[Master] = "app")
    /\ (pc[Master] = "fini") ~> (\A w \in Workers : pc[w] = "exit")
=============================================================================
