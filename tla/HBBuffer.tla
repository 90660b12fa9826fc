------------------------------ MODULE HBBuffer ------------------------------
(***************************************************************************)
(* The engine of the hwloc build: every thread owns a bounded buffer of    *)
(* ready tasks (include/hbbuffer.h) whose slots are filled and emptied by  *)
(* compare-and-swap, what does not fit goes to one system dequeue, and a   *)
(* thread without work looks into the buffers of the others from the       *)
(* closest to the farthest (dague.c, dague_hwloc.c, scheduling.c).         *)
(*                                                                         *)
(* One object and one round: the threads set their queues up, thread 0     *)
(* enqueues the object, all run it. The communication thread pushes the    *)
(* tasks that data from other nodes made ready into the buffer of thread   *)
(* 0. A chain of tasks in the hands of its pusher is a sequence. The       *)
(* barrier and the dequeue are those of AbstractBarrier and                *)
(* AbstractDequeue.                                                        *)
(***************************************************************************)
EXTENDS Integers, Sequences, FiniteSets, SequencesExt

CONSTANTS
    NbCores,     \* context->nb_cores; thread 0 is the master thread
    CoreObject,  \* the hwloc objects of the cores 0, 1, ..., a sequence
    Parent,      \* the parent of each hwloc object, Null for the machine
    NbLevels,    \* dague_hwloc_nb_levels(): the depth of the cores
    QueueSize,   \* slots of a buffer: nb_cores * 4 in the code
    Tasks,
    Spawns,      \* [Tasks -> Seq(Tasks)]: the tasks each makes ready
    Startup,     \* object->startup_list
    Received,    \* lists made ready by received data, in order of arrival
    Rank,        \* [Tasks -> 0..Best]: the ranking function
    Best,        \* DAGUE_RANKING_FUNCTION_BEST
    Null

Workers == 0..(NbCores - 1)
Master  == 0
Comm    == NbCores                        \* the communication thread
Pushers == Workers \cup {Comm}
Nobody  == -1
Slots   == 0..(QueueSize - 1)

ASSUME HBBufferAssumption ==
    /\ NbCores \in Nat \ {0} /\ QueueSize \in Nat \ {0} /\ NbLevels \in Nat
    /\ Null \notin Tasks
    /\ Spawns \in [Tasks -> Seq(Tasks)]
    /\ Startup \in Seq(Tasks) /\ Received \in Seq(Seq(Tasks) \ {<<>>})
    /\ Best \in Nat /\ Rank \in [Tasks -> 0..Best]

\* Every task becomes ready once, from one source.
ASSUME SourcesAssumption ==
    /\ IsFiniteSet(Tasks)
    /\ IsInjective(Startup)
    /\ \A p \in Tasks : IsInjective(Spawns[p])
    /\ \A i \in DOMAIN Received : IsInjective(Received[i])
    /\ \A p \in Tasks : \A t \in ToSet(Spawns[p]) :
           /\ t \notin ToSet(Startup)
           /\ \A q \in Tasks \ {p} : t \notin ToSet(Spawns[q])
           /\ \A i \in DOMAIN Received : t \notin ToSet(Received[i])
    /\ \A i \in DOMAIN Received : \A t \in ToSet(Received[i]) :
           /\ t \notin ToSet(Startup)
           /\ \A j \in DOMAIN Received \ {i} : t \notin ToSet(Received[j])

VARIABLES
    items,      \* b->items of the buffer of each thread
    sysq,       \* eu_system_queue, front first
    lock,       \* holder of its spin lock, or Nobody
    made,       \* threads whose own buffer exists
    system,     \* threads that know the system queue
    queues,     \* eu_hierarch_queues of each thread, as their owners
    bar,        \* barrier arrivals of each thread
    pc,         \* where each thread is
    turn,       \* 0 for the own queue, then an index in queues
    idx,        \* index of a scan or of a push
    best,       \* best_elt
    bestidx,    \* best_idx
    hand,       \* the chain a push has still to store
    cur,        \* exec_context
    received,   \* lists of Received pushed so far
    taskstodo,  \* context->taskstodo
    present,    \* history: stored tasks a pop cannot claim not to have met
    enqueued, status, waited   \* history: what the user sees

setupVars == <<made, system, queues>>
popVars   == <<turn, best, bestidx, present>>
userVars  == <<enqueued, status, waited>>
vars == <<items, sysq, lock, setupVars, bar, pc, popVars, idx, hand, cur,
          received, taskstodo, userVars>>

Goto(w, l) == pc' = [pc EXCEPT ![w] = l]

Init ==
    /\ items = [w \in Workers |-> [i \in Slots |-> Null]]
    /\ sysq = <<>> /\ lock = Nobody
    /\ made = {} /\ system = {}
    /\ queues = [w \in Workers |-> <<>>]
    /\ bar = [w \in Workers |-> 0]
    /\ pc = [w \in Pushers |-> IF w = Comm THEN "idle" ELSE "init"]
    /\ turn = [w \in Workers |-> 0] /\ idx = [w \in Pushers |-> 0]
    /\ best = [w \in Workers |-> Null] /\ bestidx = [w \in Workers |-> 0]
    /\ present = [w \in Workers |-> {}]
    /\ hand = [w \in Pushers |-> <<>>]
    /\ cur = [w \in Workers |-> Null]
    /\ received = 0 /\ taskstodo = 0
    /\ enqueued = 0 /\ waited = 0
    /\ status = [t \in Tasks |-> "waiting"]

-----------------------------------------------------------------------------
(* Setting the queues up: __dague_thread_init.                             *)

\* The object n levels above the core of a thread, Null above the machine and
\* for a thread that has no core of its own.
Above(id, n) ==
    LET up[k \in 0..n] ==
            IF k = 0 THEN (IF id < Len(CoreObject) THEN CoreObject[id + 1] ELSE Null)
            ELSE IF up[k - 1] = Null THEN Null ELSE Parent[up[k - 1]]
    IN  up[n]

\* dague_hwloc_distance: twice the number of levels to the first common object,
\* 0 when there is none.
Distance(a, b) ==
    LET common == {n \in 0..NbLevels : Above(a, n) # Null /\ Above(a, n) = Above(b, n)}
    IN  IF common = {} THEN 0 ELSE 2 * (CHOOSE n \in common : \A m \in common : n <= m)

\* The other threads at a distance, from the next one on, round the cores.
AtLevel(w, level) ==
    LET next(i) == (w + i) % NbCores
    IN  FlattenSeq([i \in 1..(NbCores - 1) |->
            IF Distance(w, next(i)) \in {2 * level, 2 * level + 1} THEN <<next(i)>> ELSE <<>>])

\* Every other queue, from the closest to the farthest, and the mistake of
\* forgetting the level of the machine.
ByDistanceBelow(w) == FlattenSeq([l \in 1..NbLevels |-> AtLevel(w, l - 1)])
ByDistance(w) == FlattenSeq([l \in 1..(NbLevels + 1) |-> AtLevel(w, l - 1)])

Released(w) == \A v \in Workers : bar[v] >= bar[w]

\* The barrier after the system queue is made.
FirstBarrier(w) ==
    /\ pc[w] = "init"
    /\ system' = IF w = Master THEN system \cup {w} ELSE system
    /\ bar' = [bar EXCEPT ![w] = @ + 1]
    /\ Goto(w, "system_wait")
    /\ UNCHANGED <<items, sysq, lock, made, queues, popVars, idx, hand, cur, received, taskstodo, userVars>>

\* Past it, take the system queue of thread 0, make the own buffer and meet
\* the others again.
MakeBuffer(w) ==
    /\ pc[w] = "system_wait" /\ Released(w)
    /\ system' = IF Master \in system THEN system \cup {w} ELSE system
    /\ made' = made \cup {w}
    /\ bar' = [bar EXCEPT ![w] = @ + 1]
    /\ Goto(w, "buffer_wait")
    /\ UNCHANGED <<items, sysq, lock, queues, popVars, idx, hand, cur, received, taskstodo, userVars>>

\* Past it, collect the buffers of the others; one that is not there yet would
\* be a wild pointer, Null here.
OrderQueues(w) ==
    /\ pc[w] = "buffer_wait" /\ Released(w)
    /\ queues' = [queues EXCEPT ![w] =
           [i \in DOMAIN (<<w>> \o ByDistance(w)) |->
               LET v == (<<w>> \o ByDistance(w))[i] IN IF v \in made THEN v ELSE Nobody]]
    /\ Goto(w, IF w = Master THEN "app" ELSE "begin")
    /\ UNCHANGED <<items, sysq, lock, made, system, bar, popVars, idx, hand, cur, received, taskstodo, userVars>>

-----------------------------------------------------------------------------
(* dague_hbbuffer_push_all                                                 *)

\* Who fills which buffer.
Target(w) == IF w = Comm THEN Master ELSE w

\* What the caller does after a push.
AfterPush(w) == IF w = Comm THEN "idle" ELSE IF w = Master /\ cur[w] = Null THEN "begin" ELSE "loop"

StartPush(w, list) == hand' = [hand EXCEPT ![w] = list] /\ idx' = [idx EXCEPT ![w] = 0]

\* What is left to store once the first element is, and the place of the
\* next attempt. A chain that has reached the end of the buffer overflows.
StoreNext(w, left) ==
    /\ hand' = [hand EXCEPT ![w] = left]
    /\ idx' = [idx EXCEPT ![w] = @ + 1]
    /\ Goto(w, IF left = <<>> THEN AfterPush(w)
               ELSE IF idx[w] + 1 = QueueSize THEN "overflow" ELSE "push")

\* The compare of the compare-and-swap on a slot, and the mistake of none.
SlotUnchecked(w, i) == TRUE
SlotIs(w, i) == items[Target(w)][i] = Null

Push(w) ==
    /\ pc[w] = "push"
    /\ IF SlotIs(w, idx[w])
       THEN /\ items' = [items EXCEPT ![Target(w)][idx[w]] = Head(hand[w])]
            /\ StoreNext(w, Tail(hand[w]))
       ELSE StoreNext(w, hand[w]) /\ UNCHANGED items
    /\ UNCHANGED <<sysq, lock, setupVars, bar, popVars, cur, received, taskstodo, userVars>>

SpinLock(w) ==
    /\ pc[w] = "overflow" /\ lock = Nobody
    /\ lock' = w
    /\ Goto(w, "overflow_locked")
    /\ UNCHANGED <<items, sysq, setupVars, bar, popVars, idx, hand, cur, received, taskstodo, userVars>>

\* push_in_queue_wrapper: the element that found no room has been chained again
\* in front of the others.
Overflow(w) ==
    /\ pc[w] = "overflow_locked"
    /\ sysq' = sysq \o hand[w]
    /\ lock' = Nobody
    /\ hand' = [hand EXCEPT ![w] = <<>>]
    /\ Goto(w, AfterPush(w))
    /\ UNCHANGED <<items, setupVars, bar, popVars, idx, cur, received, taskstodo, userVars>>

-----------------------------------------------------------------------------
(* dague_hbbuffer_pop_best                                                 *)

Buffer(w) == IF turn[w] = 0 THEN w ELSE queues[w][turn[w]]
Stored(b) == {items[b][i] : i \in Slots} \ {Null}

StartPop(w, n) ==
    /\ turn' = [turn EXCEPT ![w] = n]
    /\ idx' = [idx EXCEPT ![w] = 0]
    /\ best' = [best EXCEPT ![w] = Null]
    /\ UNCHANGED bestidx
    /\ present' = [present EXCEPT ![w] = Stored(IF n = 0 THEN w ELSE queues[w][n])]
    /\ Goto(w, "scan")

\* Does a candidate replace the best so far? And the mistake of always.
AnyBetter(w, t) == t # Null
Better(w, t) == t # Null /\ (best[w] = Null \/ Rank[t] = Best \/ Rank[t] > Rank[best[w]])

\* One slot is read. A task that no other can beat ends the scan.
Scan(w) ==
    LET t == items[Buffer(w)][idx[w]]
        found == IF Better(w, t) THEN t ELSE best[w]
    IN  /\ pc[w] = "scan"
        /\ best' = [best EXCEPT ![w] = found]
        /\ bestidx' = IF Better(w, t) THEN [bestidx EXCEPT ![w] = idx[w]] ELSE bestidx
        /\ IF found # Null /\ (idx[w] = QueueSize - 1 \/ (Better(w, t) /\ Rank[t] = Best))
           THEN Goto(w, "take") /\ UNCHANGED idx
           ELSE IF idx[w] = QueueSize - 1
           THEN Goto(w, "missed") /\ UNCHANGED idx
           ELSE idx' = [idx EXCEPT ![w] = @ + 1] /\ UNCHANGED pc
        /\ UNCHANGED <<items, sysq, lock, setupVars, bar, turn, present, hand, cur, received, taskstodo, userVars>>

\* The compare of the compare-and-swap that empties the slot, and the mistake
\* of none.
TakeUnchecked(w) == TRUE
StillThere(w) == items[Buffer(w)][bestidx[w]] = best[w]

Take(w) ==
    /\ pc[w] = "take"
    /\ IF StillThere(w)
       THEN /\ items' = [items EXCEPT ![Buffer(w)][bestidx[w]] = Null]
            /\ cur' = [cur EXCEPT ![w] = best[w]]
            /\ present' = [v \in Workers |-> present[v] \ {best[w]}]
            /\ Goto(w, "done_task")
            /\ UNCHANGED <<turn, idx, best, bestidx>>
       ELSE /\ idx' = [idx EXCEPT ![w] = 0]
            /\ best' = [best EXCEPT ![w] = Null]
            /\ Goto(w, "scan")
            /\ UNCHANGED <<items, cur, turn, bestidx, present>>
    /\ UNCHANGED <<sysq, lock, setupVars, bar, hand, received, taskstodo, userVars>>

-----------------------------------------------------------------------------
(* __dague_progress                                                        *)

\* The barriers that open and close the round.
Arrive(w) ==
    /\ pc[w] \in {"begin", "end"}
    /\ bar' = [bar EXCEPT ![w] = @ + 1]
    /\ Goto(w, IF pc[w] = "begin" THEN "begin_wait" ELSE "end_wait")
    /\ UNCHANGED <<items, sysq, lock, setupVars, popVars, idx, hand, cur, received, taskstodo, userVars>>

Leave(w) ==
    /\ pc[w] \in {"begin_wait", "end_wait"} /\ Released(w)
    /\ Goto(w, IF pc[w] = "begin_wait" THEN "loop" ELSE "out")
    /\ waited' = IF pc[w] = "end_wait" /\ w = Master THEN enqueued ELSE waited
    /\ UNCHANGED <<items, sysq, lock, setupVars, bar, popVars, idx, hand, cur, received, taskstodo, enqueued, status>>

\* nb_local_tasks.
LocalTasks == Cardinality(Tasks)

\* dague_enqueue on the master, before it calls dague_wait.
Enqueue ==
    /\ pc[Master] = "app"
    /\ taskstodo' = taskstodo + LocalTasks
    /\ enqueued' = 1
    /\ StartPush(Master, Startup)
    /\ Goto(Master, IF Startup = <<>> THEN "begin" ELSE "push")
    /\ UNCHANGED <<items, sysq, lock, setupVars, bar, popVars, cur, received, status, waited>>

\* dague_remote_dep_on has been called by dague_wait.
NetworkOn == pc[Master] = "begin" \/ bar[Master] > 2

Receive ==
    /\ pc[Comm] = "idle" /\ NetworkOn
    /\ received < Len(Received)
    /\ received' = received + 1
    /\ StartPush(Comm, Received[received + 1])
    /\ Goto(Comm, "push")
    /\ UNCHANGED <<items, sysq, lock, setupVars, bar, popVars, cur, taskstodo, userVars>>

Loop(w) ==
    /\ pc[w] = "loop"
    /\ IF taskstodo = 0 THEN Goto(w, "end") /\ UNCHANGED <<popVars, idx>> ELSE StartPop(w, 0)
    /\ UNCHANGED <<items, sysq, lock, setupVars, bar, hand, cur, received, taskstodo, userVars>>

\* A pop that returned NULL: the next buffer, then the system queue.
Miss(w) ==
    /\ pc[w] = "missed"
    /\ IF turn[w] < Len(queues[w]) THEN StartPop(w, turn[w] + 1)
       ELSE Goto(w, "system") /\ UNCHANGED <<popVars, idx>>
    /\ UNCHANGED <<items, sysq, lock, setupVars, bar, hand, cur, received, taskstodo, userVars>>

\* DAGUE_SYSTEM_POP: a try-lock, then the front of the dequeue.
TryLock(w) ==
    /\ pc[w] = "system"
    /\ IF lock = Nobody THEN lock' = w /\ Goto(w, "system_locked")
       ELSE Goto(w, "loop") /\ UNCHANGED lock
    /\ UNCHANGED <<items, sysq, setupVars, bar, popVars, idx, hand, cur, received, taskstodo, userVars>>

SystemPop(w) ==
    /\ pc[w] = "system_locked"
    /\ lock' = Nobody
    /\ IF sysq = <<>> THEN Goto(w, "loop") /\ UNCHANGED <<sysq, cur>>
       ELSE /\ sysq' = Tail(sysq)
            /\ cur' = [cur EXCEPT ![w] = Head(sysq)]
            /\ Goto(w, "done_task")
    /\ UNCHANGED <<items, setupVars, bar, popVars, idx, hand, received, taskstodo, userVars>>

DoneTask(w) ==
    /\ pc[w] = "done_task"
    /\ taskstodo' = taskstodo - 1
    /\ Goto(w, "execute")
    /\ UNCHANGED <<items, sysq, lock, setupVars, bar, popVars, idx, hand, cur, received, userVars>>

\* The hook, then release_deps with the list of what became ready.
Execute(w) ==
    /\ pc[w] = "execute"
    /\ status' = [status EXCEPT ![cur[w]] = "running"]
    /\ Goto(w, "running")
    /\ UNCHANGED <<items, sysq, lock, setupVars, bar, popVars, idx, hand, cur, received, taskstodo, enqueued, waited>>

ReleaseDeps(w) ==
    /\ pc[w] = "running"
    /\ status' = [status EXCEPT ![cur[w]] = "done"]
    /\ StartPush(w, Spawns[cur[w]])
    /\ Goto(w, IF Spawns[cur[w]] = <<>> THEN "loop" ELSE "push")
    /\ UNCHANGED <<items, sysq, lock, setupVars, bar, popVars, cur, received, taskstodo, enqueued, waited>>

-----------------------------------------------------------------------------

PushStep(w) == Push(w) \/ Overflow(w)
Step(w) ==
    \/ FirstBarrier(w) \/ MakeBuffer(w) \/ OrderQueues(w)
    \/ Arrive(w) \/ Leave(w)
    \/ Loop(w) \/ Scan(w) \/ Take(w) \/ Miss(w)
    \/ TryLock(w) \/ SystemPop(w)
    \/ DoneTask(w) \/ Execute(w) \/ ReleaseDeps(w)

\* Back from dague_wait, with every list received.
Ended ==
    /\ \A w \in Workers : pc[w] = "out"
    /\ pc[Comm] = "idle" /\ received = Len(Received)
    /\ UNCHANGED vars

Next ==
    \/ \E w \in Workers : Step(w)
    \/ \E w \in Pushers : PushStep(w) \/ SpinLock(w)
    \/ Enqueue \/ Receive \/ Ended

Spec == Init /\ [][Next]_vars
FairSpec ==
    /\ Spec
    /\ \A w \in Workers : WF_vars(Step(w))
    /\ \A w \in Pushers : WF_vars(PushStep(w)) /\ SF_vars(SpinLock(w))
    /\ WF_vars(Enqueue) /\ WF_vars(Receive)

-----------------------------------------------------------------------------
(* Correctness.                                                            *)

Setup == {"init", "system_wait", "buffer_wait"}

\* Once it is set up a thread knows the system queue and the queue of every
\* thread, its own first: the levels of the machine leave none out, so nobody's
\* tasks are out of its reach, and the barriers leave no pointer unset.
KnowsEveryQueue ==
    \A w \in Workers : pc[w] \notin Setup =>
        /\ w \in system
        /\ Len(queues[w]) = NbCores /\ ToSet(queues[w]) = Workers
        /\ queues[w][1] = w

\* A pop that gives up has not overlooked a task that was stored all the
\* while, and the one it takes has the best rank among those.
PopIsBest ==
    \A w \in Workers :
        /\ pc[w] = "missed" => present[w] = {}
        /\ pc[w] = "done_task" /\ best[w] = cur[w] =>
              \A t \in present[w] : Rank[t] <= Rank[cur[w]]

\* Tasks run once each, after the task that made them ready, and dague_wait
\* returns after all of them, whichever way they took through the buffers.
TG == INSTANCE TaskGraph WITH
          Objects <- {1},
          ObjectOf <- [t \in Tasks |-> 1],
          PredsOf <- [t \in Tasks |-> {p \in Tasks : t \in ToSet(Spawns[p])}]
ImplementsTaskGraph == TG!Spec

\* The round ends: two pushers of one buffer do not overwrite each other, no
\* chain is lost on the way to the overflow queue, and a task that a failed
\* try-lock hid is found later.
RoundEnds == <>(\A w \in Workers : pc[w] = "out")
=============================================================================
