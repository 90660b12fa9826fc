----------------------------- MODULE TaskGraph -----------------------------
(***************************************************************************)
(* What the runtime promises its user: the tasks of an enqueued object run *)
(* exactly once each, a task starts only after the tasks it takes its      *)
(* inputs from are finished, and dague_wait returns only when every task   *)
(* enqueued so far is finished.                                            *)
(***************************************************************************)
EXTENDS Naturals

CONSTANTS
    Tasks,      \* the task instances of every object
    Objects,    \* the objects, numbered 1..n in the order of their enqueue
    ObjectOf,   \* [Tasks -> Objects]
    PredsOf     \* [Tasks -> SUBSET Tasks]

VARIABLES
    enqueued,   \* objects given to dague_enqueue so far: 1..enqueued
    status,     \* [Tasks -> {"waiting", "running", "done"}]
    waited      \* objects enqueued when dague_wait last returned: 1..waited

vars == <<enqueued, status, waited>>

EnqueuedTasks == {t \in Tasks : ObjectOf[t] <= enqueued}

Init ==
    /\ enqueued = 0
    /\ status = [t \in Tasks |-> "waiting"]
    /\ waited = 0

Enqueue ==
    /\ enqueued + 1 \in Objects
    /\ enqueued' = enqueued + 1
    /\ UNCHANGED <<status, waited>>

Start(t) ==
    /\ t \in EnqueuedTasks
    /\ status[t] = "waiting"
    /\ \A p \in PredsOf[t] : status[p] = "done"
    /\ status' = [status EXCEPT ![t] = "running"]
    /\ UNCHANGED <<enqueued, waited>>

Finish(t) ==
    /\ status[t] = "running"
    /\ status' = [status EXCEPT ![t] = "done"]
    /\ UNCHANGED <<enqueued, waited>>

WaitReturns ==
    /\ \A t \in EnqueuedTasks : status[t] = "done"
    /\ waited' = enqueued
    /\ UNCHANGED <<enqueued, status>>

Next ==
    \/ Enqueue
    \/ \E t \in Tasks : Start(t) \/ Finish(t)
    \/ WaitReturns

Spec == Init /\ [][Next]_vars
=============================================================================
