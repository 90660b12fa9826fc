---------------------------- MODULE AbstractRun ----------------------------
(***************************************************************************)
(* What a program asks of the run of its object: every task of its graph   *)
(* runs once, after the tasks that produce its inputs and with the values  *)
(* they produced, and dague_wait returns on a node when the tasks of that  *)
(* node are done.                                                          *)
(***************************************************************************)
CONSTANT Graphs   \* one record per program: tasks, preds, inputs, home, nodes

VARIABLES
    graph,        \* the program that runs
    status,       \* of each of its tasks
    seen,         \* what each task that started found in its flows
    waited        \* the nodes where dague_wait has returned

vars == <<graph, status, seen, waited>>

G == Graphs[graph]

Init ==
    /\ graph \in DOMAIN Graphs
    /\ status = [t \in G.tasks |-> "waiting"]
    /\ seen = [t \in G.tasks |-> <<>>]
    /\ waited = {}

Start(t) ==
    /\ status[t] = "waiting"
    /\ \A u \in G.preds[t] : status[u] = "done"
    /\ status' = [status EXCEPT ![t] = "running"]
    /\ seen' = [seen EXCEPT ![t] = G.inputs[t]]
    /\ UNCHANGED <<graph, waited>>

Finish(t) ==
    /\ status[t] = "running"
    /\ status' = [status EXCEPT ![t] = "done"]
    /\ UNCHANGED <<graph, seen, waited>>

Wait(r) ==
    /\ r \notin waited
    /\ \A t \in G.tasks : G.home[t] = r => status[t] = "done"
    /\ waited' = waited \cup {r}
    /\ UNCHANGED <<graph, status, seen>>

Next == \/ \E t \in G.tasks : Start(t) \/ Finish(t)
        \/ \E r \in G.nodes : Wait(r)

Spec == Init /\ [][Next]_vars
=============================================================================
