----------------------------- MODULE RemoteDep -----------------------------
(***************************************************************************)
(* Data that crosses nodes. A finished task whose successors live on other *)
(* nodes fills a descriptor of what each rank needs and sends each rank    *)
(* one activation, through the command queue of the communication thread.  *)
(* The receiver answers with a request (get), the data follow (put), one   *)
(* message for each output, and the arrival of an output releases its      *)
(* local successors. context->taskstodo also counts the activations not    *)
(* served yet, so that a node does not leave dague_wait too early.         *)
(*                                                                         *)
(* The topology is the default one: the root of a task sends to every rank *)
(* (remote_dep_bcast_star_child). Nodes run one round of dague_wait each,  *)
(* at their own pace. A task that is ready may be run by any thread of its *)
(* node: module Scheduling says how it is found.                           *)
(*                                                                         *)
(* The network is the MPI library: it loses nothing, buffers control       *)
(* messages, and completes the requests MPI_Testany looks at in any order. *)
(***************************************************************************)
EXTENDS Integers, Sequences, FiniteSets, FiniteSetsExt

CONSTANTS
    NbNodes,        \* context->nb_nodes
    NbThreads,      \* threads of each node that run tasks
    Tasks,          \* the task instances of the object
    Rank,           \* [Tasks -> Nodes]: rank_of
    Out,            \* [Tasks -> [Outputs -> SUBSET Tasks]]: iterate_successors
    Received,       \* outputs that pass on an arena chunk another node sent
    MaxParamCount,  \* MAX_PARAM_COUNT
    NbConcurrent,   \* DEP_NB_CONCURENT
    MaxTag,         \* MAX_MPI_TAG
    NoTask

\* A single node has no communication thread and no command queue.
Nodes   == 0..(NbNodes - 1)
Outputs == 0..(MaxParamCount - 1)
Threads == Nodes \X (0..(NbThreads - 1))
Slots   == 0..(NbConcurrent - 1)
Data    == Tasks \X Outputs
FirstTag == 4                        \* REMOTE_DEP_MAX_CTRL_TAG + 1

\* The ranks of the successors of an output, its own included, and the data a
\* task takes as inputs.
RanksOf(t, k) == {Rank[s] : s \in Out[t][k]}
Inputs(t) == {d \in Data : t \in Out[d[1]][d[2]]}
LocalSuccessors(t, k) == {s \in Out[t][k] : Rank[s] = Rank[t]}

ASSUME SizeAssumption ==
    /\ NbNodes \in Nat \ {0, 1} /\ NbThreads \in Nat \ {0}
    /\ MaxParamCount \in Nat \ {0} /\ NbConcurrent \in Nat \ {0}
    /\ MaxTag \in Nat /\ MaxParamCount < MaxTag
ASSUME RemoteGraphAssumption ==
    /\ IsFiniteSet(Tasks) /\ NoTask \notin Tasks
    /\ Rank \in [Tasks -> Nodes]
    /\ Out \in [Tasks -> [Outputs -> SUBSET Tasks]]
\* A received chunk that a task passes on came with one of its inputs.
ASSUME ReceivedAssumption ==
    /\ Received \subseteq Data
    /\ \A d \in Received : \E i \in Inputs(d[1]) : Rank[i[1]] # Rank[d[1]]

VARIABLES
    todo,       \* context->taskstodo of each node
    status,     \* history: "waiting", "running", "done" for each task
    released,   \* history: for each node and datum, what release_deps was given
    refs,       \* reference count of the chunk of each received output
    freed,      \* received outputs whose chunk went back to the arena
    thread,     \* where each thread is, and the locals of its activate loop
    desc,       \* the dague_remote_deps_t first allocated for each task
    freelist,   \* remote_deps_freelist of each node
    cmds,       \* dep_cmd_queue of each node
    enabled,    \* dep_enabled of each node
    act,        \* dep_activate_req and dep_activate_buff
    get,        \* dep_get_req and dep_get_buff
    nexttag,    \* NEXT_TAG of each node
    net         \* messages sent and not received

taskVars == <<status, released, refs, freed>>
descVars == <<desc, freelist>>
commVars == <<enabled, act, get, nexttag>>
vars == <<todo, taskVars, thread, descVars, cmds, commVars, net>>

Idle == [at |-> "start", task |-> NoTask, deps |-> NoTask, out |-> 0, count |-> 0,
         left |-> 0, mask |-> {}]
Blank == [task |-> NoTask, output |-> [k \in Outputs |-> {}], count |-> 0, sent |-> 0,
          forwarded |-> {}]
NoActivate == [state |-> "null", from |-> 0, deps |-> NoTask, task |-> NoTask, which |-> {},
               done |-> {}, recv |-> {}, tag |-> 0]
NoGet == [state |-> "null", to |-> 0, deps |-> NoTask, which |-> {}]

\* remote_dep_mpi_init: the network is off, and every request is null.
MpiInit ==
    /\ enabled = [n \in Nodes |-> FALSE]
    /\ act = [n \in Nodes |-> [i \in Slots |-> NoActivate]]
    /\ get = [n \in Nodes |-> [i \in Slots |-> NoGet]]
    /\ nexttag = [n \in Nodes |-> FirstTag]
    /\ net = {}

Init ==
    /\ todo = [n \in Nodes |-> Cardinality({t \in Tasks : Rank[t] = n})]
    /\ status = [t \in Tasks |-> "waiting"]
    /\ released = [n \in Nodes |-> [d \in Data |-> <<>>]]
    /\ refs = [d \in Received |-> 0]
    /\ freed = {}
    /\ thread = [w \in Threads |-> Idle]
    /\ desc = [d \in Tasks |-> Blank]
    /\ freelist = [n \in Nodes |-> <<>>]
    /\ cmds = [n \in Nodes |-> <<>>]
    /\ MpiInit

-----------------------------------------------------------------------------
(* Chunks and descriptors.                                                 *)

\* AUNREF of some chunks: the last reference gives the chunk back. Memory of
\* the user (an output not in Received) is not counted. AREF, and its absence.
Unref(data) ==
    /\ refs' = [d \in Received |-> IF d \in data THEN refs[d] - 1 ELSE refs[d]]
    /\ freed' = freed \cup {d \in data \cap Received : refs[d] = 1}
NoRef(d) == UNCHANGED refs
Ref(d) == refs' = [e \in Received |-> IF e = d THEN refs[e] + 1 ELSE refs[e]]

\* remote_deps_allocation for task t: the head of the free list of the node,
\* else a new descriptor, which takes the name of the task.
Allocated(n, t) == IF freelist[n] = <<>> THEN t ELSE Head(freelist[n])
PopFree(n) == freelist' = [freelist EXCEPT ![n] = IF @ = <<>> THEN <<>> ELSE Tail(@)]

\* The descriptor SEND_INIT fills for the outputs ks of task t, with the count
\* that dague_remote_dep_activate stores. The count includes the rank of t.
RankBits(t, ks) == [k \in Outputs |-> IF k \in ks THEN RanksOf(t, k) ELSE {}]
NbRanks(t, ks) == Cardinality({p \in ks \X Nodes : p[2] \in RanksOf(t, p[1])})
Filled(t, ks) ==
    [task |-> t, output |-> RankBits(t, ks), count |-> NbRanks(t, ks), sent |-> 0, forwarded |-> {}]

-----------------------------------------------------------------------------
(* The threads that run tasks.                                             *)

Goto(w, l) == thread' = [thread EXCEPT ![w].at = l]

\* The commands a thread queues for the communication thread.
DequeueOn(n)  == cmds' = [cmds EXCEPT ![n] = Append(@, [action |-> "on"])]
DequeueOff(n) == cmds' = [cmds EXCEPT ![n] = Append(@, [action |-> "off"])]
DequeueSend(n, rank, d) ==
    cmds' = [cmds EXCEPT ![n] = Append(@, [action |-> "activate", rank |-> rank, deps |-> d])]

\* dague_wait switches the network on and lets the threads of the node start.
WaitBegins(n) ==
    /\ \A w \in Threads : w[1] = n => thread[w].at = "start"
    /\ DequeueOn(n)
    /\ thread' = [w \in Threads |-> IF w[1] = n THEN [thread[w] EXCEPT !.at = "loop"] ELSE thread[w]]
    /\ UNCHANGED <<todo, taskVars, descVars, commVars, net>>

\* Every input of the task has been released on its node; the mistake of "any".
AnyReleased(t) == Inputs(t) = {} \/ \E d \in Inputs(t) : released[Rank[t]][d] # <<>>
AllReleased(t) == \A d \in Inputs(t) : released[Rank[t]][d] # <<>>

\* done_task, then the hook. The task holds a reference on the chunks it passes on.
Run(w) ==
    /\ thread[w].at = "loop" /\ todo[w[1]] # 0
    /\ \E t \in Tasks :
          /\ Rank[t] = w[1] /\ status[t] = "waiting" /\ AllReleased(t)
          /\ status' = [status EXCEPT ![t] = "running"]
          /\ thread' = [thread EXCEPT ![w].at = "release", ![w].task = t]
          /\ refs' = [d \in Received |-> IF d[1] = t THEN 1 ELSE refs[d]]
    /\ todo' = [todo EXCEPT ![w[1]] = @ - 1]
    /\ UNCHANGED <<released, freed, descVars, cmds, commVars, net>>

\* dague_remote_dep_activate, for( i = 0; remote_deps_count; i++ ): the next
\* output with a count, from the i-th on. A loop that runs out of outputs
\* before it has met all the ranks reads past the descriptor ("overrun"). The
\* code goes on with whatever lies there; the thread of the model stops.
LookAt(here, output, i) ==
    LET next == {k \in Outputs : k >= i /\ output[k] # {}}
    IN  IF here.left = 0 THEN [here EXCEPT !.at = "drop"]
        ELSE IF next = {} THEN [here EXCEPT !.at = "overrun"]
        ELSE [here EXCEPT !.at = "rank", !.out = Min(next), !.mask = output[Min(next)], !.count = 0]

\* release_deps up to dague_remote_dep_activate: the local successors are
\* released, each with a reference, and the descriptor is filled.
Release(w) ==
    LET t == thread[w].task
        n == w[1]
        d == Allocated(n, t)
    IN  /\ thread[w].at = "release"
        /\ status' = [status EXCEPT ![t] = "done"]
        /\ released' = [released EXCEPT ![n] = [e \in Data |->
                           IF e[1] = t /\ LocalSuccessors(t, e[2]) # {} THEN Append(@[e], e) ELSE @[e]]]
        /\ refs' = [e \in Received |-> IF e[1] = t THEN refs[e] + Cardinality(LocalSuccessors(t, e[2]))
                                                   ELSE refs[e]]
        /\ IF NbRanks(t, Outputs) = 0
           THEN Goto(w, "drop") /\ UNCHANGED descVars
           ELSE /\ desc' = [desc EXCEPT ![d] = Filled(t, Outputs)]
                /\ PopFree(n)
                /\ thread' = [thread EXCEPT ![w] =
                                 LookAt([@ EXCEPT !.deps = d, !.left = NbRanks(t, Outputs)],
                                        RankBits(t, Outputs), 0)]
        /\ UNCHANGED <<todo, freed, cmds, commVars, net>>

\* The loop goes on to the next rank of the bitmap.
NextBit(w, rank) ==
    thread' = [thread EXCEPT ![w].mask = @ \ {rank}, ![w].count = @ + 1, ![w].left = @ - 1,
                             ![w].at = IF thread[w].mask = {rank} THEN "counted" ELSE "rank"]

\* The next rank of the bitmap. The root itself is there when it has local
\* successors, and is skipped. An activation tells a rank of every output it
\* needs, so the rank is sent one only the first time it is met. The count of
\* flying messages goes up before the command is queued; the mistake of not
\* counting.
NotCounted(n) == UNCHANGED todo
IncFlying(n) == todo' = [todo EXCEPT ![n] = @ + 1]

NextRank(w) ==
    LET here == thread[w]
        rank == Min(here.mask)
    IN  /\ here.at = "rank"
        /\ IF rank = w[1] THEN UNCHANGED refs ELSE Ref(<<here.task, here.out>>)
        /\ IF rank = w[1] \/ rank \in desc[here.deps].forwarded
           THEN NextBit(w, rank) /\ UNCHANGED todo
           ELSE Goto(w, "send") /\ IncFlying(w[1])
        /\ UNCHANGED <<status, released, freed, descVars, cmds, commVars, net>>

\* remote_dep_mark_forwarded and remote_dep_send, once the message is counted.
SendRank(w) ==
    LET here == thread[w]
        rank == Min(here.mask)
    IN  /\ here.at = "send"
        /\ desc' = [desc EXCEPT ![here.deps].forwarded = @ \cup {rank}]
        /\ DequeueSend(w[1], rank, here.deps)
        /\ NextBit(w, rank)
        /\ UNCHANGED <<todo, taskVars, freelist, commVars, net>>

\* count < output[i].count is read again after the last rank was sent. A larger
\* count makes the loop read past the bitmap, and the thread of the model stop.
Counted(w) ==
    LET here == thread[w]
        output == desc[here.deps].output
    IN  /\ here.at = "counted"
        /\ thread' = [thread EXCEPT ![w] =
                         IF here.count < Cardinality(output[here.out])
                         THEN [here EXCEPT !.at = "overrun"]
                         ELSE LookAt(here, output, here.out + 1)]
        /\ UNCHANGED <<todo, taskVars, descVars, cmds, commVars, net>>

\* The end of release_deps: the task drops its references on its inputs, the
\* chunks it passed on and those its local predecessors gave it.
Drop(w) ==
    LET t == thread[w].task
        passed == {d \in Data : d[1] = t}
    IN  /\ thread[w].at = "drop"
        /\ Unref(passed \cup {d \in Inputs(t) : Rank[d[1]] = w[1]})
        /\ thread' = [thread EXCEPT ![w] = [Idle EXCEPT !.at = "loop"]]
        /\ UNCHANGED <<todo, status, released, descVars, cmds, commVars, net>>

\* while( !all_tasks_done ): out of the loop, to the barrier of the round.
Leave(w) ==
    /\ thread[w].at = "loop" /\ todo[w[1]] = 0
    /\ Goto(w, "left")
    /\ UNCHANGED <<todo, taskVars, descVars, cmds, commVars, net>>

\* All the threads of the node passed the barrier: dague_wait switches the
\* network off and returns.
WaitReturns(n) ==
    /\ \A w \in Threads : w[1] = n => thread[w].at = "left"
    /\ DequeueOff(n)
    /\ thread' = [w \in Threads |-> IF w[1] = n THEN [thread[w] EXCEPT !.at = "ended"] ELSE thread[w]]
    /\ UNCHANGED <<todo, taskVars, descVars, commVars, net>>

-----------------------------------------------------------------------------
(* The communication thread: remote_dep_dequeue_main takes a command, or   *)
(* looks at one completed request (remote_dep_mpi_progress).               *)

PopCommand(n, action) ==
    /\ cmds[n] # <<>> /\ Head(cmds[n]).action = action
    /\ cmds' = [cmds EXCEPT ![n] = Tail(@)]

\* remote_dep_mpi_on: post the receptions.
MpiOn(n) ==
    /\ PopCommand(n, "on")
    /\ enabled' = [enabled EXCEPT ![n] = TRUE]
    /\ act' = [act EXCEPT ![n] = [i \in Slots |-> [NoActivate EXCEPT !.state = "posted"]]]
    /\ get' = [get EXCEPT ![n] = [i \in Slots |-> [NoGet EXCEPT !.state = "posted"]]]
    /\ UNCHANGED <<todo, taskVars, thread, descVars, nexttag, net>>

\* remote_dep_mpi_off: cancel them.
MpiOff(n) ==
    /\ PopCommand(n, "off")
    /\ enabled' = [enabled EXCEPT ![n] = FALSE]
    /\ act' = [act EXCEPT ![n] = [i \in Slots |-> NoActivate]]
    /\ get' = [get EXCEPT ![n] = [i \in Slots |-> NoGet]]
    /\ UNCHANGED <<todo, taskVars, thread, descVars, nexttag, net>>

\* remote_dep_mpi_send_dep: MPI_Send of the activation.
SendDep(n, rank, d, which) ==
    net' = net \cup {[type |-> "activate", from |-> n, to |-> rank, deps |-> d,
                      task |-> desc[d].task, which |-> which]}

\* remote_dep_nothread_send: the outputs this rank needs, then the message.
SendActivate(n) ==
    /\ PopCommand(n, "activate")
    /\ LET c == Head(cmds[n])
       IN  SendDep(n, c.rank, c.deps, {k \in Outputs : c.rank \in desc[c.deps].output[k]})
    /\ UNCHANGED <<todo, taskVars, thread, descVars, commVars>>

\* INC_NEXT_TAG, and the mistake of keeping the tag.
SameTag(tag) == tag
IncNextTag(tag) == IF tag < MaxTag - MaxParamCount THEN tag + MaxParamCount
                   ELSE FirstTag + MaxParamCount

\* MPI_Start on the slot of a transfer that ended; the mistake of leaving it so.
NotPosted(slot) == slot
Posted(slot) == [slot EXCEPT !.state = "posted"]

\* The slots that listen are alike: the first one is taken.
Listening(slots, i) == slots[i].state = "posted" /\ \A j \in 0..(i - 1) : slots[j].state # "posted"

\* remote_dep_mpi_get_data: an activation arrived in slot i. Receptions for
\* all its outputs are posted and the data are asked for.
GetData(n, i) ==
    /\ Listening(act[n], i)
    /\ \E m \in net :
          /\ m.type = "activate" /\ m.to = n
          /\ act' = [act EXCEPT ![n][i] =
                        [state |-> "busy", from |-> m.from, deps |-> m.deps, task |-> m.task,
                         which |-> m.which, done |-> {}, recv |-> m.which, tag |-> nexttag[n]]]
          /\ net' = (net \ {m}) \cup {[type |-> "get", from |-> n, to |-> m.from, deps |-> m.deps,
                                       which |-> m.which, tag |-> nexttag[n]]}
    /\ nexttag' = [nexttag EXCEPT ![n] = IncNextTag(@)]
    /\ UNCHANGED <<todo, taskVars, thread, descVars, cmds, enabled, get>>

\* remote_dep_mpi_put_data: a request arrived in slot i; send what it asks for.
PutData(n, i) ==
    /\ Listening(get[n], i)
    /\ \E m \in net :
          /\ m.type = "get" /\ m.to = n
          /\ get' = [get EXCEPT ![n][i] =
                        [state |-> "busy", to |-> m.from, deps |-> m.deps, which |-> m.which]]
          /\ net' = (net \ {m}) \cup {[type |-> "put", from |-> n, to |-> m.from, tag |-> m.tag + k,
                                       data |-> <<desc[m.deps].task, k>>] : k \in m.which}
    /\ UNCHANGED <<todo, taskVars, thread, descVars, cmds, enabled, act, nexttag>>

\* What becomes of a descriptor when one more output has been sent: after the
\* last one it is cleaned, but for the ranks that were told, and returns to the
\* free list.
Cleanup(n, d) ==
    IF desc[d].sent + 1 = desc[d].count
    THEN /\ desc' = [desc EXCEPT ![d] = [Blank EXCEPT !.forwarded = desc[d].forwarded]]
         /\ freelist' = [freelist EXCEPT ![n] = <<d>> \o @]
    ELSE /\ desc' = [desc EXCEPT ![d].sent = @ + 1]
         /\ UNCHANGED freelist

\* The activation served by slot i stops flying with its last output; the
\* mistake of counting every output.
EachOutput(n, i, k) == TRUE
LastOutput(n, i, k) == get[n][i].which = {k}

\* The sending of output k asked for in slot i is complete. The slot listens
\* again after the last output.
PutEnd(n, i, k) ==
    LET slot == get[n][i]
        which == slot.which \ {k}
    IN  /\ slot.state = "busy" /\ k \in slot.which
        /\ Unref({<<desc[slot.deps].task, k>>})
        /\ get' = [get EXCEPT ![n][i] = IF which = {} THEN Posted(NoGet)
                                        ELSE [@ EXCEPT !.which = which]]
        /\ todo' = [todo EXCEPT ![n] = IF LastOutput(n, i, k) THEN @ - 1 ELSE @]
        /\ Cleanup(n, slot.deps)
        /\ UNCHANGED <<status, released, thread, cmds, enabled, act, nexttag, net>>

\* remote_dep_nothread_release at the end of a slot: what was released leaves
\* "which" and the mask of finished outputs is emptied; and the mistake the
\* comment before the call warns of, a mask that keeps its bits.
KeepsDone(slot) == [slot EXCEPT !.which = SymDiff(@, slot.done)]
AfterRelease(slot) == [slot EXCEPT !.which = SymDiff(@, slot.done), !.done = {}]

\* The descriptor that release allocates on a node that is not the root: it
\* takes one off the free list, fills it, sends nothing and never gives it back.
Spoil(n, t, ks) ==
    /\ PopFree(n)
    /\ desc' = [d \in Tasks |-> IF freelist[n] # <<>> /\ d = Head(freelist[n]) THEN Filled(t, ks)
                                ELSE desc[d]]

\* Output k of slot i has been received: release the local successors of the
\* outputs that are finished, and listen again after the last one.
DataEnd(n, i, k) ==
    LET slot == act[n][i]
        done == slot.done \cup {k}
        after == AfterRelease([slot EXCEPT !.done = done, !.recv = @ \ {k}])
    IN  /\ slot.state = "busy" /\ k \in slot.recv
        /\ \E m \in net :
              /\ m.type = "put" /\ m.to = n /\ m.from = slot.from /\ m.tag = slot.tag + k
              /\ net' = net \ {m}
              /\ released' = [released EXCEPT ![n] = [d \in Data |->
                                 IF d[1] = slot.task /\ d[2] \in done
                                 THEN Append(@[d], IF d[2] = k THEN m.data ELSE d) ELSE @[d]]]
        /\ act' = [act EXCEPT ![n][i] = IF after.which = after.done THEN Posted(NoActivate) ELSE after]
        /\ Spoil(n, slot.task, done)
        /\ UNCHANGED <<todo, status, refs, freed, thread, cmds, enabled, get, nexttag>>

-----------------------------------------------------------------------------
Thread(w) ==
    \/ Run(w) \/ Release(w) \/ NextRank(w) \/ SendRank(w) \/ Counted(w)
    \/ Drop(w) \/ Leave(w)

Progress(n, i) ==
    \/ GetData(n, i) \/ PutData(n, i)
    \/ \E k \in Outputs : PutEnd(n, i, k) \/ DataEnd(n, i, k)

Comm(n) ==
    \/ MpiOn(n) \/ MpiOff(n) \/ SendActivate(n)
    \/ enabled[n] /\ \E i \in Slots : Progress(n, i)

Next ==
    \/ \E w \in Threads : Thread(w)
    \/ \E n \in Nodes : WaitBegins(n) \/ WaitReturns(n) \/ Comm(n)

\* Every node calls dague_wait, every thread keeps running, and MPI completes
\* what can complete.
Fairness ==
    /\ \A w \in Threads : WF_vars(Thread(w))
    /\ \A n \in Nodes : WF_vars(WaitBegins(n)) /\ WF_vars(WaitReturns(n)) /\ WF_vars(Comm(n))

Spec     == Init /\ [][Next]_vars
FairSpec == Spec /\ Fairness
-----------------------------------------------------------------------------
(* Correctness.                                                            *)

\* A datum releases the dependencies of its consumers on a node once, however
\* the outputs of a task are spread over activations and arrivals: the mask of
\* finished outputs of remote_dep_mpi_progress never holds one twice.
ReleasedOnce == \A n \in Nodes, d \in Data : Len(released[n][d]) <= 1

\* What is received in the memory of an output is that output: two transfers
\* between the same nodes never have the same tag at the same time.
RightData == \A n \in Nodes, d \in Data : \A i \in DOMAIN released[n][d] : released[n][d][i] = d

\* taskstodo of a node counts its tasks no thread has taken, and its
\* activations about to be queued, queued, under way, asked for or being served:
\* at no moment is one of them on its way and not counted.
Telling(n) == {w \in Threads : w[1] = n /\ thread[w].at = "send"}
Flying(n) ==
      Cardinality({i \in DOMAIN cmds[n] : cmds[n][i].action = "activate"})
    + Cardinality({m \in net : m.type = "activate" /\ m.from = n})
    + Cardinality({m \in net : m.type = "get" /\ m.to = n})
    + Cardinality({i \in Slots : get[n][i].state = "busy"})
FlyingExact ==
    \A n \in Nodes :
       todo[n] = Cardinality({t \in Tasks : Rank[t] = n /\ status[t] = "waiting"})
                 + Cardinality(Telling(n)) + Flying(n)

\* "make sure we don't leave before serving all data deps": when dague_wait of
\* a node returns, every request of the node is cancelled, so by then none is
\* in use, nothing is on its way to the node and nobody waits for it.
Left(n) == \A w \in Threads : w[1] = n => thread[w].at = "ended"
ServedBeforeOff ==
    \A n \in Nodes : Left(n) =>
       /\ \A i \in Slots : act[n][i].state # "busy" /\ get[n][i].state # "busy"
       /\ \A m \in net : m.to # n /\ (m.type = "activate" => m.from # n)
       /\ \A p \in Nodes, i \in Slots : act[p][i].state = "busy" /\ act[p][i].from = n =>
             \A k \in act[p][i].recv :
                \E m \in net : m.type = "put" /\ m.from = n /\ m.to = p /\ m.tag = act[p][i].tag + k

\* A chunk that went back to the arena ("elements currently not used") has no
\* user left, and gets none.
FreedNotUsed == \A d \in freed : refs[d] = 0

\* The assertion of dague_remote_dep_activate on the ranks it finds in a
\* bitmap: the loop stays in the bitmap of its own task.
RankInRange == \A w \in Threads : thread[w].at # "overrun"

\* The nodes together keep the promise of TaskGraph: a task runs once and after
\* its predecessors wherever they ran, and when dague_wait has returned on every
\* node all the tasks are done.
Preds(t) == {p \in Tasks : \E k \in Outputs : t \in Out[p][k]}
Promise == INSTANCE TaskGraph WITH
    Objects <- {1},
    ObjectOf <- [t \in Tasks |-> 1],
    PredsOf <- [t \in Tasks |-> Preds(t)],
    enqueued <- IF \A w \in Threads : thread[w].at = "start" THEN 0 ELSE 1,
    waited <- IF \A n \in Nodes : Left(n) THEN 1 ELSE 0
ImplementsTaskGraph == Promise!Spec

\* dague_wait returns on every node: no activation is left without a slot that
\* listens, and no datum is awaited for ever.
EveryWaitReturns == \A n \in Nodes : <>Left(n)
=============================================================================
