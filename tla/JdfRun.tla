------------------------------- MODULE JdfRun -------------------------------
(***************************************************************************)
(* A program from its text to its results: it is compiled, each node       *)
(* generates its matrices, creates the object and waits; the tasks of the  *)
(* object run on the workers of the nodes, read their inputs where the     *)
(* generated code looks them up, release their successors on their node    *)
(* and, through the communication threads, on the others.                  *)
(*                                                                         *)
(* The parts modelled alone are used here by what they promise: the queues *)
(* keep a set of ready tasks, a message is delivered once for each of its  *)
(* outputs, a function of the repository is atomic.                        *)
(***************************************************************************)
EXTENDS JdfCode, Matrix, ReadyRing

CONSTANT Objects  \* what the compiler makes of each configuration: ObjectsOf(Configs)

VARIABLES
    compiled,     \* what became of the text: source, checked, object, rejected
    ready,        \* tasks each node can run
    todo,         \* taskstodo
    cells,        \* what has been released of the inputs of each task
    repo,         \* <<node, function, hash>> to the entry of the repository
    work,         \* what each releaser is doing
    wire,         \* activations on their way, with their data
    copies,       \* copies queued for each communication thread
    status,       \* history: of each task
    seen,         \* history: what each task found in its flows
    waited        \* history: nodes where dague_wait has returned

runVars == <<compiled, ready, todo, cells, repo, work, wire, copies, status, seen, waited, ring>>
vars    == <<cfg, phase, content, matrixVars, runVars>>

HasProgram(c)   == c.text # Null
PassesChecks(c) == Parses(c.text) /\ SanityChecks(Program(c)) >= 0
Translates(c)   == Generates(Program(c)) /\ Compiles(Program(c))

\* nb_local_tasks of the object.
LocalTasks(c, r) ==
    FoldSet(LAMBDA f, n : n + Len(LocalSpace(c, f, r)), 0, FunctionsOf(Program(c)))

\* The object code of a task.
CodeOf(c, t) ==
    LET f == FunctionOf(c, t)
    IN  [key     |-> <<t[2], Hash(c, f, t[3])>>,
         access  |-> [i \in DOMAIN f.flows |-> f.flows[i].access],
         output  |-> [i \in DOMAIN f.flows |-> IndexOf(FlowsWith(f, "out"), f.flows[i].var)],
         outputs |-> DOMAIN FlowsWith(f, "out"),
         next    |-> Successors(c, f, t[3]),
         goal    |-> Goal(c, f),
         memory  |-> CheckIn(c, f, t[3]),
         lookups |-> Lookups(c, f, t[3]),
         uses    |-> Uses(c, f, t[3]),
         writes  |-> FinalWrites(c, f, t[3])]

\* What the compiler makes of the text of a configuration, with the graph the
\* text stands for and, for the properties, whether the object is exact and
\* what its run leaves in memory.
Finals(c) ==
    UNION {UNION {{<<Tile(b.call, Env(c, FunctionOf(c, t), t[3])), Result(c, t, flow)>> :
               b \in {x \in ToSet(Holding(flow, "out", Env(c, FunctionOf(c, t), t[3]))) : InMemory(x.call)}} :
           flow \in ToSet(FunctionOf(c, t).flows)} : t \in AllTasks(c)}
Refusal(verdict) ==
    [verdict |-> verdict, tasks |-> <<>>, starts |-> <<>>, counts |-> <<>>,
     graph |-> [tasks |-> {}, nodes |-> {}], exact |-> TRUE, finals |-> {}]
Compiled(c) ==
    IF ~HasProgram(c) THEN Refusal("none")
    ELSE IF ~PassesChecks(c) THEN Refusal("unchecked")
    ELSE IF ~Translates(c) THEN Refusal("untranslated")
    ELSE [verdict |-> "object",
          tasks   |-> [t \in AllTasks(c) |-> CodeOf(c, t)],
          starts  |-> [r \in 0..(c.ranks - 1) |-> ToSet(StartupTasks(c, r))],
          counts  |-> [r \in 0..(c.ranks - 1) |-> LocalTasks(c, r)],
          graph   |-> GraphOf(c), exact |-> Exact(c), finals |-> Finals(c)]

ObjectsOf(configs) == [i \in DOMAIN configs |-> Compiled(configs[i])]
Object == Objects[cfg]

Comm(r)      == <<r, 0>>
WorkersOf(r) == {<<r, k>> : k \in 1..Conf.workers}
NodeOfReleaser(w) == w[1]
Idle         == [at |-> "idle"]
At(w, place) == work[w].at = place
EmptyCell    == IF Conf.mode = "counter" THEN 0 ELSE {}

Init ==
    /\ MatrixInit /\ RingInit
    /\ compiled = IF HasProgram(Conf) THEN "source" ELSE "none"
    /\ ready = [r \in Ranks |-> {}] /\ todo = [r \in Ranks |-> 0]
    /\ cells = [t \in Object.graph.tasks |-> EmptyCell]
    /\ repo = <<>> /\ wire = {} /\ copies = [r \in Ranks |-> <<>>]
    /\ work = [w \in Releasers |-> Idle]
    /\ status = [t \in Object.graph.tasks |-> "waiting"]
    /\ seen = [t \in Object.graph.tasks |-> <<>>]
    /\ waited = {}

-----------------------------------------------------------------------------
(* The compiler.                                                           *)

\* main: parse, check, then generate, or stop at the first error.
Check ==
    /\ compiled = "source"
    /\ compiled' = IF Object.verdict = "unchecked" THEN "rejected" ELSE "checked"
    /\ UNCHANGED <<cfg, phase, content, matrixVars, ready, todo, cells, repo, work, wire, copies,
                   status, seen, waited, ring>>

Translate ==
    /\ compiled = "checked"
    /\ compiled' = IF Object.verdict = "object" THEN "object" ELSE "rejected"
    /\ UNCHANGED <<cfg, phase, content, matrixVars, ready, todo, cells, repo, work, wire, copies,
                   status, seen, waited, ring>>

Runs == compiled \in {"object", "none"}

-----------------------------------------------------------------------------
(* The program on each node.                                               *)

MatrixPhase(r) == Runs /\ MatrixStep(r) /\ UNCHANGED runVars
MatrixCompare  == Runs /\ Compare /\ UNCHANGED runVars

AfterRun == IF Conf.compare THEN "compare" ELSE "exit"

\* The constructor of the object, dague_enqueue, and dague_wait is called.
NewObject(r) ==
    /\ Runs /\ phase[r] = "new"
    /\ IF compiled = "none" THEN EnterPhase(r, AfterRun) /\ UNCHANGED <<todo, ready>>
       ELSE /\ EnterPhase(r, "run")
            /\ todo' = [todo EXCEPT ![r] = Object.counts[r]]
            /\ ready' = [ready EXCEPT ![r] = Object.starts[r]]
    /\ UNCHANGED <<cfg, content, matrixVars, compiled, cells, repo, work, wire, copies,
                   status, seen, waited, ring>>

\* dague_wait returns: nothing is counted any more and the workers have met at
\* the barrier.
Wait(r) ==
    /\ phase[r] = "run" /\ todo[r] = 0 /\ \A w \in WorkersOf(r) : At(w, "idle")
    /\ waited' = waited \cup {r}
    /\ EnterPhase(r, AfterRun)
    /\ UNCHANGED <<cfg, content, matrixVars, compiled, ready, todo, cells, repo, work, wire, copies,
                   status, seen, ring>>

-----------------------------------------------------------------------------
(* The repositories of a node.                                             *)

Entry0 == [data |-> <<>>, count |-> 0, limit |-> 0, retained |-> 0]
EntryAt(k) == IF k \in DOMAIN repo THEN repo[k] ELSE Entry0
Without(k) == [x \in DOMAIN repo \ {k} |-> repo[x]]
\* The mistake of freeing an entry as soon as it is filled.
SettledAtOnce(k, e) == IF e.retained = 0 THEN Without(k) ELSE (k :> e) @@ repo

\* An entry is freed when nobody retains it and it was used as often as planned.
Settled(k, e) == IF e.retained = 0 /\ e.count = e.limit THEN Without(k) ELSE (k :> e) @@ repo

LookupAndCreate(k) == repo' = (k :> [EntryAt(k) EXCEPT !.retained = @ + 1]) @@ repo
AddToUsageLimit(k, n) ==
    repo' = Settled(k, [EntryAt(k) EXCEPT !.limit = @ + n, !.retained = @ - 1])
Deposit(k, o, a) == repo' = (k :> [EntryAt(k) EXCEPT !.data = (o :> a) @@ @]) @@ repo

TheCode(t)  == Object.tasks[t]
KeyAt(r, t) == <<r>> \o TheCode(t).key

-----------------------------------------------------------------------------
(* A worker runs a task.                                                   *)

Take(w, t) ==
    LET r == NodeOfReleaser(w)
    IN  /\ phase[r] = "run" /\ At(w, "idle") /\ t \in ready[r]
        /\ ready' = [ready EXCEPT ![r] = @ \ {t}]
        /\ todo' = [todo EXCEPT ![r] = @ - 1]
        /\ work' = [work EXCEPT ![w] = [at |-> "taken", task |-> t]]
        /\ UNCHANGED <<cfg, phase, content, matrixVars, compiled, cells, repo, wire, copies,
                       status, seen, waited, ring>>

\* The chunk and the entry a lookup finds, and the content of a chunk.
ChunkFor(r, lookup) ==
    IF lookup = Null THEN Null
    ELSE IF lookup.from = "memory" THEN TileAt(lookup.tile[1], r, lookup.tile[2], lookup.tile[3])
    ELSE LET e == EntryAt(<<r>> \o lookup.key)
         IN  IF lookup.out \in DOMAIN e.data THEN e.data[lookup.out] ELSE Null
EntryFor(r, lookup) ==
    IF lookup = Null \/ lookup.from = "memory" THEN Null ELSE <<r>> \o lookup.key
ContentOf(a) == IF a = Null THEN Null ELSE content[a]

\* The beginning of the hook: the inputs are looked up and the body starts.
Hook(w) ==
    LET r       == NodeOfReleaser(w)
        t       == work[w].task
        lookups == TheCode(t).lookups
        flows   == [i \in DOMAIN lookups |-> ChunkFor(r, lookups[i])]
    IN  /\ At(w, "taken")
        /\ work' = [work EXCEPT ![w] = [at |-> "body", task |-> t, flows |-> flows,
                                        entries |-> [i \in DOMAIN lookups |-> EntryFor(r, lookups[i])]]]
        /\ status' = [status EXCEPT ![t] = "running"]
        /\ seen' = [seen EXCEPT ![t] = [i \in DOMAIN flows |-> ContentOf(flows[i])]]
        /\ UNCHANGED <<cfg, phase, content, matrixVars, compiled, ready, todo, cells, repo, wire, copies,
                       waited, ring>>

FlowName(t, i) == FunctionOf(Conf, t).flows[i].var

\* What the body writes: the flows it may write.
Written(t, flows) ==
    {i \in DOMAIN flows : TheCode(t).access[i] # "READ" /\ flows[i] # Null}

\* The mistake of taking every final write for one in place.
NoCopy(r, t, flows) == <<>>

\* The final writes that are not in place: one copy each.
CopiesOf(r, t, flows) ==
    LET all == TheCode(t).writes
        dst(x) == TileAt(x.tile[1], r, x.tile[2], x.tile[3])
        some == SelectSeq(all, LAMBDA x : flows[x.flow] # dst(x))
    IN  [i \in DOMAIN some |-> [to |-> dst(some[i]), from |-> flows[some[i].flow]]]

\* dague_remote_dep_memcpy: a copy is made later, by the communication thread.
MemCpy(r, some) == copies' = [copies EXCEPT ![r] = @ \o some]

\* The chunk of each output, handed to release_deps.
OutputChunks(t, flows) ==
    [o \in TheCode(t).outputs |-> flows[CHOOSE i \in DOMAIN flows : TheCode(t).output[i] = o]]

\* Edges to tasks of a node, among some outputs.
LocalEdges(r, t, which) ==
    SelectSeq(TheCode(t).next, LAMBDA e : e.rank = r /\ e.out \in which)

\* The end of the hook: the body has written, the final writes are queued, and
\* release_deps creates the entry and begins to iterate on the successors.
Body(w) ==
    LET r     == NodeOfReleaser(w)
        t     == work[w].task
        flows == work[w].flows
    IN  /\ At(w, "body")
        /\ status' = [status EXCEPT ![t] = "done"]
        /\ content' = [a \in {flows[i] : i \in Written(t, flows)} |->
                          LET i == CHOOSE i \in Written(t, flows) : flows[i] = a
                          IN  <<"made", t, FlowName(t, i)>>] @@ content
        /\ MemCpy(r, CopiesOf(r, t, flows))
        /\ LookupAndCreate(KeyAt(r, t))
        /\ work' = [work EXCEPT ![w] = [at |-> "edge", task |-> t, entries |-> work[w].entries,
                                        chunks |-> OutputChunks(t, flows), used |-> 0,
                                        edges |-> LocalEdges(r, t, TheCode(t).outputs)]]
        /\ UNCHANGED <<cfg, phase, matrixVars, compiled, ready, todo, cells, wire, seen, waited, ring>>

-----------------------------------------------------------------------------
(* dague_release_dep_fct for a successor of this node, by a worker or the  *)
(* communication thread. The value of the cell is read, then updated.      *)

Edge(w) == Head(work[w].edges)

\* find_deps walks the arrays of the local variables down to the cell of a task.
FindDeps(t) == cells[t]

ReleaseEdge(w) ==
    LET r == NodeOfReleaser(w)
    IN  /\ At(w, "edge") /\ work[w].edges # <<>>
        /\ Deposit(KeyAt(r, work[w].task), Edge(w).out, work[w].chunks[Edge(w).out])
        /\ work' = [work EXCEPT ![w] = [at |-> "mark", task |-> @.task, entries |-> @.entries,
                        chunks |-> @.chunks, used |-> @.used + 1, edges |-> @.edges,
                        old |-> FindDeps(Edge(w).task)]]
        /\ UNCHANGED <<cfg, phase, content, matrixVars, compiled, ready, todo, cells, wire, copies,
                       status, seen, waited, ring>>

InDone == -1

\* The mistake of storing the value computed from the old one.
MarkedFromOld(t, old, cell, param) ==
    LET memory == TheCode(t).memory
    IN  IF Conf.mode = "counter"
        THEN IF old = 0 THEN 1 + memory ELSE old + 1
        ELSE old \cup {InDone, Bit(param)} \cup memory

\* The mask is or-ed; the first value of a counter is put by a compare and
\* swap, which leaves its place to an increment when it comes too late.
Marked(t, old, cell, param) ==
    LET memory == TheCode(t).memory
    IN  IF Conf.mode = "counter"
        THEN IF old = 0 /\ cell = 0 THEN 1 + memory ELSE cell + 1
        ELSE cell \cup {InDone, Bit(param)} \cup (IF InDone \in old THEN {} ELSE memory)

GoalMet(t, cell) == IF Conf.mode = "counter" THEN cell = TheCode(t).goal ELSE TheCode(t).goal \subseteq cell

Mark(w) ==
    LET t    == Edge(w).task
        cell == Marked(t, work[w].old, FindDeps(t), Edge(w).param)
    IN  /\ At(w, "mark")
        /\ cells' = [cells EXCEPT ![t] = cell]
        /\ IF GoalMet(t, cell) THEN Insert(w, t) ELSE UNCHANGED ring
        /\ work' = [work EXCEPT ![w] = [at |-> "edge", task |-> @.task, entries |-> @.entries,
                        chunks |-> @.chunks, used |-> @.used, edges |-> Tail(@.edges)]]
        /\ UNCHANGED <<cfg, phase, content, matrixVars, compiled, ready, todo, repo, wire, copies,
                       status, seen, waited>>

\* The end of the iteration: the usage limit, then the list goes to the queues.
Schedule(w) ==
    LET r == NodeOfReleaser(w)
    IN  /\ At(w, "edge") /\ work[w].edges = <<>>
        /\ AddToUsageLimit(KeyAt(r, work[w].task), work[w].used)
        /\ ready' = [ready EXCEPT ![r] = @ \cup ToSet(ring[w])]
        /\ IF ring[w] # <<>> THEN Scheduled(w) ELSE UNCHANGED ring
        /\ work' = [work EXCEPT ![w] = IF w = Comm(r) THEN Idle
                       ELSE [at |-> "send", task |-> @.task, entries |-> @.entries, chunks |-> @.chunks]]
        /\ UNCHANGED <<cfg, phase, content, matrixVars, compiled, todo, cells, wire, copies,
                       status, seen, waited>>

-----------------------------------------------------------------------------
(* dague_remote_dep_activate: one message to each node that has            *)
(* successors, which names the outputs it needs; each is counted.          *)

Needs(t, dst) == {TheCode(t).next[i].out : i \in {k \in DOMAIN TheCode(t).next : TheCode(t).next[k].rank = dst}}
Messages(r, t, chunks) ==
    {[task |-> t, src |-> r, dst |-> dst, which |-> Needs(t, dst), chunk |-> chunks] :
        dst \in {q \in Ranks \ {r} : Needs(t, q) # {}}}

Send(w) ==
    LET r    == NodeOfReleaser(w)
        messages == Messages(r, work[w].task, work[w].chunks)
    IN  /\ At(w, "send")
        /\ wire' = wire \cup messages
        /\ todo' = [todo EXCEPT ![r] = @ + Cardinality(messages)]
        /\ work' = [work EXCEPT ![w] = [at |-> "drop", task |-> @.task, entries |-> @.entries,
                                        left |-> TheCode(@.task).uses]]
        /\ UNCHANGED <<cfg, phase, content, matrixVars, compiled, ready, cells, repo, copies,
                       status, seen, waited, ring>>

\* data_repo_entry_used_once for each input that came from a task.
Drop(w) ==
    LET k == work[w].entries[Head(work[w].left)]
    IN  /\ At(w, "drop") /\ work[w].left # <<>>
        /\ repo' = Settled(k, [EntryAt(k) EXCEPT !.count = @ + 1])
        /\ work' = [work EXCEPT ![w].left = Tail(@)]
        /\ UNCHANGED <<cfg, phase, content, matrixVars, compiled, ready, todo, cells, wire, copies,
                       status, seen, waited, ring>>

Done(w) ==
    /\ At(w, "drop") /\ work[w].left = <<>>
    /\ work' = [work EXCEPT ![w] = Idle]
    /\ UNCHANGED <<cfg, phase, content, matrixVars, compiled, ready, todo, cells, repo, wire, copies,
                   status, seen, waited, ring>>

-----------------------------------------------------------------------------
(* The communication thread.                                               *)

\* One output of a message arrives in a new chunk and is released here; the
\* sender forgets the message after its last output.
Deliver(r, m, o) ==
    LET w == Comm(r)
        a == <<"arena", r, m.task, o>>
    IN  /\ phase[r] = "run" /\ At(w, "idle") /\ m.dst = r /\ o \in m.which
        /\ content' = (a :> content[m.chunk[o]]) @@ content
        /\ LookupAndCreate(KeyAt(r, m.task))
        /\ work' = [work EXCEPT ![w] = [at |-> "edge", task |-> m.task, entries |-> <<>>,
                                        chunks |-> (o :> a), used |-> 0,
                                        edges |-> LocalEdges(r, m.task, {o})]]
        /\ IF m.which = {o}
           THEN wire' = wire \ {m} /\ todo' = [todo EXCEPT ![m.src] = @ - 1]
           ELSE wire' = (wire \ {m}) \cup {[m EXCEPT !.which = @ \ {o}]} /\ UNCHANGED todo
        /\ UNCHANGED <<cfg, phase, matrixVars, compiled, ready, cells, copies, status, seen, waited, ring>>

\* remote_dep_nothread_memcpy.
Copy(r) ==
    /\ Conf.ranks > 1 /\ copies[r] # <<>>
    /\ content' = [content EXCEPT ![Head(copies[r]).to] = content[Head(copies[r]).from]]
    /\ copies' = [copies EXCEPT ![r] = Tail(@)]
    /\ UNCHANGED <<cfg, phase, matrixVars, compiled, ready, todo, cells, repo, work, wire,
                   status, seen, waited, ring>>

-----------------------------------------------------------------------------
WorkerStep(w) ==
    \/ \E t \in ready[NodeOfReleaser(w)] : Take(w, t)
    \/ Hook(w) \/ Body(w) \/ Send(w) \/ Drop(w) \/ Done(w)
ReleaserStep(w) == ReleaseEdge(w) \/ Mark(w) \/ Schedule(w)

\* The communication thread ends with the copies and the release it is in.
AllExited == \A r \in Ranks : phase[r] = "exit" /\ copies[r] = <<>> /\ At(Comm(r), "idle")
Ended     == compiled = "rejected" \/ AllExited

Next ==
    \/ Check \/ Translate \/ MatrixCompare
    \/ \E r \in Ranks :
          \/ MatrixPhase(r) \/ NewObject(r) \/ Wait(r) \/ Copy(r)
          \/ \E m \in wire : \E o \in m.which : Deliver(r, m, o)
          \/ \E w \in WorkersOf(r) : WorkerStep(w)
          \/ \E w \in WorkersOf(r) \cup {Comm(r)} : ReleaserStep(w)

Spec == Init /\ [][Next]_vars /\ WF_vars(Next)

-----------------------------------------------------------------------------
(* Correctness.                                                            *)

\* The run implements the task graph of the text: a task starts once, after
\* its predecessors and with the values they made, on whatever node and from
\* whatever chunk; dague_wait returns on a node after its last task.
Graphs   == LET all == Objects IN [i \in DOMAIN all |-> all[i].graph]
Abstract == INSTANCE AbstractRun WITH graph <- cfg
ImplementsDataflow == Abstract!Spec

\* Every program that compiles ends on every node.
AllTasksRun == <>Ended

\* The code the compiler writes is exact about its program.
ObjectIsExact == compiled = "object" => Object.exact

\* The operators of two operands whose second operand is unbound: the checks
\* take them for warnings.
Expressions(f) ==
    {f.defs[i].expr : i \in DOMAIN f.defs} \cup ToSet(f.pred.args)
    \cup UNION {ToSet(c.args) : c \in ToSet(CallsOf(f))}
    \cup {DepsOf(f)[i].cond : i \in {k \in DOMAIN DepsOf(f) : DepsOf(f)[k].guard # "always"}}
RECURSIVE SecondUnbound(_, _)
SecondUnbound(e, names) ==
    ~IsLeaf(e) /\ \/ e.op \notin {"!", "?"} /\ ~(VarsOf(e.args[2]) \subseteq names)
                  \/ \E i \in DOMAIN e.args : SecondUnbound(e.args[i], names)

\* A text that passes the checks is closed: whatever a task class names exists,
\* unless it is the second operand of an operator.
CheckedIsClosed ==
    compiled \in {"checked", "object"} =>
        \/ Closed(Program(Conf))
        \/ \E f \in FunctionsOf(Program(Conf)) : \E e \in Expressions(f) :
              SecondUnbound(e, Visible(Program(Conf), f))

\* When all is over the repositories are empty and each tile a task writes to
\* holds what that task made.
ResultsInPlace ==
    compiled = "object" /\ AllExited =>
        /\ repo = <<>>
        /\ \A x \in Object.finals : ValueAt(OwnerOf(x[1]), x[1]) = x[2]
=============================================================================
