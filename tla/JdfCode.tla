------------------------------ MODULE JdfCode ------------------------------
(***************************************************************************)
(* What the code generated by the compiler does for a program (jdf2c.c):   *)
(* the iteration space, the startup tasks, the arrays that track           *)
(* dependencies, the inputs a task looks up, the successors it iterates    *)
(* on, the hash of the repositories.                                       *)
(*                                                                         *)
(* An instance c gives the text of a program, its globals and the          *)
(* descriptors of its data. A task is an instance, a function and the      *)
(* values of its locals.                                                   *)
(***************************************************************************)
EXTENDS Jdf, DataDist, TLC

Program(c)     == Parse(c.text)
Function(c, n) == FunctionNamed(Program(c), n)
Has(flow, type) == \E i \in DOMAIN flow.deps : flow.deps[i].type = type
FlowsWith(f, type) == SelectSeq(f.flows, LAMBDA flow : Has(flow, type))

\* The place of a flow among some flows of a function, 0 when it is not there.
IndexOf(flows, var) ==
    LET at == {i \in DOMAIN flows : flows[i].var = var}
    IN  IF at = {} THEN 0 ELSE Min(at)
DataOutputIndex(p, n, var) == IndexOf(FlowsWith(FunctionNamed(p, n), "out"), var)
DataInputIndex(f, var)     == IndexOf(FlowsWith(f, "in"), var)

\* A guarded dependency is one call, or two under opposite conditions.
Branches(dep) ==
    LET branch(call, cond, want) == [call |-> call, cond |-> cond, want |-> want]
    IN  IF dep.guard = "ifelse"
        THEN <<branch(dep.calltrue, dep.cond, TRUE), branch(dep.callfalse, dep.cond, FALSE)>>
        ELSE <<branch(dep.calltrue, dep.cond, TRUE)>>
BranchHolds(b, env) == b.cond = Null \/ Holds(b.cond, env) = b.want

BranchesOf(flow, type) ==
    LET deps == SelectSeq(flow.deps, LAMBDA dep : dep.type = type)
    IN  FlattenSeq([i \in DOMAIN deps |-> Branches(deps[i])])
Holding(flow, type, env) ==
    SelectSeq(BranchesOf(flow, type), LAMBDA b : BranchHolds(b, env))

-----------------------------------------------------------------------------
(* Programs that are refused after the checks: the generator stops, or the *)
(* C compiler refuses what it wrote.                                       *)

FunctionsOf(p) == ToSet(p.functions)
TaskCalls(f, type) ==
    {b.call : b \in UNION {ToSet(BranchesOf(f.flows[i], type)) : i \in DOMAIN f.flows}}
        \ {c \in ToSet(CallsOf(f)) : InMemory(c)}

\* An input names an output flow, an output gives as many arguments as there
\* are parameters.
Generates(p) ==
    \A f \in FunctionsOf(p) :
        /\ \A c \in TaskCalls(f, "in") : DataOutputIndex(p, c.func, c.var) > 0
        /\ \A c \in TaskCalls(f, "out") : Len(c.args) = Len(FunctionNamed(p, c.func).params)

\* The conditions of a flow under which its input comes from memory, as the
\* startup function tests them: those of its dependencies, all together.
DirectConditions(flow) ==
    LET deps  == SelectSeq(flow.deps, LAMBDA dep : dep.type = "in")
        direct(dep) == CASE dep.guard = "always" -> <<>>
                         [] dep.guard = "if" -> SelectSeq(Branches(dep), LAMBDA b : InMemory(b.call))
                         [] dep.guard = "ifelse" ->
                               IF InMemory(dep.calltrue) /\ InMemory(dep.callfalse) THEN <<>>
                               ELSE SelectSeq(Branches(dep), LAMBDA b : InMemory(b.call))
    IN  FlattenSeq([i \in DOMAIN deps |-> direct(deps[i])])

HasReadyInput(flow) == \E b \in ToSet(BranchesOf(flow, "in")) : InMemory(b.call)

\* jdf_optimize: the functions whose tasks may start an object.
CanBeStartup(f) == \A i \in DOMAIN f.flows : HasReadyInput(f.flows[i])

\* The arguments of dague_new are not empty, no local hides the macro of a
\* global, a hash is given every parameter it declares and finds every
\* definition among them, a "continue" is in a loop, a definition uses the
\* parameters before it, and the first condition of a flow is not a negated
\* one, which is printed after the text that is already there.
Compiles(p) ==
    /\ p.globals # <<>> /\ GlobalMasked(p) = 0 /\ Closed(p)
    /\ \A f \in FunctionsOf(p) :
          /\ ToSet(f.params) = Names(f.defs) /\ Len(f.params) = Len(f.defs)
          /\ \E j \in DOMAIN f.defs : IsRange(f.defs[j].expr)
          /\ \A j \in DOMAIN f.params, k \in DOMAIN f.defs : f.defs[k].name = f.params[j] =>
                VarsOf(f.defs[k].expr) \subseteq Names(p.globals) \cup ToSet(SubSeq(f.params, 1, j))
          /\ \A c \in TaskCalls(f, "in") : Len(c.args) = Len(FunctionNamed(p, c.func).params)
          /\ CanBeStartup(f) => \A i \in DOMAIN f.flows :
                LET conds == DirectConditions(f.flows[i]) IN conds # <<>> => conds[1].want

-----------------------------------------------------------------------------
(* The environment of generated code.                                      *)

\* The locals of a context are read in the order of the definitions, and
\* written in that of the parameters by a predecessor.
Env(c, f, l) ==
    [x \in {f.defs[j].name : j \in DOMAIN l} |->
        l[CHOOSE j \in DOMAIN l : f.defs[j].name = x]] @@ c.globals
ParamEnv(c, f, l) ==
    [x \in {f.params[j] : j \in DOMAIN l} |->
        l[CHOOSE j \in DOMAIN l : f.params[j] = x]] @@ c.globals

Values(e, env) ==
    IF IsRange(e) THEN LET low == Eval(e.args[1], env)
                           n   == Eval(e.args[2], env) - low + 1
                       IN  [i \in 1..Max({0, n}) |-> low + i - 1]
    ELSE <<Eval(e, env)>>

\* The nested loops over the definitions.
RECURSIVE Nest(_, _, _)
Nest(c, f, l) ==
    IF Len(l) = Len(f.defs) THEN <<l>>
    ELSE LET values == Values(f.defs[Len(l) + 1].expr, Env(c, f, l))
         IN  FlattenSeq([i \in DOMAIN values |-> Nest(c, f, Append(l, values[i]))])
Space(c, f) == Nest(c, f, <<>>)

Arguments(call, env) == [i \in DOMAIN call.args |-> Eval(call.args[i], env)]
Tile(call, env)      == <<call.func>> \o Arguments(call, env)
NodeOf(c, call, env) ==
    LET at == Arguments(call, env) IN RankOf(c.desc[call.func], at[1], at[2])

\* The predicate of the function, on a node.
LocalSpace(c, f, r) ==
    SelectSeq(Space(c, f), LAMBDA l : NodeOf(c, f.pred, Env(c, f, l)) = r)

PriorityOf(c, f, l) ==
    IF f.priority = Null THEN 0 ELSE Eval(f.priority, Env(c, f, l))

-----------------------------------------------------------------------------
(* The key of a task in the repository of its function.                    *)

Low(e, env)   == IF IsRange(e) THEN Eval(e.args[1], env) ELSE Eval(e, env)
Width(e, env) == IF IsRange(e) THEN Eval(e.args[2], env) - Eval(e.args[1], env) + 1 ELSE 1

\* The mistake of leaving the widths out.
HashFlat(c, f, args) ==
    LET env == ParamEnv(c, f, args)
    IN  FoldFunction(+, 0, [j \in DOMAIN f.defs |-> env[f.defs[j].name] - Low(f.defs[j].expr, env)])

Hash(c, f, args) ==
    LET env == ParamEnv(c, f, args)
        h[j \in 1..(Len(f.defs) + 1)] ==
            IF j > Len(f.defs) THEN 0
            ELSE (env[f.defs[j].name] - Low(f.defs[j].expr, env)) + Width(f.defs[j].expr, env) * h[j + 1]
    IN  h[1]

-----------------------------------------------------------------------------
(* iterate_successors: for each call of a holding output, the loops over   *)
(* its ranges, cut to the definitions of the callee.                       *)

\* Whether the value of a parameter is in the execution space of the callee.
InDefinition(c, g, args) ==
    LET j   == Len(args)
        e   == g.defs[CHOOSE k \in DOMAIN g.defs : g.defs[k].name = g.params[j]].expr
        env == ParamEnv(c, g, args)
    IN  IF IsRange(e) THEN args[j] >= Eval(e.args[1], env) /\ args[j] <= Eval(e.args[2], env)
        ELSE args[j] = Eval(e, env)

RECURSIVE Callees(_, _, _, _, _)
Callees(c, call, g, env, args) ==
    IF Len(args) = Len(g.params) THEN <<args>>
    ELSE LET kept == SelectSeq(Values(call.args[Len(args) + 1], env),
                               LAMBDA v : InDefinition(c, g, Append(args, v)))
         IN  FlattenSeq([i \in DOMAIN kept |-> Callees(c, call, g, env, Append(args, kept[i]))])

\* One edge per call of ontask: the output, the input flow of the successor,
\* the successor and its rank.
EdgesOfOutput(c, f, l, o) ==
    LET holding  == Holding(FlowsWith(f, "out")[o], "out", Env(c, f, l))
        calls    == SelectSeq(holding, LAMBDA b : ~InMemory(b.call))
        edges(b) == LET g == Function(c, b.call.func)
                        callees == Callees(c, b.call, g, Env(c, f, l), <<>>)
                    IN  [k \in DOMAIN callees |->
                            [out |-> o, param |-> IndexOf(g.flows, b.call.var),
                             task |-> <<c.id, g.fname, callees[k]>>,
                             rank |-> NodeOf(c, g.pred, ParamEnv(c, g, callees[k]))]]
    IN  FlattenSeq([i \in DOMAIN calls |-> edges(calls[i])])

Successors(c, f, l) ==
    FlattenSeq([o \in DOMAIN FlowsWith(f, "out") |-> EdgesOfOutput(c, f, l, o)])

-----------------------------------------------------------------------------
(* Dependencies of a task: the goal, what memory provides.                 *)

\* dependencies_goal has one bit per input flow, from bit 0 on; param_mask is
\* the bit of the place of the flow among all.
Goal(c, f) ==
    LET n == Len(FlowsWith(f, "in"))
    IN  IF c.mode = "counter" THEN n ELSE 0..(n - 1)
Bit(param) == param - 1

HasInIn(f) ==
    \E i \in DOMAIN f.flows : \E b \in ToSet(BranchesOf(f.flows[i], "in")) : InMemory(b.call)

\* dague_check_IN_dependencies.
FromMemory(flow, env) ==
    Cardinality({i \in DOMAIN Holding(flow, "in", env) : InMemory(Holding(flow, "in", env)[i].call)})
CheckIn(c, f, l) ==
    LET provided == [i \in DOMAIN f.flows |-> FromMemory(f.flows[i], Env(c, f, l))]
    IN  IF c.mode = "counter"
        THEN IF HasInIn(f) THEN FoldFunction(+, 0, provided) ELSE 0
        ELSE {Bit(i) : i \in {j \in DOMAIN f.flows : HasInIn(f) /\ provided[j] > 0}}

-----------------------------------------------------------------------------
(* The hook.                                                               *)

\* Where an input is looked up: a tile, or an output in the repository of the
\* predecessor. The last dependency that holds wins.
Lookup(c, f, l, flow) ==
    LET env  == Env(c, f, l)
        last == Last(Holding(flow, "in", env)).call
    IN  IF Holding(flow, "in", env) = <<>> THEN Null
        ELSE IF InMemory(last) THEN [from |-> "memory", tile |-> Tile(last, env)]
        ELSE [from |-> "repo",
              key |-> <<last.func, Hash(c, Function(c, last.func), Arguments(last, env))>>,
              out |-> DataOutputIndex(Program(c), last.func, last.var)]
Lookups(c, f, l) == [i \in DOMAIN f.flows |-> Lookup(c, f, l, f.flows[i])]

\* The entries the end of release_deps uses once: those of the inputs that come
\* from tasks, at the place of the flow among the inputs.
Uses(c, f, l) ==
    FlattenSeq([i \in DOMAIN f.flows |->
        LET holding == Holding(f.flows[i], "in", Env(c, f, l))
            calls   == SelectSeq(holding, LAMBDA b : ~InMemory(b.call))
        IN  [k \in DOMAIN calls |-> DataInputIndex(f, f.flows[i].var)]])

\* The tiles a flow is written to at the end.
FinalWrites(c, f, l) ==
    FlattenSeq([i \in DOMAIN f.flows |->
        LET holding == Holding(f.flows[i], "out", Env(c, f, l))
            calls   == SelectSeq(holding, LAMBDA b : InMemory(b.call))
        IN  [k \in DOMAIN calls |-> [flow |-> i, tile |-> Tile(calls[k].call, Env(c, f, l))]]])

-----------------------------------------------------------------------------
(* The constructor of the object, on a node.                               *)

\* internal_init: one cell per value of the last definition, for each prefix
\* met by the loops before the inner one stops at its first local task.
Cells(c, f, r) ==
    LET n      == Len(f.defs)
        local  == LocalSpace(c, f, r)
        column == {local[i][n] : i \in DOMAIN local} \cup {0}
        low    == IF local = <<>> THEN 0 ELSE Min({local[i][n] : i \in DOMAIN local})
        inner  == Max({j \in 1..n : IsRange(f.defs[j].expr)})
        met(i) == \A k \in 1..(i - 1) : SubSeq(local[k], 1, inner - 1) # SubSeq(local[i], 1, inner - 1)
        rows   == {SubSeq(local[i], 1, n - 1) : i \in {k \in DOMAIN local : n = 1 \/ met(k)}}
    IN  {Append(row, v) : row \in rows, v \in low..Max(column)}

\* The startup functions, one after the other.
StartupTasks(c, r) ==
    LET starts(f) == SelectSeq(LocalSpace(c, f, r), LAMBDA l :
                         \A i \in DOMAIN f.flows :
                             \A b \in ToSet(DirectConditions(f.flows[i])) : BranchHolds(b, Env(c, f, l)))
        functions == SelectSeq(Program(c).functions, LAMBDA f : CanBeStartup(f))
    IN  FlattenSeq([i \in DOMAIN functions |->
            [k \in DOMAIN starts(functions[i]) |-> <<c.id, functions[i].fname, starts(functions[i])[k]>>]])

-----------------------------------------------------------------------------
(* The task graph the text of a program stands for, read from its inputs   *)
(* alone.                                                                  *)

TaskOf(c, f, l) == <<c.id, f.fname, l>>
AllTasks(c) == UNION {{TaskOf(c, f, l) : l \in ToSet(Space(c, f))} : f \in FunctionsOf(Program(c))}
FunctionOf(c, t) == Function(c, t[2])

\* The arguments of a call name parameters, wherever the definitions are.
Named(g, args) == [j \in DOMAIN g.defs |-> args[CHOOSE k \in DOMAIN g.params : g.params[k] = g.defs[j].name]]
Source(c, call, env) == LET g == Function(c, call.func) IN TaskOf(c, g, Named(g, Arguments(call, env)))

\* The calls an input of a task names: exactly one when the program is right.
InputCalls(c, t, flow) ==
    {b.call : b \in ToSet(Holding(flow, "in", Env(c, FunctionOf(c, t), t[3])))}

\* What a flow of a task holds at its start, and once the task is done.
RECURSIVE Input(_, _, _), Result(_, _, _)
Input(c, t, flow) ==
    LET call == CHOOSE x \in InputCalls(c, t, flow) : TRUE
        env  == Env(c, FunctionOf(c, t), t[3])
        pred == Source(c, call, env)
    IN  IF InputCalls(c, t, flow) = {} THEN Null
        ELSE IF InMemory(call) THEN Tile(call, env)
        ELSE LET flows == FunctionOf(c, pred).flows IN Result(c, pred, flows[IndexOf(flows, call.var)])
Result(c, t, flow) ==
    IF flow.access = "READ" THEN Input(c, t, flow) ELSE <<"made", t, flow.var>>

Predecessors(c, t) ==
    LET f == FunctionOf(c, t)
    IN  {Source(c, call, Env(c, f, t[3])) :
            call \in {x \in UNION {InputCalls(c, t, f.flows[i]) : i \in DOMAIN f.flows} : ~InMemory(x)}}

GraphOf(c) ==
    [tasks  |-> AllTasks(c),
     nodes  |-> 0..(c.ranks - 1),
     home   |-> [t \in AllTasks(c) |-> NodeOf(c, FunctionOf(c, t).pred, Env(c, FunctionOf(c, t), t[3]))],
     preds  |-> [t \in AllTasks(c) |-> Predecessors(c, t)],
     inputs |-> [t \in AllTasks(c) |->
                    [i \in DOMAIN FunctionOf(c, t).flows |-> Input(c, t, FunctionOf(c, t).flows[i])]]]

-----------------------------------------------------------------------------
(* Correctness of the generated code.                                      *)

\* The edges the graph asks for.
GraphEdges(c) ==
    UNION {LET f == FunctionOf(c, t) IN
           UNION {{[from |-> Source(c, call, Env(c, f, t[3])), var |-> call.var, to |-> t, param |-> i] :
                      call \in {x \in InputCalls(c, t, f.flows[i]) : ~InMemory(x)}} : i \in DOMAIN f.flows} :
           t \in AllTasks(c)}

\* Those the code iterates on.
CodeEdges(c) ==
    UNION {LET f == FunctionOf(c, t)
               s == Successors(c, f, t[3])
           IN  {[from |-> t, var |-> FlowsWith(f, "out")[s[i].out].var, to |-> s[i].task, param |-> s[i].param] :
                   i \in DOMAIN s} :
           t \in AllTasks(c)}

\* Each task reaches its goal exactly when memory and every predecessor have
\* provided its inputs.
GoalReached(c, t) ==
    LET f      == FunctionOf(c, t)
        byTask == {i \in DOMAIN f.flows : \E x \in InputCalls(c, t, f.flows[i]) : ~InMemory(x)}
    IN  IF c.mode = "counter" THEN Goal(c, f) = CheckIn(c, f, t[3]) + Cardinality(byTask)
        ELSE /\ Goal(c, f) = CheckIn(c, f, t[3]) \cup {Bit(i) : i \in byTask}
             /\ CheckIn(c, f, t[3]) \cap {Bit(i) : i \in byTask} = {}

\* The code follows the inputs in the other direction, starts the tasks without
\* a predecessor and no other, keeps a cell for each other local task, and
\* gives the tasks of a function different keys.
Exact(c) ==
    LET g == GraphOf(c)
    IN  /\ CodeEdges(c) = GraphEdges(c)
        /\ \A t \in g.tasks : GoalReached(c, t)
        /\ \A r \in g.nodes : LET s == StartupTasks(c, r) IN
              /\ ToSet(s) = {t \in g.tasks : g.home[t] = r /\ g.preds[t] = {}}
              /\ Len(s) = Cardinality(ToSet(s))
        /\ \A t \in g.tasks : g.preds[t] # {} => t[3] \in Cells(c, FunctionOf(c, t), g.home[t])
        /\ \A t, u \in g.tasks : t[2] = u[2] /\ Hash(c, FunctionOf(c, t), t[3]) = Hash(c, FunctionOf(c, u), u[3])
              => t = u
=============================================================================
