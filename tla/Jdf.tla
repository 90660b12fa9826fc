-------------------------------- MODULE Jdf --------------------------------
(***************************************************************************)
(* A program of the JDF language, as the parser hands it to the compiler   *)
(* (tools/dague-compiler/jdf.h), the checks the compiler makes before it   *)
(* generates code (jdf.c), and the value of its expressions, which is that *)
(* of the C text dump_expr prints (jdf2c.c).                               *)
(*                                                                         *)
(* A program is a record of sequences: globals and functions (the task     *)
(* classes). A function has parameters, definitions (the ranges of its     *)
(* locals), a predicate (the datum whose node runs the task), flows with   *)
(* an access type and dependencies, and a priority.                        *)
(***************************************************************************)
EXTENDS Integers, Sequences, FiniteSets, SequencesExt

CONSTANT Null      \* the C null pointer

-----------------------------------------------------------------------------
(* The syntax tree.                                                        *)

Cst(n)          == [op |-> "cst", val |-> n]
Var(x)          == [op |-> "var", name |-> x]
Not(a)          == [op |-> "!", args |-> <<a>>]
Op(o, a, b)     == [op |-> o, args |-> <<a, b>>]
If(c, a, b)     == [op |-> "?", args |-> <<c, a, b>>]
Span(a, b)      == Op("..", a, b)

IsLeaf(e)  == e.op \in {"cst", "var"}
IsRange(e) == e.op = ".."

\* V F(args), or M(args) when there is no variable: a reference to memory.
Call(v, f, args) == [var |-> v, func |-> f, args |-> args]
InMemory(c)      == c.var = Null

\* type is "in" or "out"; the guard is "always", "if" (one call) or "ifelse".
Dep(t, g, cond, ct, cf) ==
    [type |-> t, guard |-> g, cond |-> cond, calltrue |-> ct, callfalse |-> cf]
Always(t, c)       == Dep(t, "always", Null, c, Null)
When(t, e, c)      == Dep(t, "if", e, c, Null)
Either(t, e, c, d) == Dep(t, "ifelse", e, c, d)

Flow(v, access, deps) == [var |-> v, access |-> access, deps |-> deps]
Def(x, e)             == [name |-> x, expr |-> e]
Global(x)             == [name |-> x, expr |-> Null]
Class(name, params, defs, pred, flows, priority) ==
    [fname |-> name, params |-> params, defs |-> defs, pred |-> pred, flows |-> flows, priority |-> priority]
Text(globals, functions) == [globals |-> globals, functions |-> functions]

Calls(dep)     == IF dep.guard = "ifelse" THEN <<dep.calltrue, dep.callfalse>> ELSE <<dep.calltrue>>
DepsOf(f)      == FlattenSeq([i \in DOMAIN f.flows |-> f.flows[i].deps])
Names(list)    == {list[i].name : i \in DOMAIN list}
FunctionNames(p) == {p.functions[i].fname : i \in DOMAIN p.functions}
FunctionNamed(p, n) == p.functions[CHOOSE i \in DOMAIN p.functions : p.functions[i].fname = n]

\* The calls of a function, its predicate among them: each names a datum or a
\* flow of another function.
CallsOf(f)   == FlattenSeq([i \in DOMAIN DepsOf(f) |-> Calls(DepsOf(f)[i])])
MemoryOf(f)  == {f.pred} \cup {c \in ToSet(CallsOf(f)) : InMemory(c)}
MemoryOfProgram(p) == UNION {MemoryOf(p.functions[i]) : i \in DOMAIN p.functions}

\* The parser puts each function before those it has read, and finds or
\* creates a datum at each reference to memory, with the number of its
\* arguments: another number is an error.
Parse(text)  == [text EXCEPT !.functions = Reverse(text.functions)]
Parses(text) == \A c, d \in MemoryOfProgram(text) :
                    c.func = d.func => Len(c.args) = Len(d.args)

RECURSIVE VarsOf(_)
VarsOf(e) ==
    IF e.op = "cst" THEN {}
    ELSE IF e.op = "var" THEN {e.name}
    ELSE UNION {VarsOf(e.args[i]) : i \in DOMAIN e.args}

-----------------------------------------------------------------------------
(* The value of an expression, as C computes it.                           *)

Bool(b)    == IF b THEN 1 ELSE 0
Mag(x)     == IF x < 0 THEN -x ELSE x
CDiv(x, y) == IF (x < 0) = (y < 0) THEN Mag(x) \div Mag(y) ELSE -(Mag(x) \div Mag(y))

\* The exclusive or of two values, bit by bit.
Xor(x, y) ==
    FoldFunction(+, 0, [k \in 0..30 |-> (((x \div 2^k) + (y \div 2^k)) % 2) * 2^k])

Apply(o, x, y) ==
    CASE o = "+"  -> x + y            [] o = "-"  -> x - y
      [] o = "*"  -> x * y            [] o = "/"  -> CDiv(x, y)
      [] o = "%"  -> x - y * CDiv(x, y)
      [] o = "<<" -> x * 2^y          [] o = ">>" -> x \div 2^y
      [] o = "==" -> Bool(x = y)      [] o = "!=" -> Bool(x # y)
      [] o = "<"  -> Bool(x < y)      [] o = "<=" -> Bool(x <= y)
      [] o = ">"  -> Bool(x > y)      [] o = ">=" -> Bool(x >= y)
      [] o = "^"  -> Xor(x, y)
      [] o = "&&" -> Bool(x # 0 /\ y # 0)
      [] o = "||" -> Bool(x # 0 \/ y # 0)

RECURSIVE Eval(_, _)
Eval(e, env) ==
    CASE e.op = "cst" -> e.val
      [] e.op = "var" -> env[e.name]
      [] e.op = "!"   -> Bool(Eval(e.args[1], env) = 0)
      [] e.op = "?"   -> Eval(e.args[IF Eval(e.args[1], env) # 0 THEN 2 ELSE 3], env)
      [] OTHER        -> Apply(e.op, Eval(e.args[1], env), Eval(e.args[2], env))

Holds(e, env) == Eval(e, env) # 0

-----------------------------------------------------------------------------
(* jdf_sanity_checks. Each check returns -1 for a fatal error, else the    *)
(* number of its warnings.                                                 *)

Fatal(b) == IF b THEN -1 ELSE 0

\* The code of an expression whose variables must be among names: an operator
\* of two operands overwrites it with 1 when the second operand is unbound.
RECURSIVE BoundCode(_, _)
BoundCode(e, names) ==
    LET bad(i) == BoundCode(e.args[i], names) < 0
    IN  CASE e.op = "cst" -> 0
          [] e.op = "var" -> Fatal(e.name \notin names)
          [] e.op \in {"!", "?"} -> Fatal(\E i \in DOMAIN e.args : bad(i))
          [] OTHER -> IF bad(2) THEN 1 ELSE Fatal(bad(1))
Unbound(e, names) == BoundCode(e, names) < 0

Repeated(list, NameOf(_)) ==
    \E i, j \in DOMAIN list : i < j /\ NameOf(list[i]) = NameOf(list[j])

GlobalRedefinitions(p) == Fatal(Repeated(p.globals, LAMBDA g : g.name))

GlobalUnbound(p) ==
    Fatal(\E i \in DOMAIN p.globals :
             /\ p.globals[i].expr # Null
             /\ Unbound(p.globals[i].expr, Names(SubSeq(p.globals, 1, i - 1))))

\* The parameters and the definitions that hide a global, one warning each.
GlobalMasked(p) ==
    Cardinality(UNION {
        LET f     == p.functions[i]
            names == f.params \o [j \in DOMAIN f.defs |-> f.defs[j].name]
        IN  {<<g, h, j>> \in (DOMAIN p.globals) \X {i} \X (DOMAIN names) :
                names[j] = p.globals[g].name} : i \in DOMAIN p.functions})

FunctionRedefinitions(p) == Fatal(Repeated(p.functions, LAMBDA f : f.fname))

\* The checks of one function.
AllParametersDefined(f) == Fatal(\E i \in DOMAIN f.params : f.params[i] \notin Names(f.defs))

DefinitionUnbound(p, f) ==
    Fatal(\E i \in DOMAIN f.defs :
             Unbound(f.defs[i].expr, Names(p.globals) \cup Names(SubSeq(f.defs, 1, i - 1))))

Visible(p, f) == Names(p.globals) \cup Names(f.defs)

PredicatesUnbound(p, f) ==
    Fatal(\E i \in DOMAIN f.pred.args : Unbound(f.pred.args[i], Visible(p, f)))

DataflowExpressionsUnbound(p, f) ==
    Fatal(\E i \in DOMAIN DepsOf(f) : LET dep == DepsOf(f)[i] IN
             \/ dep.guard # "always" /\ Unbound(dep.cond, Visible(p, f))
             \/ \E c \in ToSet(Calls(dep)) :
                    \E j \in DOMAIN c.args : Unbound(c.args[j], Visible(p, f)))

DataflowNamingCollisions(p, f) ==
    Fatal(\E i \in DOMAIN DepsOf(f) : \E c \in ToSet(Calls(DepsOf(f)[i])) :
             InMemory(c) /\ c.func \in FunctionNames(p))

\* The mistake of looking for the function only.
DataflowUnexistingFunction(p, f) ==
    Fatal(\E i \in DOMAIN DepsOf(f) : \E c \in ToSet(Calls(DepsOf(f)[i])) :
             ~InMemory(c) /\ c.func \notin FunctionNames(p))

DataflowUnexistingData(p, f) ==
    Fatal(\E i \in DOMAIN DepsOf(f) : \E c \in ToSet(Calls(DepsOf(f)[i])) :
             ~InMemory(c) /\
             \/ c.func \notin FunctionNames(p)
             \/ \A k \in DOMAIN FunctionNamed(p, c.func).flows :
                    FunctionNamed(p, c.func).flows[k].var # c.var)

FunctionChecks(p, f) ==
    {AllParametersDefined(f), DefinitionUnbound(p, f), PredicatesUnbound(p, f),
     DataflowExpressionsUnbound(p, f), DataflowNamingCollisions(p, f), DataflowUnexistingData(p, f)}

\* -1 when one check is fatal, whatever the others say.
SanityChecks(p) ==
    IF \/ -1 \in {GlobalRedefinitions(p), GlobalUnbound(p), FunctionRedefinitions(p)}
       \/ \E i \in DOMAIN p.functions : -1 \in FunctionChecks(p, p.functions[i])
    THEN -1
    ELSE GlobalMasked(p)

-----------------------------------------------------------------------------
(* What an accepted program should be.                                     *)

\* Every variable is bound where it is used and every reference resolves.
Closed(p) ==
    /\ \A i \in DOMAIN p.globals :
          p.globals[i].expr # Null =>
              VarsOf(p.globals[i].expr) \subseteq Names(SubSeq(p.globals, 1, i - 1))
    /\ \A i \in DOMAIN p.functions : LET f == p.functions[i] IN
          /\ ToSet(f.params) \subseteq Names(f.defs)
          /\ \A j \in DOMAIN f.defs :
                VarsOf(f.defs[j].expr) \subseteq Names(p.globals) \cup Names(SubSeq(f.defs, 1, j - 1))
          /\ \A j \in DOMAIN f.pred.args : VarsOf(f.pred.args[j]) \subseteq Visible(p, f)
          /\ \A j \in DOMAIN DepsOf(f) : LET dep == DepsOf(f)[j] IN
                /\ dep.guard # "always" => VarsOf(dep.cond) \subseteq Visible(p, f)
                /\ \A c \in ToSet(Calls(dep)) :
                      /\ \A k \in DOMAIN c.args : VarsOf(c.args[k]) \subseteq Visible(p, f)
                      /\ InMemory(c) <=> c.func \notin FunctionNames(p)
                      /\ ~InMemory(c) =>
                            \E k \in DOMAIN FunctionNamed(p, c.func).flows :
                                FunctionNamed(p, c.func).flows[k].var = c.var
=============================================================================
