------------------------------- MODULE MCJdf -------------------------------
(***************************************************************************)
(* Instances of JdfRun for TLC: programs of the kind of those under        *)
(* data_dist and tests, programs that the compiler refuses, and matrices   *)
(* without a program.                                                      *)
(***************************************************************************)
EXTENDS JdfRun

V(x) == Var(x)
At2(name, m, n) == Call(Null, name, <<m, n>>)

K == V("k")  M == V("m")  N == V("n")  SIZE == V("SIZE")
Plus1(e)  == Op("+", e, Cst(1))
Minus1(e) == Op("-", e, Cst(1))
First(e)  == Op("==", e, Cst(0))

\* The right-looking factorisation of Cholesky (cholesky_rl of tests).
Cholesky == Text(<<Global("SIZE")>>, <<
    Class("POTRF", <<"k">>, <<Def("k", Span(Cst(0), Minus1(SIZE)))>>, At2("A", K, K),
        <<Flow("T", "RW", <<
            Either("in", First(K), At2("A", K, K), Call("T", "SYRK", <<Minus1(K), K>>)),
            Always("out", Call("T", "TRSM", <<K, Span(Plus1(K), Minus1(SIZE))>>)),
            Always("out", At2("A", K, K))>>)>>,
        Op("-", SIZE, K)),
    Class("TRSM", <<"k", "n">>,
        <<Def("k", Span(Cst(0), Minus1(SIZE))), Def("n", Span(Plus1(K), Minus1(SIZE)))>>, At2("A", N, K),
        <<Flow("T", "READ", <<Always("in", Call("T", "POTRF", <<K>>))>>),
          Flow("C", "RW", <<
            Either("in", First(K), At2("A", N, K), Call("C", "GEMM", <<Minus1(K), N, K>>)),
            Always("out", Call("A", "SYRK", <<K, N>>)),
            Always("out", Call("A", "GEMM", <<K, Span(Plus1(N), Minus1(SIZE)), N>>)),
            Always("out", Call("B", "GEMM", <<K, N, Span(Plus1(K), Minus1(N))>>)),
            Always("out", At2("A", N, K))>>)>>,
        Op("-", SIZE, N)),
    Class("SYRK", <<"k", "n">>,
        <<Def("k", Span(Cst(0), Minus1(SIZE))), Def("n", Span(Plus1(K), Minus1(SIZE)))>>, At2("A", N, N),
        <<Flow("A", "READ", <<Always("in", Call("C", "TRSM", <<K, N>>))>>),
          Flow("T", "RW", <<
            Either("in", First(K), At2("A", N, N), Call("T", "SYRK", <<Minus1(K), N>>)),
            Either("out", Op("==", N, Plus1(K)), Call("T", "POTRF", <<Plus1(K)>>),
                                                 Call("T", "SYRK", <<Plus1(K), N>>))>>)>>,
        Op("-", SIZE, N)),
    Class("GEMM", <<"k", "m", "n">>,
        <<Def("k", Span(Cst(0), Minus1(SIZE))), Def("m", Span(Op("+", K, Cst(2)), Minus1(SIZE))),
          Def("n", Span(Plus1(K), Minus1(M)))>>, At2("A", M, N),
        <<Flow("A", "READ", <<Always("in", Call("C", "TRSM", <<K, N>>))>>),
          Flow("B", "READ", <<Always("in", Call("C", "TRSM", <<K, M>>))>>),
          Flow("C", "RW", <<
            Either("in", First(K), At2("A", M, N), Call("C", "GEMM", <<Minus1(K), M, N>>)),
            Either("out", Op("==", N, Plus1(K)), Call("C", "TRSM", <<Plus1(K), M>>),
                                                 Call("C", "GEMM", <<Plus1(K), M, N>>))>>)>>,
        Null)>>)

\* A datum goes from node to node and comes home in a received chunk, which
\* the last task copies (tests/pingpong).
PingPong == Text(<<Global("NT")>>, <<
    Class("PING", <<"k">>, <<Def("k", Span(Cst(0), V("NT")))>>, At2("A", K, Cst(0)),
        <<Flow("T", "RW", <<
            Either("in", First(K), At2("A", Cst(0), Cst(0)), Call("T", "PING", <<Minus1(K)>>)),
            Either("out", Op("<", K, V("NT")), Call("T", "PING", <<Plus1(K)>>),
                                               At2("A", Cst(0), Cst(0)))>>)>>, Null)>>)

\* One datum is read by tasks of every node, which pass it on to tasks of
\* their own node next to what they wrote.
FanOut == Text(<<Global("NT")>>, <<
    Class("INIT", <<"p">>, <<Def("p", Span(Cst(0), Cst(0)))>>, At2("A", Cst(0), Cst(0)),
        <<Flow("T", "RW", <<
            When("in", Op("==", V("p"), Cst(0)), At2("A", Cst(0), Cst(0))),
            Always("out", Call("I", "FL", <<Span(Cst(0), V("NT"))>>))>>)>>, Cst(2)),
    Class("FL", <<"k">>, <<Def("k", Span(Cst(0), V("NT")))>>, At2("B", K, Cst(0)),
        <<Flow("I", "READ", <<
            Always("in", Call("T", "INIT", <<Cst(0)>>)),
            When("out", Op(">", K, Cst(0)), Call("I", "SL", <<K>>))>>),
          Flow("A", "RW", <<
            Always("in", At2("B", K, Cst(0))),
            When("out", Op(">", K, Cst(0)), Call("A", "SL", <<K>>)),
            When("out", First(K), At2("B", Cst(0), Cst(0)))>>)>>, K),
    Class("SL", <<"k">>, <<Def("k", Span(Cst(1), V("NT")))>>, At2("B", K, Cst(0)),
        <<Flow("I", "READ", <<Always("in", Call("I", "FL", <<K>>))>>),
          Flow("A", "RW", <<Always("in", Call("A", "FL", <<K>>)),
                            Always("out", At2("B", K, Cst(0)))>>)>>, Null)>>)

-----------------------------------------------------------------------------
(* Programs with one fault.                                                *)

Chain(defs, pred, input, output) == Text(<<Global("NT")>>, <<
    Class("S", <<"k">>, defs, pred,
          <<Flow("T", "RW", <<input, output>>)>>, Null)>>)
Range0  == <<Def("k", Span(Cst(0), V("NT")))>>
ToMem   == Always("out", At2("A", K, Cst(0)))
FromMem == Always("in", At2("A", K, Cst(0)))
Home    == At2("A", K, Cst(0))

Unused   == [Cholesky EXCEPT !.functions[1].defs = <<>>]        \* an undefined parameter
Faulty == <<
    Chain(<<Def("k", Span(Cst(0), V("x")))>>, Home, FromMem, ToMem),         \* second operand
    Chain(<<Def("k", Span(V("x"), V("NT")))>>, Home, FromMem, ToMem),        \* first operand
    Chain(Range0, At2("A", V("x"), Cst(0)), FromMem, ToMem),
    Chain(Range0, Home, When("in", Not(V("x")), At2("A", K, K)), ToMem),
    Chain(Range0, Home, FromMem, Always("out", Call("T", "Z", <<K>>))),      \* no such function
    Chain(Range0, Home, FromMem, Always("out", Call("Z", "S", <<K>>))),      \* no such flow
    Chain(Range0, Home, FromMem, Always("out", Call(Null, "S", <<K, K>>))),  \* a function as memory
    Chain(Range0, Home, Always("in", Call(Null, "A", <<K>>)), ToMem),        \* another number
    Chain(Range0, Home, FromMem, Always("out", Call("T", "S", <<K, K>>))),   \* of arguments
    Chain(<<Def("k", Cst(0))>>, Home, FromMem, ToMem),                       \* no range
    Unused,
    [PingPong EXCEPT !.globals = @ \o @],
    [PingPong EXCEPT !.functions = @ \o @],
    [PingPong EXCEPT !.globals = <<>>],
    [PingPong EXCEPT !.globals = <<Global("NT"), Global("k")>>],
    [PingPong EXCEPT !.globals = <<Def("Q", V("NT")), Global("NT")>>]>>

-----------------------------------------------------------------------------
(* Configurations.                                                         *)

Cyclic(lmt, lnt, nodes, rows, nrst, ncst) ==
    [kind |-> "2d", lmt |-> lmt, lnt |-> lnt, nodes |-> nodes, rows |-> rows,
     nrst |-> nrst, ncst |-> ncst, nb |-> 2, bigM |-> 2 * lmt, seed |-> 3]
Symmetric(nt, nodes, rows) == [Cyclic(nt, nt, nodes, rows, 1, 1) EXCEPT !.kind = "sym"]
Table(nt, nodes, rows) ==
    [kind |-> "tab", lmt |-> nt, lnt |-> nt, nodes |-> nodes, rows |-> rows,
     nb |-> 2, bigM |-> 2 * nt, seed |-> 5, table |-> Create2dbc(nt, nodes, rows)]

Platform(ranks, workers, cores, mode, desc, generate, compare, text, globals) ==
    [ranks |-> ranks, workers |-> workers, cores |-> cores, mode |-> mode, desc |-> desc,
     generate |-> generate, compare |-> compare, text |-> text, globals |-> globals]
Program2(ranks, workers, mode, desc, generate, text, globals) ==
    Platform(ranks, workers, 1, mode, desc, generate, FALSE, text, globals)
Matrices(ranks, cores, desc, generate, compare) ==
    Platform(ranks, 1, cores, "mask", desc, generate, compare, Null, <<>>)

NTis(n) == [NT |-> n]

Accepted == <<
    Program2(2, 1, "mask", [A |-> Cyclic(3, 3, 2, 2, 1, 1)], <<"A">>, Cholesky, [SIZE |-> 3]),
    Program2(1, 2, "counter", [A |-> Symmetric(3, 1, 1)], <<"A">>, Cholesky, [SIZE |-> 3]),
    Program2(2, 1, "counter", [A |-> Cyclic(3, 1, 2, 2, 1, 1)], <<"A">>, PingPong, NTis(2)),
    Program2(2, 1, "mask", [A |-> Cyclic(1, 1, 1, 1, 1, 1), B |-> Cyclic(3, 1, 2, 2, 1, 1)],
             <<"A", "B">>, FanOut, NTis(2))>>
Refused == [i \in DOMAIN Faulty |->
    Program2(1, 1, "mask", [A |-> Cyclic(3, 3, 1, 1, 1, 1)], <<"A">>, Faulty[i], NTis(2))]
Distributions == <<
    Matrices(4, 1, [A |-> Cyclic(5, 6, 4, 2, 2, 2)], <<"A">>, FALSE),
    Matrices(4, 1, [A |-> Symmetric(5, 4, 2)], <<"A">>, FALSE),
    Matrices(2, 3, [A |-> Cyclic(4, 5, 2, 1, 1, 3)], <<"A">>, FALSE),
    Matrices(2, 1, [A |-> Cyclic(3, 3, 2, 2, 1, 1), B |-> [Table(3, 2, 1) EXCEPT !.seed = 3]],
             <<"A", "B">>, TRUE),
    Matrices(4, 1, [A |-> Cyclic(2, 2, 4, 4, 1, 1)], <<"A">>, FALSE)>>

Catalogue   == LET all == Accepted \o Refused \o Distributions
               IN  Computed([i \in DOMAIN all |-> ("id" :> i) @@ all[i]])
ObjectCodes == LET all == Catalogue IN Computed(ObjectsOf(all))
TaskSet     == LET all == Catalogue IN UNION {AllTasks(all[i]) : i \in DOMAIN Accepted}
PriorityMap == LET all == Catalogue
               IN  Computed([t \in TaskSet |->
                       PriorityOf(all[t[1]], FunctionOf(all[t[1]], t), t[3])])

\* Each constant names a table, which TLC then evaluates once.
MCConfigs   == LET table == Catalogue IN table
MCObjects   == LET table == ObjectCodes IN table
MCTasks     == LET table == TaskSet IN table
MCPriority  == LET table == PriorityMap IN table
MCReleasers == (0..3) \X (0..2)
=============================================================================
