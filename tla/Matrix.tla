------------------------------- MODULE Matrix -------------------------------
(***************************************************************************)
(* The matrices of a program: every node describes them, its threads fill  *)
(* the tiles it owns with random numbers that do not depend on the         *)
(* distribution, and at the end node 0 compares two matrices tile by tile  *)
(* with what the owners send (data_dist/matrix/matrix.c).                  *)
(*                                                                         *)
(* The phases of a node come one after the other. What it does between the *)
(* generation and the comparison, its phase "new" and the following ones,  *)
(* is in the module that extends this one. The content of a tile is the    *)
(* name and the coordinates of the tile that was generated in it.          *)
(***************************************************************************)
EXTENDS DataDist, SequencesExt, TLC

CONSTANTS
    Configs,      \* a sequence of platforms and programs
    RndA, RndC,   \* the generator: Rnd64_A, Rnd64_C and
    RndMod        \* 2^64 in the code

VARIABLES
    cfg,          \* the configuration of this execution
    phase,        \* where each node is
    content,      \* what is in each chunk of memory
    made,         \* <<matrix, thread>> pairs generated by each node
    sent,         \* tiles each node has sent to node 0
    compared,     \* items node 0 has compared or received
    firsthalf,    \* bufferA of node 0
    differences   \* count

\* The value v itself. The comparison makes TLC compute every part of a table
\* of constants at once, which it would do again at each use otherwise.
Computed(v) == CHOOSE x \in {v} : x = v

\* The content of memory nobody has written.
Nothing == <<"nothing", 0, 0>>

-----------------------------------------------------------------------------
(* create_tile_...                                                         *)

\* Rnd64_jump: the number n steps after the seed, by squaring the step.
Jump(seed, n) ==
    LET Square(ran, a, c, left) ==   \* one bit of what is left of n
            <<IF left % 2 = 1 THEN (a * ran + c) % RndMod ELSE ran,
              (a * a) % RndMod, (c * (a + 1)) % RndMod, left \div 2>>
        step[k \in 0..n] ==
            IF k = 0 THEN <<seed, RndA, RndC, n>>
            ELSE LET s == step[k - 1]
                 IN  IF s[4] = 0 THEN s ELSE Square(s[1], s[2], s[3], s[4])
    IN  step[n][1]

\* What a tile receives: column j is a run of the generator that starts at
\* the place of its first element in the whole matrix, of M rows.
Element(d, m, n, i, j) ==
    LET run[k \in 0..i] == IF k = 0 THEN Jump(d.seed, m * d.nb + (n * d.nb + j) * d.bigM)
                           ELSE (RndA * run[k - 1] + RndC) % RndMod
    IN  run[i]

-----------------------------------------------------------------------------
(* The descriptors that are right about their tiles.                       *)

\* Each tile of a described matrix has one owner, which keeps it in a place of
\* its own inside the buffer it allocated; no two nodes differ about it.
Distributed(d) ==
    LET own == {t \in Tiles(d) : RankOf(d, t[1], t[2]) # NoRank}
    IN  /\ \A t \in own : LET r == RankOf(d, t[1], t[2]) IN
               r \in NodeRanks(d) /\ Pos(d, r, t[1], t[2]) \in Buffer(d, r)
        /\ \A t, u \in own : RankOf(d, t[1], t[2]) = RankOf(d, u[1], u[2])
                             /\ Pos(d, RankOf(d, t[1], t[2]), t[1], t[2])
                                = Pos(d, RankOf(d, u[1], u[2]), u[1], u[2]) => t = u
        /\ \A r \in NodeRanks(d) : Cardinality(Buffer(d, r)) = Len(Coordinates(d, r))

\* The reference of a random number: one step of the generator after another.
Random(seed, n) ==
    LET ran[k \in 0..n] == IF k = 0 THEN seed ELSE (RndA * ran[k - 1] + RndC) % RndMod
    IN  ran[n]

\* The numbers of a tile depend on the place of the tile in the matrix only.
TilesOfOneMatrix(d) ==
    \A t \in Tiles(d), i, j \in 0..(d.nb - 1) :
        Element(d, t[1], t[2], i, j)
            = Random(d.seed, (t[1] * d.nb + i) + (t[2] * d.nb + j) * d.bigM)

\* The descriptors that are right about their tiles.
Right(d) ==
    Distributed(d) /\ TilesOfOneMatrix(d) /\ \A r \in NodeRanks(d) : TableHolds(d, r)

-----------------------------------------------------------------------------
(* The nodes.                                                              *)

matrixVars == <<made, sent, compared, firsthalf, differences>>

Conf  == Configs[cfg]
Ranks == 0..(Conf.ranks - 1)
Desc(name) == Conf.desc[name]

\* Each descriptor, evaluated once: where the nodes keep the tiles and what the
\* threads generate.
Layout(d, ranks, cores) ==
    [pos   |-> [r \in 0..(ranks - 1) |-> [t \in Tiles(d) |-> Pos(d, r, t[1], t[2])]],
     slice |-> [r \in 0..(ranks - 1) |-> [k \in 0..(cores - 1) |-> Slice(d, r, cores, k)]],
     right |-> Describable(d) => Right(d)]
Layouts == Computed([i \in DOMAIN Configs |-> [name \in DOMAIN Configs[i].desc |->
               Layout(Configs[i].desc[name], Configs[i].ranks, Configs[i].cores)]])

\* The chunk data_of returns, an address in the buffer of the node itself.
TileAt(name, r, m, n) == <<"tile", name, r, Layouts[cfg][name].pos[r][<<m, n>>]>>

AllBuffers ==
    UNION {{<<"tile", name, r, p>> : p \in Buffer(Desc(name), r)} :
              <<name, r>> \in (DOMAIN Conf.desc) \X Ranks}

MatrixInit ==
    /\ cfg \in DOMAIN Configs
    /\ phase = [r \in Ranks |-> "describe"]
    /\ content = [a \in AllBuffers |-> Nothing]
    /\ made = [r \in Ranks |-> {}]
    /\ sent = [r \in Ranks |-> 0]
    /\ compared = 0 /\ firsthalf = Nothing /\ differences = 0

EnterPhase(r, p) == phase' = [phase EXCEPT ![r] = p]

\* two_dim_block_cyclic_init ends the program when a node would have no tile.
Describe(r) ==
    /\ phase[r] = "describe"
    /\ EnterPhase(r, IF \A name \in DOMAIN Conf.desc : Describable(Desc(name))
                     THEN "generate" ELSE "exit")
    /\ UNCHANGED <<cfg, content, matrixVars>>

-----------------------------------------------------------------------------
(* rand_dist_matrix, matrix after matrix: the thread k of the node writes  *)
(* the tiles of its slice.                                                 *)

Generate(r, i, k) ==
    LET name == Conf.generate[i]
        written(memory, t) == (TileAt(name, r, t[1], t[2]) :> <<name, t[1], t[2]>>) @@ memory
    IN  /\ phase[r] = "generate"
        /\ <<i, k>> \notin made[r]
        /\ \A h \in 1..(i - 1), l \in 0..(Conf.cores - 1) : <<h, l>> \in made[r]
        /\ made' = [made EXCEPT ![r] = @ \cup {<<i, k>>}]
        /\ content' = FoldLeft(written, content, Layouts[cfg][name].slice[r][k])
        /\ UNCHANGED <<cfg, phase, sent, compared, firsthalf, differences>>

EveryThread == (DOMAIN Conf.generate) \X (0..(Conf.cores - 1))

\* The threads are joined.
Generated(r) ==
    /\ phase[r] = "generate" /\ made[r] = EveryThread
    /\ EnterPhase(r, "new")
    /\ UNCHANGED <<cfg, content, matrixVars>>

-----------------------------------------------------------------------------
(* compare_dist_data(A, B): node 0 walks the tiles and receives, from any  *)
(* tag, what it does not own; the others walk the tiles in the same order. *)

\* The tiles in order, each of A then of B.
Walk == [k \in 1..(2 * Desc("A").lmt * Desc("A").lnt) |->
            LET t == (k - 1) \div 2
            IN  <<IF k % 2 = 1 THEN "A" ELSE "B", t \div Desc("A").lnt, t % Desc("A").lnt>>]
OwnerOf(item) == RankOf(Desc(item[1]), item[2], item[3])
\* The mistake of sending one matrix after the other.
SendByMatrix(r) ==
    SelectSeq(Walk, LAMBDA item : OwnerOf(item) = r /\ item[1] = "A")
    \o SelectSeq(Walk, LAMBDA item : OwnerOf(item) = r /\ item[1] = "B")
SendList(r) == SelectSeq(Walk, LAMBDA item : OwnerOf(item) = r)
ValueAt(r, item) == content[TileAt(item[1], r, item[2], item[3])]

\* Matrices of one seed have the same numbers.
Numbers(value) ==
    IF value[1] \in DOMAIN Conf.desc THEN <<Desc(value[1]).seed, value[2], value[3]>> ELSE value

\* A synchronous send of the next tile of the owner meets the receive. The
\* data received are those the owner sends next, whatever they are.
Compare ==
    LET item  == Walk[compared + 1]
        owner == OwnerOf(item)
        next  == SendList(owner)[sent[owner] + 1]
        value == IF owner = 0 THEN ValueAt(0, item) ELSE ValueAt(owner, next)
    IN  /\ phase[0] = "compare" /\ compared < Len(Walk)
        /\ owner # 0 => phase[owner] = "compare" /\ sent[owner] < Len(SendList(owner))
        /\ compared' = compared + 1
        /\ sent' = IF owner = 0 THEN sent ELSE [sent EXCEPT ![owner] = @ + 1]
        /\ IF item[1] = "A"
           THEN firsthalf' = value /\ UNCHANGED differences
           ELSE /\ differences' = differences + (IF Numbers(firsthalf) # Numbers(value) THEN 1 ELSE 0)
                /\ UNCHANGED firsthalf
        /\ UNCHANGED <<cfg, phase, content, made>>

Compared(r) ==
    /\ phase[r] = "compare"
    /\ IF r = 0 THEN compared = Len(Walk) ELSE sent[r] = Len(SendList(r))
    /\ EnterPhase(r, "exit")
    /\ UNCHANGED <<cfg, content, matrixVars>>

MatrixStep(r) ==
    \/ Describe(r) \/ Generated(r) \/ Compared(r)
    \/ \E i \in DOMAIN Conf.generate, k \in 0..(Conf.cores - 1) : Generate(r, i, k)

-----------------------------------------------------------------------------
(* Correctness.                                                            *)

\* Once a node has generated its matrices, every tile it owns is in its own
\* place with its own numbers, and it wrote its table of coordinates in bounds.
MatrixGenerated ==
    \A r \in Ranks : phase[r] = "new" =>
        \A i \in DOMAIN Conf.generate : LET name == Conf.generate[i] IN
            /\ Layouts[cfg][name].right
            /\ \A t \in Tiles(Desc(name)) : RankOf(Desc(name), t[1], t[2]) = r =>
                   content[TileAt(name, r, t[1], t[2])] = <<name, t[1], t[2]>>

\* The comparison pairs the tiles of the same coordinates and counts exactly
\* those that differ.
ComparisonExact ==
    phase[0] = "exit" /\ compared > 0 =>
        LET numbers(name, t) == Numbers(ValueAt(OwnerOf(<<name>> \o t), <<name>> \o t))
        IN  differences = Cardinality({t \in Tiles(Desc("A")) : numbers("A", t) # numbers("B", t)})
=============================================================================
