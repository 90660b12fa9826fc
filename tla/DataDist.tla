----------------------------- MODULE DataDist -----------------------------
(***************************************************************************)
(* The distributions of a tiled matrix over the nodes (data_dist/matrix):  *)
(* two-dimensional block cyclic by super-tiles, the same for the lower     *)
(* half of a symmetric matrix, and by table; and how a node finds and      *)
(* fills the tiles it owns (matrix.c).                                     *)
(*                                                                         *)
(* A descriptor d has a kind, the numbers of tiles lmt and lnt, the nodes, *)
(* the rows of the process grid, the super-tiles nrst by ncst and, for a   *)
(* table, the rank of each tile column after column. Positions in the      *)
(* buffer of a node count tiles.                                           *)
(***************************************************************************)
EXTENDS Integers, Sequences, FiniteSetsExt

NoRank == -1       \* UINT_MAX: the rank of a tile above the diagonal

Tiles(d) == (0..(d.lmt - 1)) \X (0..(d.lnt - 1))
NodeRanks(d) == 0..(d.nodes - 1)

GridCols(d) == d.nodes \div d.rows
RowRank(d, r) == r \div GridCols(d)
ColRank(d, r) == r % GridCols(d)
Ceil(x, y) == (x + y - 1) \div y

\* The size of the part of 0..total-1 that blocks of a width give to the
\* member k of n: the loops that compute nb_elem_r and nb_elem_c.
Share(k, n, width, total) ==
    LET part[b \in 0..total] ==
            LET first == (k + b * n) * width
            IN  IF first >= total THEN 0
                ELSE (IF first + width < total THEN width ELSE total - first) + part[b + 1]
    IN  part[0]

-----------------------------------------------------------------------------
(* twoDBC                                                                  *)

TwoDimRank(d, m, n) ==
    ((m \div d.nrst) % d.rows) * GridCols(d) + ((n \div d.ncst) % GridCols(d))

TwoDimAccepted(d) ==
    d.nodes % d.rows = 0 /\ d.rows <= Ceil(d.lmt, d.nrst) /\ GridCols(d) <= Ceil(d.lnt, d.ncst)

TwoDimRows(d, r) == Share(RowRank(d, r), d.rows, d.nrst, d.lmt)
TwoDimSize(d, r) == TwoDimRows(d, r) * Share(ColRank(d, r), GridCols(d), d.ncst, d.lnt)

\* The mistake of taking every super-tile for a full one.
TwoDimPosFull(d, r, m, n) ==
    TwoDimRows(d, r) * d.ncst * ((n \div d.ncst) \div GridCols(d))
    + d.ncst * d.nrst * ((m \div d.nrst) \div d.rows)
    + (n % d.ncst) * d.nrst + (m % d.nrst)

\* The head of the column of super-tiles, of the super-tile, of the column in
\* it, then the row: the last super-tiles may be narrower or shorter.
TwoDimPos(d, r, m, n) ==
    LET width  == IF n >= (d.lnt \div d.ncst) * d.ncst THEN d.lnt % d.ncst ELSE d.ncst
        height == IF m >= (d.lmt \div d.nrst) * d.nrst THEN d.lmt % d.nrst ELSE d.nrst
    IN  TwoDimRows(d, r) * d.ncst * ((n \div d.ncst) \div GridCols(d))
        + width * d.nrst * ((m \div d.nrst) \div d.rows)
        + (n % d.ncst) * height + (m % d.nrst)

-----------------------------------------------------------------------------
(* sym_twoDBC                                                              *)

SymRank(d, m, n) ==
    IF m < n THEN NoRank ELSE (m % d.rows) * GridCols(d) + (n % GridCols(d))

\* The tiles of a column of tiles that a node keeps, those on and below the
\* diagonal.
SymRows(d, r, total) ==
    total \div d.rows + (IF total % d.rows > RowRank(d, r) THEN 1 ELSE 0)
SymColumn(d, r, n) == SymRows(d, r, d.lmt) - SymRows(d, r, n)

\* The columns of a node before column n.
ColumnsBefore(d, r, n) == {c \in 0..(n - 1) : c % GridCols(d) = ColRank(d, r)}

SymSize(d, r) == MapThenSumSet(LAMBDA c : SymColumn(d, r, c), ColumnsBefore(d, r, d.lnt))
SymPos(d, r, m, n) ==
    MapThenSumSet(LAMBDA c : SymColumn(d, r, c), ColumnsBefore(d, r, n)) + ((m - n) \div d.rows)

-----------------------------------------------------------------------------
(* tabular distribution                                                    *)

Entry(d, m, n) == d.lmt * n + m + 1
TableRank(d, m, n) == d.table[Entry(d, m, n)]

\* create_2dbc, for a square matrix.
Create2dbc(nbtiles, nbproc, grow) ==
    LET gcol == nbproc \div grow
    IN  [k \in 1..(nbtiles * nbtiles) |->
            (((k - 1) % nbtiles) % grow) * gcol + (((k - 1) \div nbtiles) % gcol)]

-----------------------------------------------------------------------------
(* rank_of and data_of of a descriptor, whatever its kind.                 *)

Describable(d) == d.kind = "2d" => TwoDimAccepted(d)

RankOf(d, m, n) ==
    CASE d.kind = "2d"  -> TwoDimRank(d, m, n)
      [] d.kind = "sym" -> SymRank(d, m, n)
      [] d.kind = "tab" -> TableRank(d, m, n)

\* Where the node r keeps a tile; every tile of a table has its own buffer.
Pos(d, r, m, n) ==
    CASE d.kind = "2d"  -> TwoDimPos(d, r, m, n)
      [] d.kind = "sym" -> SymPos(d, r, m, n)
      [] d.kind = "tab" -> Entry(d, m, n) - 1

\* The positions allocated by the constructor of the descriptor.
Buffer(d, r) ==
    CASE d.kind = "2d"  -> 0..(TwoDimSize(d, r) - 1)
      [] d.kind = "sym" -> 0..(SymSize(d, r) - 1)
      [] d.kind = "tab" -> {k - 1 : k \in {j \in DOMAIN d.table : d.table[j] = r}}

-----------------------------------------------------------------------------
(* rand_dist_matrix                                                        *)

\* The coordinates a node finds, column after column.
Coordinates(d, r) ==
    SelectSeq([k \in 1..(d.lmt * d.lnt) |-> <<(k - 1) % d.lmt, (k - 1) \div d.lmt>>],
              LAMBDA t : RankOf(d, t[1], t[2]) = r)

\* The size of their table when entry k is written: one and a half times the
\* average, doubled when it is full.
FirstCapacity(d) == (3 * ((d.lmt * d.lnt) \div d.nodes)) \div 2
Capacity(d, k) ==
    LET size[i \in 0..k] ==
            IF i = 0 THEN FirstCapacity(d)
            ELSE IF size[i - 1] = i - 1 THEN 2 * size[i - 1] ELSE size[i - 1]
    IN  size[k]
TableHolds(d, r) == \A k \in 1..Len(Coordinates(d, r)) : k <= Capacity(d, k)

\* The slice of a generating thread; the last one takes the remainder.
Slice(d, r, cores, c) ==
    LET pos == Len(Coordinates(d, r))
        nb  == pos \div cores
    IN  SubSeq(Coordinates(d, r), c * nb + 1,
               IF c = cores - 1 THEN pos ELSE (c + 1) * nb)
=============================================================================
