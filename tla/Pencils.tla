------------------------------ MODULE Pencils ------------------------------
(***************************************************************************)
(* The pencil decomposition of a three dimensional field over a pA by pB   *)
(* grid of MPI ranks, as underling_problem_create computes it: what each   *)
(* rank holds when the data is long in n2, n1 or n0, the order and stride  *)
(* it is stored with, the four FFTW MPI transposes that lead from one      *)
(* direction to the next, and the memory they need.                        *)
(*                                                                         *)
(* A problem is a record [n, pA, pB, howmany, tn2, tn0]: n[0], n[1], n[2]  *)
(* are the global sizes, tn2 and tn0 stand for the two                     *)
(* UNDERLING_TRANSPOSED_LONG_N{2,0} flags.  A rank is the record of its    *)
(* Cartesian coordinates: r.a is its rank in pA_comm, r.b in pB_comm.      *)
(* A direction is 0, 1 or 2; index 3 is the interleaved field.             *)
(***************************************************************************)
EXTENDS Integers, FiniteSetsExt

Directions == 0..2
Indices    == 0..3

\* What underling_grid_create and underling_problem_create let through.
WellFormed == [n : [Directions -> Nat \ {0}], pA : Nat \ {0}, pB : Nat \ {0},
               howmany : Nat, tn2 : BOOLEAN, tn0 : BOOLEAN]

Ranks(p) == [a : 0 .. p.pA - 1, b : 0 .. p.pB - 1]

---------------------------------------------------------------------------
(* The block distribution of FFTW MPI (external).                          *)

\* FFTW_MPI_DEFAULT_BLOCK: the ceiling of n / procs.
DefaultBlock(n, procs) == (n + procs - 1) \div procs

\* How many of n rows fall to process k under blocks of the given size.
\* Trailing processes may be left with none.
LocalRows(n, block, k) ==
  LET left == n - k * block
  IN  IF left <= 0 THEN 0 ELSE IF left < block THEN left ELSE block

---------------------------------------------------------------------------
(* Extents.  When the data is long in i, the lower of the other two        *)
(* directions is split over pB and the higher over pA.                     *)

SplitOverB(i, d) == d = IF i = 0 THEN 1 ELSE 0

\* Mutant: a rank counts in shares of its own size.
StartByOwnShare(p, r, i, d) ==
  CASE d = 3 \/ d = i   -> 0
    [] SplitOverB(i, d) -> r.b * LocalRows(p.n[d], DefaultBlock(p.n[d], p.pB), r.b)
    [] OTHER            -> r.a * LocalRows(p.n[d], DefaultBlock(p.n[d], p.pA), r.a)

Start(p, r, i, d) ==
  CASE d = 3 \/ d = i   -> 0
    [] SplitOverB(i, d) -> r.b * DefaultBlock(p.n[d], p.pB)
    [] OTHER            -> r.a * DefaultBlock(p.n[d], p.pA)

Size(p, r, i, d) ==
  CASE d = 3            -> p.howmany
    [] d = i            -> p.n[d]
    [] SplitOverB(i, d) -> LocalRows(p.n[d], DefaultBlock(p.n[d], p.pB), r.b)
    [] OTHER            -> LocalRows(p.n[d], DefaultBlock(p.n[d], p.pA), r.a)

\* Mutant: the order of long in n0 as it would be without any transpose.
OrderUntransposed(p, i) ==
  CASE i = 2 -> IF p.tn2 THEN <<3, 1, 0, 2>> ELSE <<3, 2, 1, 0>>
    [] i = 1 -> <<3, 1, 0, 2>>
    [] i = 0 -> <<3, 2, 1, 0>>

\* The storage order, from the fastest index to the slowest.
Order(p, i) ==
  CASE i = 2 -> IF p.tn2 THEN <<3, 1, 0, 2>> ELSE <<3, 2, 1, 0>>
    [] i = 1 -> <<3, 1, 0, 2>>
    [] i = 0 -> IF p.tn0 THEN <<3, 2, 1, 0>> ELSE <<3, 0, 2, 1>>

\* Mutant: the second index is as fast as the first.
StrideNotInterleaved(p, r, i, d) ==
  LET o    == Order(p, i)
      s(k) == Size(p, r, i, o[k])
  IN  CASE d \in {o[1], o[2]} -> 1
        [] d = o[3] -> s(1) * s(2)
        [] d = o[4] -> s(1) * s(2) * s(3)

Stride(p, r, i, d) ==
  LET o    == Order(p, i)
      s(k) == Size(p, r, i, o[k])
  IN  CASE d = o[1] -> 1
        [] d = o[2] -> s(1)
        [] d = o[3] -> s(1) * s(2)
        [] d = o[4] -> s(1) * s(2) * s(3)

Extent(p, r, i) ==
  Size(p, r, i, 0) * Size(p, r, i, 1) * Size(p, r, i, 2) * Size(p, r, i, 3)

\* The addresses of a rank's pencil, in units of underling_real.
Pencil(p, r, i) == 0 .. Extent(p, r, i) - 1

\* The global element that the extents place at an address of the pencil.
ElementAt(p, r, i, addr) ==
  [d \in Indices |-> Start(p, r, i, d)
                       + ((addr \div Stride(p, r, i, d)) % Size(p, r, i, d))]

\* The elements of the global field, and those of them in a rank's pencil.
Total(p, d) == IF d = 3 THEN p.howmany ELSE p.n[d]

Elements(p) ==
  {x \in [Indices -> UNION {0 .. Total(p, d) - 1 : d \in Indices}] :
     \A d \in Indices : x[d] < Total(p, d)}

Holds(p, r, i, x) ==
  \A d \in Indices :
    x[d] \in Start(p, r, i, d) .. Start(p, r, i, d) + Size(p, r, i, d) - 1

---------------------------------------------------------------------------
(* Transposes.  A transpose moves a matrix of d0 rows and d1 columns whose *)
(* entries are howmany-tuples: rows dealt in blocks of block0 before,      *)
(* columns in blocks of block1 after.  tin and tout are                    *)
(* FFTW_MPI_TRANSPOSED_IN and FFTW_MPI_TRANSPOSED_OUT.                     *)

\* long in n2 to long in n1.  Block sizes are those of rank 0 of pA_comm,
\* which broadcasts them.
BackwardA(p, r) ==
  LET root == [r EXCEPT !.a = 0]
  IN  [d0      |-> Size(p, r, 2, 0) * p.n[1],
       d1      |-> p.n[2],
       block0  |-> Size(p, root, 2, 0) * Size(p, root, 2, 1),
       block1  |-> Size(p, root, 1, 2),
       howmany |-> p.howmany,
       tin     |-> p.tn2,
       tout    |-> FALSE]

\* long in n1 to long in n0, blocks from rank 0 of pB_comm.
BackwardB(p, r) ==
  LET root == [r EXCEPT !.b = 0]
  IN  [d0      |-> Size(p, r, 1, 2) * p.n[0],
       d1      |-> p.n[1],
       block0  |-> Size(p, root, 1, 2) * Size(p, root, 1, 0),
       block1  |-> Size(p, root, 0, 1),
       howmany |-> p.howmany,
       tin     |-> FALSE,
       tout    |-> p.tn0]

\* Mutant: the transposed-in and -out flags are not exchanged.
InverseKeepsFlags(t) ==
  [d0      |-> t.d1,      d1     |-> t.d0,
   block0  |-> t.block1,  block1 |-> t.block0,
   howmany |-> t.howmany, tin    |-> t.tin,    tout |-> t.tout]

\* The transpose that undoes t.
InverseTranspose(t) ==
  [d0      |-> t.d1,      d1     |-> t.d0,
   block0  |-> t.block1,  block1 |-> t.block0,
   howmany |-> t.howmany, tin    |-> t.tout,   tout |-> t.tin]

\* A way from one direction to a neighbouring one.
Ways == {<<2, 1>>, <<1, 0>>, <<0, 1>>, <<1, 2>>}

TransposeOf(p, r, way) ==
  CASE way = <<2, 1>> -> BackwardA(p, r)
    [] way = <<1, 0>> -> BackwardB(p, r)
    [] way = <<0, 1>> -> InverseTranspose(BackwardB(p, r))
    [] way = <<1, 2>> -> InverseTranspose(BackwardA(p, r))

\* No data at all: a no-operation plan is made and no rank waits for another.
Trivial(t) == t.howmany = 0 \/ t.d0 = 0 \/ t.d1 = 0

\* Transposes between n2 and n1 run over pA_comm, those between n1 and n0 over
\* pB_comm: r's number there, its member with number k, and all its members.
OverA(way)       == 2 \in {way[1], way[2]}
RankIn(way, r)   == IF OverA(way) THEN r.a ELSE r.b
Peer(way, r, k)  == IF OverA(way) THEN [r EXCEPT !.a = k] ELSE [r EXCEPT !.b = k]
Group(p, way, r) == {q \in Ranks(p) : q = Peer(way, r, RankIn(way, q))}

LocalIn(t, k)  == LocalRows(t.d0, t.block0, k)
LocalOut(t, k) == LocalRows(t.d1, t.block1, k)

Larger(x, y) == IF x < y THEN y ELSE x

\* fftw_mpi_local_size_many_transposed needs room for both sides; FFTW may
\* ask for more, never for less.
LocalSize(t, k) ==
  IF Trivial(t) THEN 0
  ELSE Larger(t.howmany * LocalIn(t, k) * t.d1, t.howmany * LocalOut(t, k) * t.d0)

\* Mutant: the sizes over pB are forgotten.
LocalMemoryOverA(p, r) ==
  LET size(way) == LET t == TransposeOf(p, r, way) IN LocalSize(t, RankIn(way, r))
  IN  Larger(size(<<2, 1>>), size(<<1, 2>>))

\* The memory of a problem: the largest local size of its transposes.
LocalMemory(p, r) ==
  LET size(way) == LET t == TransposeOf(p, r, way) IN LocalSize(t, RankIn(way, r))
  IN  Larger(Larger(Larger(size(<<2, 1>>), size(<<1, 0>>)), size(<<0, 1>>)),
             size(<<1, 2>>))

---------------------------------------------------------------------------
(* The memory queries.  The others are reductions of local_memory over     *)
(* g_comm, that is over all ranks.                                         *)

\* Mutant: the pencil long in n1 is forgotten.
OptimumForgetsN1(p, r) == Larger(Extent(p, r, 0), Extent(p, r, 2))

LocalMemoryOptimum(p, r) ==
  Larger(Larger(Extent(p, r, 0), Extent(p, r, 1)), Extent(p, r, 2))

LocalMemoryMaximum(p) == Max({LocalMemory(p, r) : r \in Ranks(p)})
LocalMemoryMinimum(p) == Min({LocalMemory(p, r) : r \in Ranks(p)})
GlobalMemory(p)       == LET m(r) == LocalMemory(p, r) IN MapThenSumSet(m, Ranks(p))

\* The product that the code computes in int; its overflow is left out.
GlobalMemoryOptimum(p) == p.howmany * p.n[0] * p.n[1] * p.n[2]

---------------------------------------------------------------------------

\* Where the transpose takes the value from that it stores at addr of process
\* k: the process that holds the matrix row, and the address there (external).
Source(t, k, addr) ==
  LET cell == addr \div t.howmany
      f    == addr % t.howmany
      row  == IF t.tout THEN cell \div LocalOut(t, k) ELSE cell % t.d0
      col  == k * t.block1
                + (IF t.tout THEN cell % LocalOut(t, k) ELSE cell \div t.d0)
      from == row \div t.block0
      line == row - from * t.block0
  IN  [rank |-> from,
       addr |-> f + t.howmany * (IF t.tin THEN col * LocalIn(t, from) + line
                                          ELSE line * t.d1 + col)]

\* The same as a map between slots of the whole grid, a slot being an address
\* of a rank's buffer: from where each address of r's pencil is filled.
Pulls(p, way, r) ==
  LET t == TransposeOf(p, r, way)
      s(addr) == Source(t, RankIn(way, r), addr)
  IN  [addr \in Pencil(p, r, way[2]) |->
         [rank |-> Peer(way, r, s(addr).rank), addr |-> s(addr).addr]]

\* The slots of the pencils filled in direction s whose values rank r holds
\* when the data got to direction d by the shortest way.
Held(p, s, r, d) ==
  CASE s = d             -> [addr \in Pencil(p, r, s) |-> [rank |-> r, addr |-> addr]]
    [] <<s, d>> \in Ways -> Pulls(p, <<s, d>>, r)
    [] OTHER             -> LET last == Pulls(p, <<1, d>>, r) IN
                            [addr \in DOMAIN last |->
                               Pulls(p, <<s, 1>>, last[addr].rank)[last[addr].addr]]

=============================================================================
