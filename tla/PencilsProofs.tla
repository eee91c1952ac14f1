--------------------------- MODULE PencilsProofs ---------------------------
(***************************************************************************)
(* Facts about the decomposition, for every problem: block distributions   *)
(* scale, rank 0 holds a full block, and the memory of a rank suffices for *)
(* its pencil in every direction.                                          *)
(***************************************************************************)
EXTENDS Pencils, FiniteSetTheorems, TLAPS

\* A set of numbers that is not empty has a least one.
LEMMA LeastNumber ==
  ASSUME NEW T \in SUBSET Nat, T # {}
  PROVE  \E m \in T : \A x \in T : m <= x
<1>1. PICK n \in T : TRUE
  OBVIOUS
<1> DEFINE R == StrictSubsetOrdering(0 .. n)
           F == FiniteSubsetsOf(0 .. n)
           I == {0 .. x : x \in {y \in T : y <= n}}
<1>2. IsFiniteSet(0 .. n)
  BY <1>1, FS_Interval
<1>3. IsWellFoundedOn(R, F)
  BY FS_StrictSubsetOrderingWellFounded
<1>4. \A x \in Nat : x <= n => 0 .. x \in F
  BY <1>1, FS_Interval DEF FiniteSubsetsOf
<1>5. I \subseteq F /\ I # {}
  BY <1>1, <1>4
<1> HIDE DEF F, R
<1>6. \E m \in I : \A y \in I : ~(<<y, m>> \in R)
  BY <1>3, <1>5, WFMin
<1>7. PICK k \in T : k <= n /\ \A y \in T : y <= n => ~(<<0 .. y, 0 .. k>> \in R)
  BY <1>6
<1>8. ASSUME NEW y \in T, y < k PROVE <<0 .. y, 0 .. k>> \in R
  <2>1. /\ 0 .. y \subseteq 0 .. n /\ 0 .. k \subseteq 0 .. n
        /\ 0 .. y \subseteq 0 .. k /\ 0 .. y # 0 .. k
    BY <1>1, <1>7, <1>8
  <2> QED BY <2>1 DEF R, StrictSubsetOrdering
<1>9. ASSUME NEW y \in T PROVE k <= y
  <2>1. k \in Nat /\ y \in Nat /\ n \in Nat /\ k <= n
    BY <1>1, <1>7
  <2>2. y < k => <<0 .. y, 0 .. k>> \in R /\ y <= n
    BY <1>8, <2>1
  <2>3. ~(y < k)
    BY <1>7, <2>2
  <2> QED BY <2>1, <2>3
<1> QED BY <1>9

\* A default block is between 1 and n when there is anything to distribute.
LEMMA DefaultBlockBounds ==
  ASSUME NEW n \in Nat \ {0}, NEW procs \in Nat \ {0}
  PROVE  DefaultBlock(n, procs) \in Nat \ {0} /\ DefaultBlock(n, procs) <= n
<1> DEFINE b == DefaultBlock(n, procs)
<1>1. b \in Int /\ procs * b <= n + procs - 1 /\ n + procs - 1 < procs * b + procs
  BY DEF DefaultBlock
<1>2. b >= 1
  <2>1. SUFFICES ASSUME b <= 0 PROVE FALSE
    BY <1>1
  <2>2. procs * b <= 0
    BY <1>1, <2>1
  <2> QED BY <1>1, <2>2
<1>3. b <= n
  <2>1. SUFFICES ASSUME b >= n + 1 PROVE FALSE
    BY <1>1
  <2>2. procs * b >= procs * (n + 1)
    BY <1>1, <2>1
  <2>3. procs * (n + 1) = procs * n + procs /\ procs * n >= n
    OBVIOUS
  <2> QED BY <1>1, <2>2, <2>3
<1> QED BY <1>1, <1>2, <1>3

\* A process holds a natural number of rows, at most a block.
LEMMA LocalRowsType ==
  ASSUME NEW n \in Nat, NEW block \in Nat, NEW k \in Nat
  PROVE  LocalRows(n, block, k) \in Nat /\ LocalRows(n, block, k) <= block
<1>1. k * block \in Nat
  OBVIOUS
<1> QED BY <1>1 DEF LocalRows

\* Rank 0 holds a whole block: what it broadcasts is the block size.
LEMMA RootHoldsBlock ==
  ASSUME NEW n \in Nat \ {0}, NEW procs \in Nat \ {0}
  PROVE  LocalRows(n, DefaultBlock(n, procs), 0) = DefaultBlock(n, procs)
<1>1. DefaultBlock(n, procs) \in Nat \ {0} /\ DefaultBlock(n, procs) <= n
  BY DefaultBlockBounds
<1>2. 0 * DefaultBlock(n, procs) = 0
  BY <1>1
<1> QED BY <1>1, <1>2 DEF LocalRows

\* Dealing s * n rows in blocks of s * b deals s times the rows that dealing n
\* in blocks of b does: planes of a pencil are split like the direction they
\* stand in.
LEMMA LocalRowsScale ==
  ASSUME NEW s \in Nat, NEW n \in Nat, NEW b \in Nat, NEW k \in Nat
  PROVE  LocalRows(s * n, s * b, k) = s * LocalRows(n, b, k)
<1> DEFINE left == n - k * b
<1>1. k * b \in Nat /\ left \in Int /\ s * left \in Int /\ s * b \in Nat
  OBVIOUS
<1>2. s * n - k * (s * b) = s * left
  <2>1. k * (s * b) = s * (k * b)
    OBVIOUS
  <2>2. s * (n - k * b) = s * n - s * (k * b)
    BY <1>1
  <2> QED BY <2>1, <2>2
<1>3. CASE s = 0
  <2>1. s * left = 0 /\ s * LocalRows(n, b, k) = 0
    BY <1>3, <1>1, LocalRowsType
  <2> QED BY <2>1, <1>2 DEF LocalRows
<1>4. CASE s > 0
  <2>1. left <= 0 <=> s * left <= 0
    BY <1>1, <1>4
  <2>2. left < b <=> s * left < s * b
    BY <1>1, <1>4
  <2>3. s * 0 = 0
    OBVIOUS
  <2> HIDE DEF left
  <2>4. LocalRows(s * n, s * b, k)
          = IF s * left <= 0 THEN 0 ELSE IF s * left < s * b THEN s * left ELSE s * b
    BY <1>2 DEF LocalRows
  <2>5. LocalRows(n, b, k) = IF left <= 0 THEN 0 ELSE IF left < b THEN left ELSE b
    BY DEF LocalRows, left
  <2> QED BY <2>1, <2>2, <2>3, <2>4, <2>5, <1>1
<1> QED BY <1>3, <1>4

---------------------------------------------------------------------------

\* Every size is a natural number.
LEMMA SizeType ==
  ASSUME NEW p \in WellFormed, NEW r \in Ranks(p),
         NEW i \in Directions, NEW d \in Indices
  PROVE  Size(p, r, i, d) \in Nat
<1>1. /\ p.howmany \in Nat /\ p.pA \in Nat \ {0} /\ p.pB \in Nat \ {0}
      /\ r.a \in Nat /\ r.b \in Nat
  BY DEF WellFormed, Ranks
<1>2. CASE d = 3
  <2>1. d # i /\ ~SplitOverB(i, d)
    BY <1>2 DEF SplitOverB, Directions
  <2> QED BY <1>1, <1>2, <2>1 DEF Size
<1>3. CASE d # 3
  <2>1. p.n[d] \in Nat \ {0}
    BY <1>3 DEF WellFormed, Indices, Directions
  <2>2. /\ DefaultBlock(p.n[d], p.pA) \in Nat
        /\ DefaultBlock(p.n[d], p.pB) \in Nat
    BY <1>1, <2>1, DefaultBlockBounds
  <2>3. /\ LocalRows(p.n[d], DefaultBlock(p.n[d], p.pA), r.a) \in Nat
        /\ LocalRows(p.n[d], DefaultBlock(p.n[d], p.pB), r.b) \in Nat
    BY <1>1, <2>1, <2>2, LocalRowsType
  <2> QED BY <1>3, <2>1, <2>3 DEF Size
<1> QED BY <1>2, <1>3

\* A transpose needs at least the room of the matrix before and after it.
LEMMA LocalSizeBounds ==
  ASSUME NEW t, NEW k \in Nat,
         t.howmany \in Nat, t.d0 \in Nat, t.d1 \in Nat,
         t.block0 \in Nat, t.block1 \in Nat
  PROVE  /\ LocalSize(t, k) \in Nat
         /\ t.howmany * LocalIn(t, k) * t.d1 <= LocalSize(t, k)
         /\ t.howmany * LocalOut(t, k) * t.d0 <= LocalSize(t, k)
<1> DEFINE in  == LocalIn(t, k)
           out == LocalOut(t, k)
<1>1. in \in Nat /\ out \in Nat
  <2>1. LocalRows(t.d0, t.block0, k) \in Nat /\ LocalRows(t.d1, t.block1, k) \in Nat
    BY LocalRowsType
  <2> QED BY <2>1 DEF LocalIn, LocalOut
<1>2. CASE ~Trivial(t)
  <2>1. t.howmany * in * t.d1 \in Nat /\ t.howmany * out * t.d0 \in Nat
    BY <1>1
  <2> QED BY <1>2, <2>1 DEF LocalSize, Larger
<1>3. CASE Trivial(t)
  <2>1. LocalSize(t, k) = 0
    BY <1>3 DEF LocalSize
  <2>2. t.d0 = 0 => in = 0
    <3>1. ASSUME t.d0 = 0 PROVE in = 0
      <4>1. k * t.block0 \in Nat
        OBVIOUS
      <4> QED BY <3>1, <4>1 DEF LocalIn, LocalRows
    <3> QED BY <3>1
  <2>3. t.d1 = 0 => out = 0
    <3>1. ASSUME t.d1 = 0 PROVE out = 0
      <4>1. k * t.block1 \in Nat
        OBVIOUS
      <4> QED BY <3>1, <4>1 DEF LocalOut, LocalRows
    <3> QED BY <3>1
  <2>4. t.howmany = 0 => t.howmany * in * t.d1 = 0 /\ t.howmany * out * t.d0 = 0
    BY <1>1
  <2>5. t.d0 = 0 => t.howmany * in * t.d1 = 0 /\ t.howmany * out * t.d0 = 0
    BY <1>1, <2>2
  <2>6. t.d1 = 0 => t.howmany * in * t.d1 = 0 /\ t.howmany * out * t.d0 = 0
    BY <1>1, <2>3
  <2> QED BY <1>3, <2>1, <2>4, <2>5, <2>6 DEF Trivial
<1> QED BY <1>2, <1>3

\* The two transposes that underling_problem_create makes itself are described
\* by natural numbers.
LEMMA BackwardType ==
  ASSUME NEW p \in WellFormed, NEW r \in Ranks(p),
         NEW t \in {BackwardA(p, r), BackwardB(p, r)}
  PROVE  /\ t.howmany \in Nat /\ t.d0 \in Nat /\ t.d1 \in Nat
         /\ t.block0 \in Nat /\ t.block1 \in Nat
<1> DEFINE rootA == [r EXCEPT !.a = 0]
           rootB == [r EXCEPT !.b = 0]
<1>1. rootA \in Ranks(p) /\ rootB \in Ranks(p)
  BY DEF Ranks, WellFormed
<1>2. /\ p.n[0] \in Nat /\ p.n[1] \in Nat /\ p.n[2] \in Nat /\ p.howmany \in Nat
  BY DEF WellFormed, Directions
<1> HIDE DEF rootA, rootB
<1>3. \A q \in Ranks(p) : \A i, d \in 0..2 : Size(p, q, i, d) \in Nat
  BY SizeType DEF Directions, Indices
<1>4. /\ Size(p, r, 2, 0) \in Nat /\ Size(p, r, 1, 2) \in Nat
      /\ Size(p, rootA, 2, 0) \in Nat /\ Size(p, rootA, 2, 1) \in Nat
      /\ Size(p, rootA, 1, 2) \in Nat /\ Size(p, rootB, 1, 2) \in Nat
      /\ Size(p, rootB, 1, 0) \in Nat /\ Size(p, rootB, 0, 1) \in Nat
  BY <1>1, <1>3
<1>5. CASE t = BackwardA(p, r)
  BY <1>2, <1>4, <1>5 DEF BackwardA, rootA
<1>6. CASE t = BackwardB(p, r)
  BY <1>2, <1>4, <1>6 DEF BackwardB, rootB
<1> QED BY <1>5, <1>6

\* The memory of a problem is at least the local size of both.
LEMMA LocalMemoryBounds ==
  ASSUME NEW p \in WellFormed, NEW r \in Ranks(p)
  PROVE  /\ LocalMemory(p, r) \in Nat
         /\ LocalSize(BackwardA(p, r), r.a) <= LocalMemory(p, r)
         /\ LocalSize(BackwardB(p, r), r.b) <= LocalMemory(p, r)
<1> DEFINE A  == BackwardA(p, r)
           B  == BackwardB(p, r)
           sA == LocalSize(A, r.a)
           sB == LocalSize(B, r.b)
           iA == LocalSize(InverseTranspose(A), r.a)
           iB == LocalSize(InverseTranspose(B), r.b)
<1>1. r.a \in Nat /\ r.b \in Nat
  BY DEF Ranks
<1>2. \A t \in {A, B} :
        /\ t.howmany \in Nat /\ t.d0 \in Nat /\ t.d1 \in Nat
        /\ t.block0 \in Nat /\ t.block1 \in Nat
  BY BackwardType
<1>3. \A t \in {A, B} :
        /\ InverseTranspose(t).howmany = t.howmany
        /\ InverseTranspose(t).d0 = t.d1 /\ InverseTranspose(t).d1 = t.d0
        /\ InverseTranspose(t).block0 = t.block1
        /\ InverseTranspose(t).block1 = t.block0
  BY DEF InverseTranspose, BackwardA, BackwardB
<1> HIDE DEF A, B
<1>4. sA \in Nat /\ sB \in Nat
  BY <1>1, <1>2, LocalSizeBounds
<1>5. iA \in Nat /\ iB \in Nat
  BY <1>1, <1>2, <1>3, LocalSizeBounds
<1>6. LocalMemory(p, r) = Larger(Larger(Larger(sA, sB), iB), iA)
  BY DEF LocalMemory, TransposeOf, RankIn, OverA, A, B
<1> HIDE DEF sA, sB, iA, iB
<1>7. /\ LocalMemory(p, r) \in Nat
      /\ sA <= LocalMemory(p, r) /\ sB <= LocalMemory(p, r)
  BY <1>4, <1>5, <1>6 DEF Larger
<1> QED BY <1>7 DEF sA, sB, A, B

\* The planes of n0 a rank holds while long in n2, all lines of n1: dealing
\* them over pA leaves each rank the lines its extents name.
LEMMA RowsAreLines ==
  ASSUME NEW p \in WellFormed, NEW r \in Ranks(p)
  PROVE  LocalIn(BackwardA(p, r), r.a) = Size(p, r, 2, 0) * Size(p, r, 2, 1)
<1> DEFINE b == DefaultBlock(p.n[1], p.pA)
           s == Size(p, r, 2, 0)
           root == [r EXCEPT !.a = 0]
<1>1. p.n[1] \in Nat \ {0} /\ p.pA \in Nat \ {0} /\ r.a \in Nat
  BY DEF WellFormed, Directions, Ranks
<1>2. b \in Nat
  BY <1>1, DefaultBlockBounds
<1>3. s \in Nat
  BY SizeType DEF Directions, Indices
<1>4. LocalRows(p.n[1], b, 0) = b
  BY <1>1, RootHoldsBlock
<1>5. LocalRows(s * p.n[1], s * b, r.a) = s * LocalRows(p.n[1], b, r.a)
  <2> HIDE DEF s, b
  <2> DEFINE lines == p.n[1]
             k     == r.a
  <2>1. s \in Nat /\ lines \in Nat /\ b \in Nat /\ k \in Nat
    BY <1>1, <1>2, <1>3
  <2> HIDE DEF lines, k
  <2>2. LocalRows(s * lines, s * b, k) = s * LocalRows(lines, b, k)
    BY <2>1, LocalRowsScale
  <2> QED BY <2>2 DEF lines, k
<1>6. root.a = 0 /\ root.b = r.b
  BY DEF Ranks
<1>7. /\ Size(p, root, 2, 0) = s
      /\ Size(p, root, 2, 1) = b
      /\ Size(p, r, 2, 1) = LocalRows(p.n[1], b, r.a)
  BY <1>4, <1>6 DEF Size, SplitOverB
<1> QED BY <1>5, <1>7 DEF BackwardA, LocalIn

\* The columns a process is left with are the share its extents name.
LEMMA ColumnsAreShares ==
  ASSUME NEW p \in WellFormed, NEW r \in Ranks(p)
  PROVE  /\ LocalOut(BackwardA(p, r), r.a) = Size(p, r, 1, 2)
         /\ LocalOut(BackwardB(p, r), r.b) = Size(p, r, 0, 1)
<1> DEFINE bA == DefaultBlock(p.n[2], p.pA)
           bB == DefaultBlock(p.n[1], p.pB)
           rootA == [r EXCEPT !.a = 0]
           rootB == [r EXCEPT !.b = 0]
<1>1. /\ p.n[1] \in Nat \ {0} /\ p.n[2] \in Nat \ {0}
      /\ p.pA \in Nat \ {0} /\ p.pB \in Nat \ {0}
  BY DEF WellFormed, Directions
<1>2. LocalRows(p.n[2], bA, 0) = bA /\ LocalRows(p.n[1], bB, 0) = bB
  BY <1>1, RootHoldsBlock
<1>3. rootA.a = 0 /\ rootB.b = 0
  BY DEF Ranks
<1>4. Size(p, rootA, 1, 2) = bA /\ Size(p, rootB, 0, 1) = bB
  BY <1>2, <1>3 DEF Size, SplitOverB
<1>5. /\ Size(p, r, 1, 2) = LocalRows(p.n[2], bA, r.a)
      /\ Size(p, r, 0, 1) = LocalRows(p.n[1], bB, r.b)
  BY DEF Size, SplitOverB
<1> QED BY <1>4, <1>5 DEF BackwardA, BackwardB, LocalOut

\* A rank's memory holds its pencil in every direction: what a caller allocates
\* by underling_local_memory is enough whatever the grid, the processes, the
\* number of fields and the storage orders.
THEOREM PencilFits ==
  ASSUME NEW p \in WellFormed, NEW r \in Ranks(p), NEW i \in Directions
  PROVE  Extent(p, r, i) <= LocalMemory(p, r)
<1> DEFINE A == BackwardA(p, r)
           B == BackwardB(p, r)
           h == p.howmany
           e(d) == Size(p, r, i, d)
<1>1. r.a \in Nat /\ r.b \in Nat
  BY DEF Ranks
<1>2. /\ h * LocalIn(A, r.a) * A.d1 <= LocalSize(A, r.a)
      /\ h * LocalOut(A, r.a) * A.d0 <= LocalSize(A, r.a)
      /\ LocalSize(A, r.a) \in Nat
  <2>1. A.howmany = h
    BY DEF BackwardA
  <2> QED BY <1>1, <2>1, BackwardType, LocalSizeBounds
<1>3. /\ h * LocalOut(B, r.b) * B.d0 <= LocalSize(B, r.b)
      /\ LocalSize(B, r.b) \in Nat
  <2>1. B.howmany = h
    BY DEF BackwardB
  <2> QED BY <1>1, <2>1, BackwardType, LocalSizeBounds
<1>4. \A d \in 0..3 : e(d) \in Nat
  BY SizeType DEF Indices
<1>5. h \in Nat /\ \A d \in 0..2 : p.n[d] \in Nat
  BY DEF WellFormed, Directions
<1>6. Extent(p, r, i) = e(0) * e(1) * e(2) * e(3) /\ e(3) = h
  BY DEF Extent, Size, SplitOverB, Directions
<1> /\ LocalMemory(p, r) \in Nat
    /\ LocalSize(A, r.a) <= LocalMemory(p, r)
    /\ LocalSize(B, r.b) <= LocalMemory(p, r)
    /\ Extent(p, r, i) \in Nat
  BY <1>4, <1>6, LocalMemoryBounds
<1>7. CASE i = 2
  <2>1. e(2) = p.n[2] /\ A.d1 = p.n[2]
    BY <1>7 DEF BackwardA, Size, SplitOverB
  <2>2. LocalIn(A, r.a) = e(0) * e(1)
    BY <1>7, RowsAreLines
  <2>3. Extent(p, r, i) = h * LocalIn(A, r.a) * A.d1
    BY <1>4, <1>5, <1>6, <2>1, <2>2
  <2> QED BY <1>2, <2>3
<1>8. CASE i = 1
  <2>1. e(1) = p.n[1] /\ A.d0 = e(0) * p.n[1]
    BY <1>8 DEF BackwardA, Size, SplitOverB
  <2>2. LocalOut(A, r.a) = e(2)
    BY <1>8, ColumnsAreShares
  <2>3. Extent(p, r, i) = h * LocalOut(A, r.a) * A.d0
    BY <1>4, <1>5, <1>6, <2>1, <2>2
  <2> QED BY <1>2, <2>3
<1>9. CASE i = 0
  <2>1. e(0) = p.n[0] /\ B.d0 = e(2) * p.n[0]
    BY <1>9 DEF BackwardB, Size, SplitOverB
  <2>2. LocalOut(B, r.b) = e(1)
    BY <1>9, ColumnsAreShares
  <2>3. Extent(p, r, i) = h * LocalOut(B, r.b) * B.d0
    BY <1>4, <1>5, <1>6, <2>1, <2>2
  <2> QED BY <1>3, <2>3
<1> QED BY <1>7, <1>8, <1>9 DEF Directions

---------------------------------------------------------------------------
(* Pencils tile the field.                                                 *)

\* The blocks of a direction tile it: every plane belongs to one process and to
\* no other, the short and the empty last shares included.
LEMMA BlocksTile ==
  ASSUME NEW n \in Nat \ {0}, NEW procs \in Nat \ {0}, NEW y \in 0 .. n - 1
  PROVE  LET b == DefaultBlock(n, procs)
             In(k) == y \in k * b .. k * b + LocalRows(n, b, k) - 1
         IN  \E k \in 0 .. procs - 1 :
               In(k) /\ \A l \in 0 .. procs - 1 : In(l) => l = k
<1> DEFINE b == DefaultBlock(n, procs)
           In(k) == y \in k * b .. k * b + LocalRows(n, b, k) - 1
           k == y \div b
<1>1. b \in Nat \ {0}
  BY DefaultBlockBounds
<1>2. n - 1 < procs * b
  BY DEF DefaultBlock
<1> HIDE DEF b
<1>3. k \in Nat /\ b * k <= y /\ y < b * k + b
  BY <1>1
<1> HIDE DEF k
<1>4. k <= procs - 1
  <2>1. SUFFICES ASSUME k >= procs PROVE FALSE
    BY <1>3
  <2>2. b * k >= b * procs
    BY <1>1, <1>3, <2>1
  <2>3. b * procs = procs * b
    BY <1>1
  <2> QED BY <1>1, <1>2, <1>3, <2>2, <2>3
<1>5. In(k)
  <2>1. k * b = b * k /\ k * b \in Nat
    BY <1>1, <1>3
  <2>2. n - k * b > 0
    BY <1>3, <2>1
  <2>3. CASE n - k * b < b
    <3>1. LocalRows(n, b, k) = n - k * b
      BY <2>1, <2>2, <2>3 DEF LocalRows
    <3>2. k * b + LocalRows(n, b, k) - 1 = n - 1
      BY <2>1, <3>1
    <3> QED BY <1>3, <2>1, <3>2
  <2>4. CASE ~(n - k * b < b)
    <3>1. LocalRows(n, b, k) = b
      BY <2>1, <2>2, <2>4 DEF LocalRows
    <3> QED BY <1>1, <1>3, <2>1, <3>1
  <2> QED BY <2>3, <2>4
<1>6. ASSUME NEW l \in 0 .. procs - 1, In(l) PROVE l = k
  <2>1. LocalRows(n, b, l) \in Nat /\ LocalRows(n, b, l) <= b
    BY <1>1, LocalRowsType
  <2>2. l * b = b * l /\ b * l \in Nat
    BY <1>1
  <2>3. b * l <= y /\ y < b * l + b
    BY <1>1, <1>6, <2>1, <2>2
  <2>4. ~(l < k)
    <3>1. SUFFICES ASSUME l + 1 <= k PROVE FALSE
      BY <1>3
    <3>2. b * (l + 1) <= b * k
      BY <1>1, <1>3, <3>1
    <3>3. b * (l + 1) = b * l + b
      BY <1>1
    <3> QED BY <1>1, <1>3, <2>2, <2>3, <3>2, <3>3
  <2>5. ~(k < l)
    <3>1. SUFFICES ASSUME k + 1 <= l PROVE FALSE
      BY <1>3
    <3>2. b * (k + 1) <= b * l
      BY <1>1, <1>3, <3>1
    <3>3. b * (k + 1) = b * k + b
      BY <1>1, <1>3
    <3> QED BY <1>1, <1>3, <2>2, <2>3, <3>2, <3>3
  <2> QED BY <1>3, <2>4, <2>5
<1> QED BY <1>3, <1>4, <1>5, <1>6 DEF b

\* An element lies within the field.
LEMMA ElementBounds ==
  ASSUME NEW p \in WellFormed, NEW x \in Elements(p)
  PROVE  /\ \A d \in Directions : x[d] \in 0 .. p.n[d] - 1
         /\ x[3] \in 0 .. p.howmany - 1
<1>1. \A d \in Indices : Total(p, d) \in Nat
  BY DEF Indices, Directions, WellFormed, Total
<1>2. UNION {0 .. Total(p, d) - 1 : d \in Indices} \subseteq Nat
  BY <1>1
<1>3. x \in [Indices -> Nat]
  BY <1>2 DEF Elements
<1>4. \A d \in Indices : x[d] \in 0 .. Total(p, d) - 1
  BY <1>1, <1>3 DEF Elements
<1>5. \A d \in Directions : d \in Indices /\ Total(p, d) = p.n[d]
  BY DEF Directions, Indices, Total
<1>6. 3 \in Indices /\ Total(p, 3) = p.howmany
  BY DEF Indices, Total
<1> QED BY <1>4, <1>5, <1>6

\* In each direction an element of the field is in exactly one rank's pencil:
\* for every problem, grid and element, uneven and empty shares included.
THEOREM PencilsTile ==
  ASSUME NEW p \in WellFormed, NEW i \in Directions, NEW x \in Elements(p)
  PROVE  \E r \in Ranks(p) :
           Holds(p, r, i, x) /\ \A q \in Ranks(p) : Holds(p, q, i, x) => q = r
<1> DEFINE lo == IF i = 0 THEN 1 ELSE 0
           hi == IF i = 2 THEN 1 ELSE 2
           bB == DefaultBlock(p.n[lo], p.pB)
           bA == DefaultBlock(p.n[hi], p.pA)
           InB(k) == x[lo] \in k * bB .. k * bB + LocalRows(p.n[lo], bB, k) - 1
           InA(k) == x[hi] \in k * bA .. k * bA + LocalRows(p.n[hi], bA, k) - 1
<1>1. i \in {0, 1, 2}
  BY DEF Directions
<1>2. /\ p.n[lo] \in Nat \ {0} /\ p.n[hi] \in Nat \ {0} /\ p.n[i] \in Nat
      /\ p.pA \in Nat \ {0} /\ p.pB \in Nat \ {0} /\ p.howmany \in Nat
  BY <1>1 DEF WellFormed, Directions
<1>3. /\ x[lo] \in 0 .. p.n[lo] - 1 /\ x[hi] \in 0 .. p.n[hi] - 1
      /\ x[i] \in 0 .. p.n[i] - 1 /\ x[3] \in 0 .. p.howmany - 1
  BY <1>1, ElementBounds DEF Directions
<1>4. ASSUME NEW r \in Ranks(p) PROVE Holds(p, r, i, x) <=> InA(r.a) /\ InB(r.b)
  <2>1. /\ Start(p, r, i, 3) = 0 /\ Size(p, r, i, 3) = p.howmany
        /\ Start(p, r, i, i) = 0 /\ Size(p, r, i, i) = p.n[i]
    <3>1. i # 3 /\ ~SplitOverB(i, 3) /\ ~SplitOverB(i, i)
      BY <1>1 DEF SplitOverB
    <3>2. Start(p, r, i, 3) = 0 /\ Size(p, r, i, 3) = p.howmany
      BY <3>1, Zenon DEF Start, Size
    <3>3. Start(p, r, i, i) = 0 /\ Size(p, r, i, i) = p.n[i]
      BY <3>1, Zenon DEF Start, Size
    <3> QED BY <3>2, <3>3
  <2>2. Start(p, r, i, lo) = r.b * bB /\ Size(p, r, i, lo) = LocalRows(p.n[lo], bB, r.b)
    BY <1>1 DEF Start, Size, SplitOverB
  <2>3. Start(p, r, i, hi) = r.a * bA /\ Size(p, r, i, hi) = LocalRows(p.n[hi], bA, r.a)
    BY <1>1 DEF Start, Size, SplitOverB
  <2>4. /\ x[3] \in Start(p, r, i, 3) .. Start(p, r, i, 3) + Size(p, r, i, 3) - 1
        /\ x[i] \in Start(p, r, i, i) .. Start(p, r, i, i) + Size(p, r, i, i) - 1
    BY <1>2, <1>3, <2>1
  <2>5. Indices = {lo, hi, i, 3}
    BY <1>1 DEF Indices
  <2> HIDE DEF lo, hi, bA, bB
  <2> QED BY <2>2, <2>3, <2>4, <2>5 DEF Holds
<1> HIDE DEF lo, hi, InA, InB
<1>5. PICK kA \in 0 .. p.pA - 1 : InA(kA) /\ \A l \in 0 .. p.pA - 1 : InA(l) => l = kA
  BY <1>2, <1>3, BlocksTile DEF InA
<1>6. PICK kB \in 0 .. p.pB - 1 : InB(kB) /\ \A l \in 0 .. p.pB - 1 : InB(l) => l = kB
  BY <1>2, <1>3, BlocksTile DEF InB
<1> DEFINE r == [a |-> kA, b |-> kB]
<1>7. r \in Ranks(p) /\ Holds(p, r, i, x)
  BY <1>4, <1>5, <1>6 DEF Ranks
<1>8. ASSUME NEW q \in Ranks(p), Holds(p, q, i, x) PROVE q = r
  <2>1. q.a = kA /\ q.b = kB
    BY <1>4, <1>5, <1>6, <1>8 DEF Ranks
  <2> QED BY <2>1 DEF Ranks
<1> QED BY <1>7, <1>8

=============================================================================
