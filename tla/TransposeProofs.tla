-------------------------- MODULE TransposeProofs --------------------------
(***************************************************************************)
(* Where a transpose takes its data from, for every problem: each address  *)
(* of a rank's pencil is filled from one address of one peer's pencil, and *)
(* the transpose that goes back takes it from there again.                 *)
(*                                                                         *)
(* An address is an interleaved field and a cell of the rank's share of    *)
(* the matrix; a cell is a row and a column in the order that tin or tout  *)
(* settles.  Rows are dealt in blocks before, columns in blocks after.     *)
(***************************************************************************)
EXTENDS PencilsProofs

---------------------------------------------------------------------------
(* Division with remainder.                                                *)

\* Quotient and remainder make up the number.
LEMMA Divides ==
  ASSUME NEW x \in Nat, NEW n \in Nat \ {0}
  PROVE  /\ x \div n \in Nat /\ x % n \in Nat /\ x % n < n
         /\ x = (x \div n) * n + (x % n)
<1> DEFINE q == x \div n
<1>1. q \in Int /\ n * q <= x /\ x < n * q + n
  OBVIOUS
<1>2. x % n \in Int /\ 0 <= x % n /\ x % n < n
  OBVIOUS
<1>3. x = n * q + (x % n)
  OBVIOUS
<1> HIDE DEF q
<1>4. q >= 0
  <2>1. SUFFICES ASSUME q <= -1 PROVE FALSE
    BY <1>1
  <2>2. n * q <= n * (-1)
    BY <1>1, <2>1
  <2> QED BY <1>1, <2>2
<1>5. n * q = q * n
  BY <1>1
<1> QED BY <1>1, <1>2, <1>3, <1>4, <1>5 DEF q

\* They are the only ones that do.
LEMMA DivMod ==
  ASSUME NEW a \in Nat, NEW b \in Nat, NEW n \in Nat \ {0}, b < n
  PROVE  (a * n + b) \div n = a /\ (a * n + b) % n = b
<1> DEFINE x == a * n + b
           q == x \div n
           m == x % n
<1>1. x \in Nat /\ a * n \in Nat
  OBVIOUS
<1> HIDE DEF x
<1>2. q \in Nat /\ m \in Nat /\ m < n /\ x = q * n + m
  BY <1>1, Divides
<1> HIDE DEF q, m
<1>3. ~(q < a)
  <2>1. SUFFICES ASSUME q + 1 <= a PROVE FALSE
    BY <1>2
  <2>2. (q + 1) * n <= a * n /\ (q + 1) * n = q * n + n /\ q * n \in Nat
    BY <1>2, <2>1
  <2> QED BY <1>1, <1>2, <2>2 DEF x
<1>4. ~(a < q)
  <2>1. SUFFICES ASSUME a + 1 <= q PROVE FALSE
    BY <1>2
  <2>2. (a + 1) * n <= q * n /\ (a + 1) * n = a * n + n /\ q * n \in Nat
    BY <1>2, <2>1
  <2> QED BY <1>1, <1>2, <2>2 DEF x
<1>5. q = a
  BY <1>2, <1>3, <1>4
<1>6. m = b
  BY <1>1, <1>2, <1>5 DEF x
<1> QED BY <1>5, <1>6 DEF q, m, x

\* A number below rows * n is a row and a place in a row of n.
LEMMA CellHasPlace ==
  ASSUME NEW rows \in Nat, NEW n \in Nat, NEW x \in 0 .. rows * n - 1
  PROVE  /\ n > 0 /\ rows > 0
         /\ x \div n \in 0 .. rows - 1 /\ x % n \in 0 .. n - 1
         /\ x = (x \div n) * n + (x % n)
<1>1. rows * n \in Nat /\ x \in Nat /\ x < rows * n
  OBVIOUS
<1>2. n # 0 /\ rows # 0
  <2>1. n = 0 => rows * n = 0
    OBVIOUS
  <2>2. rows = 0 => rows * n = 0
    OBVIOUS
  <2> QED BY <1>1, <2>1, <2>2
<1> DEFINE q == x \div n
           m == x % n
<1>3. q \in Nat /\ m \in Nat /\ m < n /\ x = q * n + m
  BY <1>1, <1>2, Divides
<1> HIDE DEF q, m
<1>4. q < rows
  <2>1. SUFFICES ASSUME rows <= q PROVE FALSE
    BY <1>3
  <2>2. rows * n <= q * n /\ q * n \in Nat
    BY <1>3, <2>1
  <2> QED BY <1>1, <1>3, <2>2
<1> QED BY <1>2, <1>3, <1>4 DEF q, m

\* And the other way round.
LEMMA PlaceHasCell ==
  ASSUME NEW rows \in Nat, NEW n \in Nat, NEW row \in 0 .. rows - 1, NEW i \in 0 .. n - 1
  PROVE  /\ row * n + i \in 0 .. rows * n - 1
         /\ (row * n + i) \div n = row /\ (row * n + i) % n = i
<1>1. row * n \in Nat /\ rows * n \in Nat
  OBVIOUS
<1>2. (row + 1) * n <= rows * n /\ (row + 1) * n = row * n + n
  OBVIOUS
<1>3. row * n + i \in 0 .. rows * n - 1
  BY <1>1, <1>2
<1>4. (row * n + i) \div n = row /\ (row * n + i) % n = i
  BY DivMod
<1> QED BY <1>3, <1>4

---------------------------------------------------------------------------
(* Blocks.                                                                 *)

\* A row is a line of the share of the process that it is dealt to.
LEMMA RowHasOwner ==
  ASSUME NEW n \in Nat, NEW b \in Nat \ {0}, NEW procs \in Nat, n <= procs * b,
         NEW row \in 0 .. n - 1
  PROVE  /\ row \div b \in 0 .. procs - 1
         /\ row - (row \div b) * b \in 0 .. LocalRows(n, b, row \div b) - 1
<1> DEFINE k == row \div b
           line == row - k * b
<1>1. row \in 0 .. procs * b - 1
  <2>1. procs * b \in Nat
    OBVIOUS
  <2> QED BY <2>1
<1>2. k \in 0 .. procs - 1 /\ row % b \in 0 .. b - 1 /\ row = k * b + (row % b)
  BY <1>1, CellHasPlace
<1> HIDE DEF k
<1>3. k * b \in Nat
  BY <1>2
<1>4. line \in Nat /\ line < b /\ line < n - k * b
  BY <1>2, <1>3
<1>5. line < LocalRows(n, b, k)
  BY <1>3, <1>4 DEF LocalRows
<1>6. LocalRows(n, b, k) \in Nat
  <2>1. k \in Nat /\ b \in Nat
    BY <1>2
  <2> QED BY <2>1, LocalRowsType
<1> QED BY <1>2, <1>4, <1>5, <1>6 DEF k

\* And a line of a process's share is a row dealt to it.
LEMMA LineHasRow ==
  ASSUME NEW n \in Nat, NEW b \in Nat, NEW k \in Nat,
         NEW line \in 0 .. LocalRows(n, b, k) - 1
  PROVE  /\ k * b + line \in 0 .. n - 1
         /\ (k * b + line) \div b = k
         /\ b > 0
<1>1. k * b \in Nat
  OBVIOUS
<1>2. LocalRows(n, b, k) \in Nat /\ LocalRows(n, b, k) <= b
  BY LocalRowsType
<1>3. line \in Nat /\ line < b /\ b > 0
  BY <1>2
<1>4. line < n - k * b
  BY <1>1, <1>2 DEF LocalRows
<1>5. (k * b + line) \div b = k
  BY <1>3, DivMod
<1> QED BY <1>1, <1>3, <1>4, <1>5

---------------------------------------------------------------------------
(* A transpose and the one that undoes it.                                 *)

\* What planning hands FFTW: blocks that leave no row and no column undealt.
Dealt(t, procs) ==
  /\ t.howmany \in Nat /\ t.d0 \in Nat /\ t.d1 \in Nat
  /\ t.block0 \in Nat /\ t.block1 \in Nat
  /\ t.d0 <= procs * t.block0 /\ t.d1 <= procs * t.block1

\* An address of the output is a field of a cell, and the cell a row of the
\* matrix and one of the columns that process k is left with.
LEMMA OutputPlace ==
  ASSUME NEW procs \in Nat, NEW t, Dealt(t, procs), NEW k \in Nat,
         NEW addr \in 0 .. t.howmany * LocalOut(t, k) * t.d0 - 1
  PROVE  LET out  == LocalOut(t, k)
             cell == addr \div t.howmany
             row  == IF t.tout THEN cell \div out ELSE cell % t.d0
             i    == IF t.tout THEN cell % out ELSE cell \div t.d0
         IN  /\ t.howmany > 0 /\ addr % t.howmany \in 0 .. t.howmany - 1
             /\ row \in 0 .. t.d0 - 1 /\ i \in 0 .. out - 1
             /\ cell = IF t.tout THEN row * out + i ELSE i * t.d0 + row
             /\ addr = (addr % t.howmany) + t.howmany * cell
<1> DEFINE h    == t.howmany
           d0   == t.d0
           out  == LocalOut(t, k)
           cell == addr \div h
<1>1. h \in Nat /\ d0 \in Nat /\ out \in Nat
  BY LocalRowsType DEF Dealt, LocalOut
<1>2. addr \in 0 .. (out * d0) * h - 1
  <2> HIDE DEF h, d0, out
  <2>1. h * out * d0 = (out * d0) * h
    BY <1>1
  <2> QED BY <2>1 DEF h, d0, out
<1> HIDE DEF h, d0, out
<1>3. /\ h > 0 /\ cell \in 0 .. out * d0 - 1 /\ addr % h \in 0 .. h - 1
      /\ addr = cell * h + (addr % h)
  <2>1. out * d0 \in Nat
    BY <1>1
  <2> QED BY <1>1, <1>2, <2>1, CellHasPlace
<1> HIDE DEF cell
<1>4. addr = (addr % h) + h * cell
  <2>1. cell * h = h * cell /\ cell * h \in Int
    BY <1>1, <1>3
  <2> QED BY <1>3, <2>1
<1>5. /\ cell \div d0 \in 0 .. out - 1 /\ cell % d0 \in 0 .. d0 - 1
      /\ cell = (cell \div d0) * d0 + (cell % d0)
  BY <1>1, <1>3, CellHasPlace
<1>6. /\ cell \div out \in 0 .. d0 - 1 /\ cell % out \in 0 .. out - 1
      /\ cell = (cell \div out) * out + (cell % out)
  <2>1. out * d0 = d0 * out
    BY <1>1
  <2>2. cell \in 0 .. d0 * out - 1
    BY <1>3, <2>1
  <2> QED BY <1>1, <2>2, CellHasPlace
<1>7. CASE t.tout
  BY <1>3, <1>4, <1>6, <1>7 DEF h, d0, out, cell
<1>8. CASE ~t.tout
  BY <1>3, <1>4, <1>5, <1>8 DEF h, d0, out, cell
<1> QED BY <1>7, <1>8

\* A transpose fills each address from an address of a process's input, and the
\* inverse one fills that address from this one.
LEMMA SourceGoesBack ==
  ASSUME NEW procs \in Nat, NEW t, Dealt(t, procs),
         NEW k \in Nat,
         NEW addr \in 0 .. t.howmany * LocalOut(t, k) * t.d0 - 1
  PROVE  LET s == Source(t, k, addr)
         IN  /\ s.rank \in 0 .. procs - 1
             /\ s.addr \in 0 .. t.howmany * LocalIn(t, s.rank) * t.d1 - 1
             /\ Source(InverseTranspose(t), s.rank, s.addr) = [rank |-> k, addr |-> addr]
<1> DEFINE h    == t.howmany
           d0   == t.d0
           d1   == t.d1
           b0   == t.block0
           b1   == t.block1
           out  == LocalOut(t, k)
           cell == addr \div h
           f    == addr % h
           row  == IF t.tout THEN cell \div out ELSE cell % d0
           i    == IF t.tout THEN cell % out ELSE cell \div d0
           col  == k * b1 + i
           from == row \div b0
           line == row - from * b0
           in   == LocalIn(t, from)
           sent == IF t.tin THEN col * in + line ELSE line * d1 + col
           s    == Source(t, k, addr)
<1>1. /\ h \in Nat /\ d0 \in Nat /\ d1 \in Nat /\ b0 \in Nat /\ b1 \in Nat
      /\ d0 <= procs * b0 /\ d1 <= procs * b1
  BY DEF Dealt
<1>2. /\ h > 0 /\ f \in 0 .. h - 1 /\ row \in 0 .. d0 - 1 /\ i \in 0 .. out - 1
      /\ cell = IF t.tout THEN row * out + i ELSE i * d0 + row
      /\ addr = f + h * cell
  BY OutputPlace
<1>3. s = [rank |-> from, addr |-> f + h * sent]
  BY DEF Source
<1>4. LocalIn(t, from) = LocalRows(d0, b0, from) /\ out = LocalRows(d1, b1, k)
  BY DEF LocalIn, LocalOut
<1> HIDE DEF row, i, cell, f, out, in, s
<1>5. b0 > 0
  <2>1. SUFFICES ASSUME b0 = 0 PROVE FALSE
    BY <1>1
  <2>2. procs * b0 = 0
    BY <2>1
  <2> QED BY <1>1, <1>2, <2>2
<1>6. from \in 0 .. procs - 1 /\ line \in 0 .. in - 1
  <2> HIDE DEF d0, b0, from, line, in
  <2>1. /\ d0 \in Nat /\ b0 \in Nat \ {0} /\ d0 <= procs * b0 /\ row \in 0 .. d0 - 1
        /\ in = LocalRows(d0, b0, from)
    BY <1>1, <1>2, <1>4, <1>5 DEF in
  <2>2. /\ row \div b0 \in 0 .. procs - 1
        /\ row - (row \div b0) * b0 \in 0 .. LocalRows(d0, b0, row \div b0) - 1
    BY <2>1, RowHasOwner
  <2> QED BY <2>1, <2>2 DEF from, line
<1>7. col \in 0 .. d1 - 1 /\ col \div b1 = k
  <2> HIDE DEF d1, b1
  <2>1. i \in 0 .. LocalRows(d1, b1, k) - 1
    BY <1>2, <1>4
  <2> QED BY <1>1, <2>1, LineHasRow
<1>8. from * b0 + line = row /\ col - k * b1 = i
  <2>1. from * b0 \in Int /\ k * b1 \in Int /\ row \in Int /\ i \in Int
    BY <1>1, <1>2, <1>6
  <2> QED BY <2>1
<1>9. in \in Nat /\ from \in Nat
  <2> HIDE DEF from, d0, b0
  <2>1. from \in Nat /\ in = LocalRows(d0, b0, from)
    BY <1>4, <1>6 DEF in
  <2> QED BY <1>1, <2>1, LocalRowsType
<1> HIDE DEF col, line, from, h, d0, d1, b0, b1
<1>10. /\ sent \in 0 .. in * d1 - 1
       /\ (IF t.tin THEN sent \div in ELSE sent % d1) = col
       /\ (IF t.tin THEN sent % in ELSE sent \div d1) = line
  <2>1. CASE t.tin
    <3>1. /\ col * in + line \in 0 .. d1 * in - 1
          /\ (col * in + line) \div in = col /\ (col * in + line) % in = line
      BY <1>1, <1>6, <1>7, <1>9, PlaceHasCell
    <3>2. d1 * in = in * d1
      BY <1>1, <1>9
    <3> QED BY <2>1, <3>1, <3>2
  <2>2. CASE ~t.tin
    <3>1. /\ line * d1 + col \in 0 .. in * d1 - 1
          /\ (line * d1 + col) \div d1 = line /\ (line * d1 + col) % d1 = col
      BY <1>1, <1>6, <1>7, <1>9, PlaceHasCell
    <3> QED BY <2>2, <3>1
  <2> QED BY <2>1, <2>2
<1> HIDE DEF sent
<1>11. /\ f + h * sent \in 0 .. h * in * d1 - 1
       /\ (f + h * sent) \div h = sent /\ (f + h * sent) % h = f
  <2>1. in * d1 \in Nat /\ sent * h = h * sent /\ sent * h \in Int
    BY <1>1, <1>9, <1>10
  <2> DEFINE cells == in * d1
  <2> HIDE DEF cells
  <2>2. cells \in Nat /\ h \in Nat /\ sent \in 0 .. cells - 1 /\ f \in 0 .. h - 1
    BY <1>1, <1>2, <1>10, <2>1 DEF cells
  <2>4. /\ sent * h + f \in 0 .. cells * h - 1
        /\ (sent * h + f) \div h = sent /\ (sent * h + f) % h = f
    BY <2>2, PlaceHasCell
  <2>3. f + h * sent = sent * h + f /\ (in * d1) * h = h * in * d1
    BY <1>1, <1>2, <1>9, <2>1
  <2> QED BY <2>3, <2>4 DEF cells
<1>12. Source(InverseTranspose(t), from, f + h * sent) = [rank |-> k, addr |-> addr]
  <2> DEFINE u == InverseTranspose(t)
  <2>1. /\ u.d0 = d1 /\ u.d1 = d0 /\ u.block0 = b1 /\ u.block1 = b0
        /\ u.howmany = h /\ u.tin = t.tout /\ u.tout = t.tin
    BY DEF InverseTranspose, d0, d1, b0, b1, h
  <2> HIDE DEF u
  <2>2. LocalOut(u, from) = in /\ LocalIn(u, k) = out
    BY <1>4, <2>1 DEF LocalIn, LocalOut, in, d0, b0, d1, b1
  <2> DEFINE a     == f + h * sent
             uRow  == IF u.tout THEN (a \div h) \div in ELSE (a \div h) % d1
             uCol  == from * b0 + (IF u.tout THEN (a \div h) % in ELSE (a \div h) \div d1)
             uLine == uRow - (uRow \div b1) * b1
  <2>3. uRow = col /\ uCol = row /\ uRow \div b1 = k
    BY <1>7, <1>8, <1>10, <1>11, <2>1
  <2>4. uLine = i
    BY <1>8, <2>3
  <2>5. Source(u, from, a)
          = [rank |-> uRow \div b1,
             addr |-> (a % h) + h * (IF u.tin THEN uCol * LocalIn(u, uRow \div b1) + uLine
                                              ELSE uLine * d0 + uCol)]
    BY <2>1, <2>2 DEF Source
  <2>6. cell = IF u.tin THEN uCol * LocalIn(u, uRow \div b1) + uLine ELSE uLine * d0 + uCol
    BY <1>2, <2>1, <2>2, <2>3, <2>4
  <2> HIDE DEF a, uRow, uCol, uLine
  <2>7. a % h = f
    BY <1>11 DEF a
  <2> QED BY <1>2, <2>3, <2>5, <2>6, <2>7 DEF u, a
<1> QED BY <1>3, <1>6, <1>11, <1>12 DEF s, in, h, d1

---------------------------------------------------------------------------
(* The four transposes of a problem.                                       *)

Back(w) == <<w[2], w[1]>>

\* How many ranks take part in a transpose.
Procs(p, w) == IF OverA(w) THEN p.pA ELSE p.pB

\* Ways, one by one.
LEMMA WayCases ==
  ASSUME NEW w \in Ways
  PROVE  \/ w = <<2, 1>> /\ OverA(w)  /\ Back(w) = <<1, 2>> /\ w[1] = 2 /\ w[2] = 1
         \/ w = <<1, 0>> /\ ~OverA(w) /\ Back(w) = <<0, 1>> /\ w[1] = 1 /\ w[2] = 0
         \/ w = <<0, 1>> /\ ~OverA(w) /\ Back(w) = <<1, 0>> /\ w[1] = 0 /\ w[2] = 1
         \/ w = <<1, 2>> /\ OverA(w)  /\ Back(w) = <<2, 1>> /\ w[1] = 1 /\ w[2] = 2
<1>1. CASE w = <<2, 1>>
  BY <1>1 DEF OverA, Back
<1>2. CASE w = <<1, 0>>
  BY <1>2 DEF OverA, Back
<1>3. CASE w = <<0, 1>>
  BY <1>3 DEF OverA, Back
<1>4. CASE w = <<1, 2>>
  BY <1>4 DEF OverA, Back
<1> QED BY <1>1, <1>2, <1>3, <1>4 DEF Ways

\* Which transpose each way uses.
LEMMA WayTransposes ==
  ASSUME NEW p, NEW r
  PROVE  /\ TransposeOf(p, r, <<2, 1>>) = BackwardA(p, r)
         /\ TransposeOf(p, r, <<1, 0>>) = BackwardB(p, r)
         /\ TransposeOf(p, r, <<0, 1>>) = InverseTranspose(BackwardB(p, r))
         /\ TransposeOf(p, r, <<1, 2>>) = InverseTranspose(BackwardA(p, r))
BY DEF TransposeOf

\* A rank and its peers.
LEMMA GroupFacts ==
  ASSUME NEW p, NEW w \in Ways, NEW r \in Ranks(p), NEW q \in Ranks(p)
  PROVE  /\ q \in Group(p, w, r) <=> r \in Group(p, w, q)
         /\ Group(p, Back(w), r) = Group(p, w, r)
         /\ q \in Group(p, w, r) <=> IF OverA(w) THEN q.b = r.b ELSE q.a = r.a
<1>1. \A s, t \in Ranks(p) : t \in Group(p, w, s) <=> IF OverA(w) THEN t.b = s.b ELSE t.a = s.a
  BY DEF Group, Peer, RankIn, Ranks
<1>2. OverA(Back(w)) <=> OverA(w)
  BY DEF Ways, Back, OverA
<1>3. Group(p, Back(w), r) = Group(p, w, r)
  BY <1>2 DEF Group, Peer, RankIn
<1> QED BY <1>1, <1>3

\* The k-th of a rank's peers is a peer, with the number k.
LEMMA PeerFacts ==
  ASSUME NEW p \in WellFormed, NEW w \in Ways, NEW r \in Ranks(p)
  PROVE  /\ RankIn(w, r) \in 0 .. Procs(p, w) - 1 /\ Procs(p, w) \in Nat \ {0}
         /\ RankIn(Back(w), r) = RankIn(w, r) /\ Procs(p, Back(w)) = Procs(p, w)
         /\ Peer(w, r, RankIn(w, r)) = r
         /\ \A k \in 0 .. Procs(p, w) - 1 :
              /\ Peer(w, r, k) \in Group(p, w, r) /\ Peer(w, r, k) \in Ranks(p)
              /\ RankIn(w, Peer(w, r, k)) = k
              /\ Peer(Back(w), Peer(w, r, k), RankIn(w, r)) = r
<1>1. OverA(Back(w)) <=> OverA(w)
  BY DEF Ways, Back, OverA
<1>2. p.pA \in Nat \ {0} /\ p.pB \in Nat \ {0}
  BY DEF WellFormed
<1>3. r.a \in 0 .. p.pA - 1 /\ r.b \in 0 .. p.pB - 1 /\ r = [a |-> r.a, b |-> r.b]
  BY DEF Ranks
<1>4. CASE OverA(w)
  BY <1>1, <1>2, <1>3, <1>4 DEF RankIn, Procs, Peer, Group, Ranks
<1>5. CASE ~OverA(w)
  BY <1>1, <1>2, <1>3, <1>5 DEF RankIn, Procs, Peer, Group, Ranks
<1> QED BY <1>4, <1>5

\* The transpose back is the inverse one.
LEMMA BackTranspose ==
  ASSUME NEW p, NEW r, NEW w \in Ways
  PROVE  TransposeOf(p, r, Back(w)) = InverseTranspose(TransposeOf(p, r, w))
<1>1. /\ InverseTranspose(InverseTranspose(BackwardA(p, r))) = BackwardA(p, r)
      /\ InverseTranspose(InverseTranspose(BackwardB(p, r))) = BackwardB(p, r)
  BY DEF InverseTranspose, BackwardA, BackwardB
<1> QED BY <1>1, WayCases, WayTransposes

\* Peers agree on the transpose.
LEMMA PeersAgree ==
  ASSUME NEW p, NEW w \in Ways, NEW r \in Ranks(p), NEW q \in Group(p, w, r)
  PROVE  TransposeOf(p, q, w) = TransposeOf(p, r, w)
<1>1. q \in Ranks(p)
  BY DEF Group
<1>2. IF OverA(w) THEN q.b = r.b ELSE q.a = r.a
  BY <1>1, GroupFacts
<1>3. /\ r = [a |-> r.a, b |-> r.b] /\ q = [a |-> q.a, b |-> q.b]
  BY <1>1 DEF Ranks
<1>4. ASSUME q.b = r.b PROVE BackwardA(p, q) = BackwardA(p, r)
  <2>1. [q EXCEPT !.a = 0] = [r EXCEPT !.a = 0]
    BY <1>3, <1>4
  <2>2. Size(p, q, 2, 0) = Size(p, r, 2, 0)
    BY <1>4 DEF Size, SplitOverB
  <2> QED BY <2>1, <2>2 DEF BackwardA
<1>5. ASSUME q.a = r.a PROVE BackwardB(p, q) = BackwardB(p, r)
  <2>1. [q EXCEPT !.b = 0] = [r EXCEPT !.b = 0]
    BY <1>3, <1>5
  <2>2. Size(p, q, 1, 2) = Size(p, r, 1, 2)
    BY <1>5 DEF Size, SplitOverB
  <2> QED BY <2>1, <2>2 DEF BackwardB
<1> QED BY <1>2, <1>4, <1>5, WayCases, WayTransposes

\* A transpose is trivial for all ranks that take part or for none, and so is
\* the one that undoes it.
LEMMA TrivialTogether ==
  ASSUME NEW p, NEW w \in Ways, NEW r \in Ranks(p), NEW q \in Group(p, w, r)
  PROVE  /\ Trivial(TransposeOf(p, q, w)) <=> Trivial(TransposeOf(p, r, w))
         /\ Trivial(TransposeOf(p, r, Back(w))) <=> Trivial(TransposeOf(p, r, w))
<1>1. TransposeOf(p, q, w) = TransposeOf(p, r, w)
  BY PeersAgree
<1>2. \A t \in {BackwardA(p, r), BackwardB(p, r)} :
        Trivial(InverseTranspose(t)) <=> Trivial(t)
  BY DEF InverseTranspose, BackwardA, BackwardB, Trivial
<1> QED BY <1>1, <1>2, WayCases, WayTransposes

---------------------------------------------------------------------------
(* The matrices of a problem.                                              *)

\* The two transposes that underling_problem_create makes, by the blocks that
\* FFTW deals to pA and pB.
LEMMA BackwardShape ==
  ASSUME NEW p \in WellFormed, NEW r \in Ranks(p)
  PROVE  /\ BackwardA(p, r) =
              [d0      |-> Size(p, r, 2, 0) * p.n[1], d1 |-> p.n[2],
               block0  |-> Size(p, r, 2, 0) * DefaultBlock(p.n[1], p.pA),
               block1  |-> DefaultBlock(p.n[2], p.pA),
               howmany |-> p.howmany, tin |-> p.tn2, tout |-> FALSE]
         /\ BackwardB(p, r) =
              [d0      |-> Size(p, r, 1, 2) * p.n[0], d1 |-> p.n[1],
               block0  |-> Size(p, r, 1, 2) * DefaultBlock(p.n[0], p.pB),
               block1  |-> DefaultBlock(p.n[1], p.pB),
               howmany |-> p.howmany, tin |-> FALSE, tout |-> p.tn0]
<1> DEFINE rootA == [r EXCEPT !.a = 0]
           rootB == [r EXCEPT !.b = 0]
<1>1. /\ p.n[0] \in Nat \ {0} /\ p.n[1] \in Nat \ {0} /\ p.n[2] \in Nat \ {0}
      /\ p.pA \in Nat \ {0} /\ p.pB \in Nat \ {0}
  BY DEF WellFormed, Directions
<1>2. /\ \A d \in {1, 2} : LocalRows(p.n[d], DefaultBlock(p.n[d], p.pA), 0)
                             = DefaultBlock(p.n[d], p.pA)
      /\ \A d \in {0, 1} : LocalRows(p.n[d], DefaultBlock(p.n[d], p.pB), 0)
                             = DefaultBlock(p.n[d], p.pB)
  BY <1>1, RootHoldsBlock
<1>3. rootA.a = 0 /\ rootA.b = r.b /\ rootB.b = 0 /\ rootB.a = r.a
  BY DEF Ranks
<1> HIDE DEF rootA, rootB
<1>4. /\ Size(p, rootA, 2, 0) = Size(p, r, 2, 0)
      /\ Size(p, rootA, 2, 1) = DefaultBlock(p.n[1], p.pA)
      /\ Size(p, rootA, 1, 2) = DefaultBlock(p.n[2], p.pA)
  BY <1>2, <1>3 DEF Size, SplitOverB
<1>5. /\ Size(p, rootB, 1, 2) = Size(p, r, 1, 2)
      /\ Size(p, rootB, 1, 0) = DefaultBlock(p.n[0], p.pB)
      /\ Size(p, rootB, 0, 1) = DefaultBlock(p.n[1], p.pB)
  BY <1>2, <1>3 DEF Size, SplitOverB
<1> QED BY <1>4, <1>5 DEF BackwardA, BackwardB, rootA, rootB

\* A rank's shares of its two matrices.
LEMMA Shares ==
  ASSUME NEW p \in WellFormed, NEW r \in Ranks(p)
  PROVE  /\ LocalIn(BackwardA(p, r), r.a)  = Size(p, r, 2, 0) * Size(p, r, 2, 1)
         /\ LocalOut(BackwardA(p, r), r.a) = Size(p, r, 1, 2)
         /\ LocalIn(BackwardB(p, r), r.b)  = Size(p, r, 1, 2) * Size(p, r, 1, 0)
         /\ LocalOut(BackwardB(p, r), r.b) = Size(p, r, 0, 1)
<1> DEFINE b == DefaultBlock(p.n[0], p.pB)
           s == Size(p, r, 1, 2)
           n == p.n[0]
           k == r.b
<1>1. n \in Nat \ {0} /\ p.pB \in Nat \ {0} /\ k \in Nat
  BY DEF WellFormed, Directions, Ranks
<1>2. b \in Nat /\ s \in Nat
  <2>1. b \in Nat
    BY <1>1, DefaultBlockBounds
  <2>2. s \in Nat
    BY SizeType DEF Directions, Indices
  <2> QED BY <2>1, <2>2
<1>3. Size(p, r, 1, 0) = LocalRows(n, b, k)
  BY DEF Size, SplitOverB
<1>4. LocalIn(BackwardB(p, r), r.b) = LocalRows(s * n, s * b, k)
  BY BackwardShape DEF LocalIn
<1> HIDE DEF b, s, n, k
<1>5. LocalRows(s * n, s * b, k) = s * LocalRows(n, b, k)
  BY <1>1, <1>2, LocalRowsScale
<1> QED BY <1>3, <1>4, <1>5, RowsAreLines, ColumnsAreShares DEF s

\* The matrix before a transpose is the pencil it starts from, and the matrix
\* after it the pencil it leads to.
LEMMA PencilsAreMatrices ==
  ASSUME NEW p \in WellFormed, NEW r \in Ranks(p), NEW w \in Ways,
         NEW t, t = TransposeOf(p, r, w), NEW k, k = RankIn(w, r)
  PROVE  /\ Extent(p, r, w[1]) = t.howmany * LocalIn(t, k) * t.d1
         /\ Extent(p, r, w[2]) = t.howmany * LocalOut(t, k) * t.d0
<1> DEFINE A == BackwardA(p, r)
           B == BackwardB(p, r)
           h == p.howmany
           e(i, d) == Size(p, r, i, d)
<1>1. /\ h \in Nat /\ p.n[0] \in Nat /\ p.n[1] \in Nat /\ p.n[2] \in Nat
  BY DEF WellFormed, Directions
<1>2. \A i \in 0..2 : \A d \in 0..3 : e(i, d) \in Nat
  BY SizeType DEF Directions, Indices
<1>3. /\ e(2, 2) = p.n[2] /\ e(1, 1) = p.n[1] /\ e(0, 0) = p.n[0]
      /\ e(2, 3) = h /\ e(1, 3) = h /\ e(0, 3) = h
      /\ e(1, 0) = e(2, 0) /\ e(0, 2) = e(1, 2)
  BY DEF Size, SplitOverB
<1>4. /\ Extent(p, r, 2) = e(2, 0) * e(2, 1) * p.n[2] * h
      /\ Extent(p, r, 1) = e(2, 0) * p.n[1] * e(1, 2) * h
      /\ Extent(p, r, 0) = p.n[0] * e(0, 1) * e(1, 2) * h
  BY <1>3 DEF Extent
<1>5. /\ A.howmany = h /\ A.d0 = e(2, 0) * p.n[1] /\ A.d1 = p.n[2]
      /\ B.howmany = h /\ B.d0 = e(1, 2) * p.n[0] /\ B.d1 = p.n[1]
  BY DEF BackwardA, BackwardB
<1>6. /\ LocalIn(A, r.a) = e(2, 0) * e(2, 1) /\ LocalOut(A, r.a) = e(1, 2)
      /\ LocalIn(B, r.b) = e(1, 2) * e(2, 0) /\ LocalOut(B, r.b) = e(0, 1)
  BY <1>3, Shares
<1> HIDE DEF A, B, e
<1>7. /\ Extent(p, r, 2) = A.howmany * LocalIn(A, r.a) * A.d1
      /\ Extent(p, r, 1) = A.howmany * LocalOut(A, r.a) * A.d0
      /\ Extent(p, r, 1) = B.howmany * LocalIn(B, r.b) * B.d1
      /\ Extent(p, r, 0) = B.howmany * LocalOut(B, r.b) * B.d0
  <2> DEFINE h_ == p.howmany
             n0 == p.n[0]
             n1 == p.n[1]
             n2 == p.n[2]
             e20 == e(2, 0)
             e21 == e(2, 1)
             e12 == e(1, 2)
             e01 == e(0, 1)
  <2>1. h_ \in Nat /\ n0 \in Nat /\ n1 \in Nat /\ n2 \in Nat
        /\ e20 \in Nat /\ e21 \in Nat /\ e12 \in Nat /\ e01 \in Nat
    BY <1>1, <1>2
  <2> HIDE DEF h_, n0, n1, n2, e20, e21, e12, e01
  <2>2. e20 * e21 * n2 * h_ = h_ * (e20 * e21) * n2
    BY <2>1
  <2>3. e20 * n1 * e12 * h_ = h_ * e12 * (e20 * n1)
    BY <2>1
  <2>4. e20 * n1 * e12 * h_ = h_ * (e12 * e20) * n1
    BY <2>1
  <2>5. n0 * e01 * e12 * h_ = h_ * e01 * (e12 * n0)
    BY <2>1
  <2> QED BY <1>4, <1>5, <1>6, <2>2, <2>3, <2>4, <2>5
          DEF h_, n0, n1, n2, e20, e21, e12, e01
<1>8. \A u, m : LET v == InverseTranspose(u)
                IN  /\ v.howmany = u.howmany /\ v.d0 = u.d1 /\ v.d1 = u.d0
                    /\ LocalIn(v, m) = LocalOut(u, m) /\ LocalOut(v, m) = LocalIn(u, m)
  BY DEF InverseTranspose, LocalIn, LocalOut
<1>9. RankIn(w, r) = IF OverA(w) THEN r.a ELSE r.b
  BY DEF RankIn
<1>10. CASE w = <<2, 1>>
  BY <1>7, <1>9, <1>10, WayCases, WayTransposes DEF A
<1>11. CASE w = <<1, 0>>
  BY <1>7, <1>9, <1>11, WayCases, WayTransposes DEF B
<1>12. CASE w = <<0, 1>>
  BY <1>7, <1>8, <1>9, <1>12, WayCases, WayTransposes DEF B
<1>13. CASE w = <<1, 2>>
  BY <1>7, <1>8, <1>9, <1>13, WayCases, WayTransposes DEF A
<1> QED BY <1>10, <1>11, <1>12, <1>13 DEF Ways

\* Default blocks leave nothing undealt, times the planes of a pencil.
LEMMA BlocksCover ==
  ASSUME NEW s \in Nat, NEW n \in Nat \ {0}, NEW procs \in Nat \ {0}
  PROVE  /\ n <= procs * DefaultBlock(n, procs)
         /\ s * n <= procs * (s * DefaultBlock(n, procs))
<1> DEFINE b == DefaultBlock(n, procs)
<1>1. b \in Nat /\ n <= procs * b
  BY DefaultBlockBounds DEF DefaultBlock
<1> HIDE DEF b
<1>2. s * n <= s * (procs * b)
  BY <1>1
<1>3. s * (procs * b) = procs * (s * b)
  BY <1>1
<1> QED BY <1>1, <1>2, <1>3 DEF b

\* The transposes of a problem leave no row and no column undealt.
LEMMA TransposesDealt ==
  ASSUME NEW p \in WellFormed, NEW r \in Ranks(p), NEW w \in Ways
  PROVE  Dealt(TransposeOf(p, r, w), Procs(p, w))
<1> DEFINE A == BackwardA(p, r)
           B == BackwardB(p, r)
<1>1. /\ p.n[0] \in Nat \ {0} /\ p.n[1] \in Nat \ {0} /\ p.n[2] \in Nat \ {0}
      /\ p.pA \in Nat \ {0} /\ p.pB \in Nat \ {0}
  BY DEF WellFormed, Directions
<1>2. Size(p, r, 2, 0) \in Nat /\ Size(p, r, 1, 2) \in Nat
  BY SizeType DEF Directions, Indices
<1>3. \A t \in {A, B} :
        /\ t.howmany \in Nat /\ t.d0 \in Nat /\ t.d1 \in Nat
        /\ t.block0 \in Nat /\ t.block1 \in Nat
  BY BackwardType
<1>4. A.d0 <= p.pA * A.block0 /\ A.d1 <= p.pA * A.block1
  <2>1. /\ A.d0 = Size(p, r, 2, 0) * p.n[1] /\ A.d1 = p.n[2]
        /\ A.block0 = Size(p, r, 2, 0) * DefaultBlock(p.n[1], p.pA)
        /\ A.block1 = DefaultBlock(p.n[2], p.pA)
    BY BackwardShape
  <2> HIDE DEF A
  <2> QED BY <1>1, <1>2, <2>1, BlocksCover
<1>5. B.d0 <= p.pB * B.block0 /\ B.d1 <= p.pB * B.block1
  <2>1. /\ B.d0 = Size(p, r, 1, 2) * p.n[0] /\ B.d1 = p.n[1]
        /\ B.block0 = Size(p, r, 1, 2) * DefaultBlock(p.n[0], p.pB)
        /\ B.block1 = DefaultBlock(p.n[1], p.pB)
    BY BackwardShape
  <2> HIDE DEF B
  <2> QED BY <1>1, <1>2, <2>1, BlocksCover
<1> HIDE DEF A, B
<1>6. /\ Dealt(A, p.pA) /\ Dealt(InverseTranspose(A), p.pA)
      /\ Dealt(B, p.pB) /\ Dealt(InverseTranspose(B), p.pB)
  BY <1>3, <1>4, <1>5 DEF Dealt, InverseTranspose
<1> QED BY <1>6, WayCases, WayTransposes DEF Procs, A, B

\* A transpose fills every address of a rank's pencil from an address of a
\* peer's pencil, which the transpose back fills from this one: no value is
\* stored twice and none is forgotten.
THEOREM PullsGoBack ==
  ASSUME NEW p \in WellFormed, NEW w \in Ways, NEW r \in Ranks(p),
         NEW addr \in Pencil(p, r, w[2])
  PROVE  LET x == Pulls(p, w, r)[addr]
         IN  /\ x = [rank |-> x.rank, addr |-> x.addr]
             /\ x.rank \in Group(p, w, r) /\ x.rank \in Ranks(p)
             /\ x.addr \in Pencil(p, x.rank, w[1])
             /\ Pulls(p, Back(w), x.rank)[x.addr] = [rank |-> r, addr |-> addr]
<1> DEFINE t == TransposeOf(p, r, w)
           k == RankIn(w, r)
           s == Source(t, k, addr)
           q == Peer(w, r, s.rank)
           u == InverseTranspose(t)
           x == Pulls(p, w, r)[addr]
<1>1. x = [rank |-> q, addr |-> s.addr]
  BY DEF Pulls
<1>2. k \in Nat /\ Procs(p, w) \in Nat /\ Dealt(t, Procs(p, w))
  BY PeerFacts, TransposesDealt
<1>3. addr \in 0 .. t.howmany * LocalOut(t, k) * t.d0 - 1
  BY PencilsAreMatrices DEF Pencil
<1> HIDE DEF t, k
<1>4. /\ s.rank \in 0 .. Procs(p, w) - 1
      /\ s.addr \in 0 .. t.howmany * LocalIn(t, s.rank) * t.d1 - 1
      /\ Source(u, s.rank, s.addr) = [rank |-> k, addr |-> addr]
  BY <1>2, <1>3, SourceGoesBack
<1>5. /\ q \in Group(p, w, r) /\ q \in Ranks(p) /\ RankIn(w, q) = s.rank
      /\ RankIn(Back(w), q) = s.rank /\ Peer(Back(w), q, k) = r
  BY <1>4, PeerFacts DEF k
<1> HIDE DEF s, q, u
<1>6. TransposeOf(p, q, w) = t /\ TransposeOf(p, q, Back(w)) = u
  BY <1>5, PeersAgree, BackTranspose DEF t, u
<1>7. s.addr \in Pencil(p, q, w[1])
  BY <1>4, <1>5, <1>6, PencilsAreMatrices DEF Pencil
<1>8. Pulls(p, Back(w), q)[s.addr] = [rank |-> r, addr |-> addr]
  <2>1. Back(w)[2] = w[1]
    BY DEF Back
  <2> QED BY <1>4, <1>5, <1>6, <1>7, <2>1 DEF Pulls
<1> QED BY <1>1, <1>5, <1>7, <1>8

---------------------------------------------------------------------------
(* What a rank holds after any route.                                      *)

\* The ways between directions.
LEMMA DirectionPairs ==
  ASSUME NEW s \in Directions, NEW d \in Directions, s # d
  PROVE  /\ <<s, d>> \in Ways <=> <<d, s>> \in Ways
         /\ <<s, d>> \notin Ways => <<s, 1>> \in Ways /\ <<1, s>> \in Ways
                                   /\ <<d, 1>> \in Ways /\ <<1, d>> \in Ways
         /\ Back(<<s, d>>) = <<d, s>> /\ Back(<<d, s>>) = <<s, d>>
         /\ Back(<<s, 1>>) = <<1, s>> /\ Back(<<1, s>>) = <<s, 1>>
         /\ Back(<<d, 1>>) = <<1, d>> /\ Back(<<1, d>>) = <<d, 1>>
BY DEF Directions, Ways, Back

\* No way leads from a direction to itself.
LEMMA NoWayHome == \A s : <<s, s>> \notin Ways
BY DEF Ways

\* What a rank holds is a function on its pencil.
LEMMA HeldType ==
  ASSUME NEW p \in WellFormed, NEW s \in Directions, NEW d \in Directions,
         NEW r \in Ranks(p)
  PROVE  /\ DOMAIN Held(p, s, r, d) = Pencil(p, r, d)
         /\ Held(p, s, r, d) = [addr \in Pencil(p, r, d) |-> Held(p, s, r, d)[addr]]
<1>1. CASE s = d
  BY <1>1, NoWayHome DEF Held
<1>2. CASE s # d /\ <<s, d>> \in Ways
  <2>1. Held(p, s, r, d) = Pulls(p, <<s, d>>, r)
    BY <1>2 DEF Held
  <2> QED BY <2>1 DEF Pulls
<1>3. CASE s # d /\ <<s, d>> \notin Ways
  <2> DEFINE last == Pulls(p, <<1, d>>, r)
  <2>1. Held(p, s, r, d)
          = [addr \in DOMAIN last |-> Pulls(p, <<s, 1>>, last[addr].rank)[last[addr].addr]]
    BY <1>3 DEF Held
  <2>2. DOMAIN last = Pencil(p, r, d)
    BY DEF Pulls
  <2> HIDE DEF last
  <2> QED BY <2>1, <2>2
<1> QED BY <1>1, <1>2, <1>3

\* Going to a direction and coming back finds each value where it was: from
\* any direction to any other, what ranks hold is a rearrangement of the field.
THEOREM HeldGoesBack ==
  ASSUME NEW p \in WellFormed, NEW s \in Directions, NEW d \in Directions,
         NEW r \in Ranks(p), NEW addr \in Pencil(p, r, d)
  PROVE  LET x == Held(p, s, r, d)[addr]
         IN  /\ x = [rank |-> x.rank, addr |-> x.addr]
             /\ x.rank \in Ranks(p) /\ x.addr \in Pencil(p, x.rank, s)
             /\ Held(p, d, x.rank, s)[x.addr] = [rank |-> r, addr |-> addr]
<1> DEFINE x == Held(p, s, r, d)[addr]
<1>1. CASE s = d
  BY <1>1, NoWayHome DEF Held
<1>2. CASE s # d /\ <<s, d>> \in Ways
  <2>1. x = Pulls(p, <<s, d>>, r)[addr]
    BY <1>2 DEF Held
  <2>2. <<d, s>> \in Ways /\ Back(<<s, d>>) = <<d, s>>
    BY <1>2, DirectionPairs
  <2> HIDE DEF x
  <2>3. /\ x = [rank |-> x.rank, addr |-> x.addr]
        /\ x.rank \in Ranks(p) /\ x.addr \in Pencil(p, x.rank, s)
        /\ Pulls(p, <<d, s>>, x.rank)[x.addr] = [rank |-> r, addr |-> addr]
    BY <1>2, <2>1, <2>2, PullsGoBack
  <2>4. Held(p, d, x.rank, s) = Pulls(p, <<d, s>>, x.rank)
    BY <1>2, <2>2 DEF Held
  <2> QED BY <2>3, <2>4 DEF x
<1>3. CASE s # d /\ <<s, d>> \notin Ways
  <2> DEFINE y == Pulls(p, <<1, d>>, r)[addr]
  <2>1. /\ <<1, d>> \in Ways /\ <<d, 1>> \in Ways /\ <<s, 1>> \in Ways /\ <<1, s>> \in Ways
        /\ Back(<<1, d>>) = <<d, 1>> /\ Back(<<s, 1>>) = <<1, s>> /\ <<d, s>> \notin Ways
    BY <1>3, DirectionPairs
  <2>2. x = Pulls(p, <<s, 1>>, y.rank)[y.addr]
    <3>1. DOMAIN Pulls(p, <<1, d>>, r) = Pencil(p, r, d)
      BY DEF Pulls
    <3> QED BY <1>3, <3>1 DEF Held
  <2> HIDE DEF x, y
  <2>3. /\ y.rank \in Ranks(p) /\ y.addr \in Pencil(p, y.rank, 1)
        /\ y = [rank |-> y.rank, addr |-> y.addr]
        /\ Pulls(p, <<d, 1>>, y.rank)[y.addr] = [rank |-> r, addr |-> addr]
    BY <2>1, PullsGoBack, SMTT(20) DEF y
  <2>4. /\ x.rank \in Ranks(p) /\ x.addr \in Pencil(p, x.rank, s)
        /\ x = [rank |-> x.rank, addr |-> x.addr]
        /\ Pulls(p, <<1, s>>, x.rank)[x.addr] = [rank |-> y.rank, addr |-> y.addr]
    <3> DEFINE v == <<s, 1>>
    <3>1. /\ v \in Ways /\ v[1] = s /\ v[2] = 1 /\ Back(v) = <<1, s>>
          /\ x = Pulls(p, v, y.rank)[y.addr]
      BY <2>1, <2>2
    <3> HIDE DEF v
    <3>2. y.addr \in Pencil(p, y.rank, v[2])
      BY <2>3, <3>1
    <3> QED BY <2>3, <3>1, <3>2, PullsGoBack
  <2>5. Held(p, d, x.rank, s)[x.addr] = Pulls(p, <<d, 1>>, y.rank)[y.addr]
    <3> DEFINE last == Pulls(p, <<1, s>>, x.rank)
    <3>1. DOMAIN last = Pencil(p, x.rank, s)
      BY DEF Pulls
    <3>2. Held(p, d, x.rank, s)
            = [a \in DOMAIN last |-> Pulls(p, <<d, 1>>, last[a].rank)[last[a].addr]]
      BY <1>3, <2>1 DEF Held
    <3> HIDE DEF last
    <3>3. last[x.addr] = [rank |-> y.rank, addr |-> y.addr]
      BY <2>4 DEF last
    <3> QED BY <2>4, <3>1, <3>2, <3>3
  <2> QED BY <2>3, <2>4, <2>5 DEF x
<1> QED BY <1>1, <1>2, <1>3

\* A transpose leads from what the ranks hold in one direction to what they
\* hold in the next, whatever the direction they started from.
LEMMA HeldMoves ==
  ASSUME NEW p \in WellFormed, NEW s \in Directions, NEW w \in Ways,
         NEW r \in Ranks(p), NEW addr \in Pencil(p, r, w[2])
  PROVE  LET x == Pulls(p, w, r)[addr]
         IN  Held(p, s, x.rank, w[1])[x.addr] = Held(p, s, r, w[2])[addr]
<1> DEFINE x == Pulls(p, w, r)[addr]
<1>1. /\ x = [rank |-> x.rank, addr |-> x.addr]
      /\ x.rank \in Ranks(p) /\ x.addr \in Pencil(p, x.rank, w[1])
      /\ Pulls(p, Back(w), x.rank)[x.addr] = [rank |-> r, addr |-> addr]
  BY PullsGoBack
<1>2. /\ w[1] \in Directions /\ w[2] \in Directions /\ w = <<w[1], w[2]>>
      /\ Back(w) = <<w[2], w[1]>> /\ Back(w) \in Ways /\ w[1] # w[2]
  BY DEF Ways, Back, Directions
<1>3. DOMAIN Pulls(p, w, r) = Pencil(p, r, w[2])
  BY DEF Pulls
<1>4. CASE s = w[2]
  <2>1. Held(p, s, x.rank, w[1]) = Pulls(p, Back(w), x.rank)
    BY <1>2, <1>4 DEF Held
  <2>2. Held(p, s, r, w[2])[addr] = [rank |-> r, addr |-> addr]
    BY <1>4, NoWayHome DEF Held
  <2> QED BY <1>1, <2>1, <2>2
<1>5. CASE s = w[1]
  <2>1. Held(p, s, r, w[2]) = Pulls(p, w, r)
    BY <1>2, <1>5 DEF Held
  <2> HIDE DEF x
  <2>2. Held(p, s, x.rank, w[1])[x.addr] = [rank |-> x.rank, addr |-> x.addr]
    BY <1>1, <1>5, NoWayHome DEF Held
  <2> QED BY <1>1, <2>1, <2>2 DEF x
<1>6. CASE s # w[1] /\ s # w[2] /\ w[1] = 1
  <2>1. <<s, w[2]>> \notin Ways /\ <<s, 1>> \in Ways
    BY <1>6 DEF Ways, Directions
  <2>2. Held(p, s, x.rank, 1) = Pulls(p, <<s, 1>>, x.rank)
    BY <1>6, <2>1 DEF Held
  <2>3. Held(p, s, r, w[2])
          = [a \in DOMAIN Pulls(p, w, r) |->
               Pulls(p, <<s, 1>>, Pulls(p, w, r)[a].rank)[Pulls(p, w, r)[a].addr]]
    BY <1>2, <1>6, <2>1 DEF Held
  <2> QED BY <1>3, <1>6, <2>2, <2>3
<1>7. CASE s # w[1] /\ s # w[2] /\ w[1] # 1
  <2>1. <<s, w[1]>> \notin Ways /\ <<s, 1>> \in Ways /\ w[2] = 1
    BY <1>7 DEF Ways, Directions
  <2>2. Held(p, s, r, w[2]) = Pulls(p, <<s, 1>>, r)
    BY <1>7, <2>1 DEF Held
  <2> DEFINE last == Pulls(p, Back(w), x.rank)
  <2>3. DOMAIN last = Pencil(p, x.rank, w[1])
    BY <1>2 DEF Pulls
  <2> HIDE DEF x
  <2>4. Held(p, s, x.rank, w[1])
          = [a \in DOMAIN last |-> Pulls(p, <<s, 1>>, last[a].rank)[last[a].addr]]
    BY <1>2, <1>7, <2>1 DEF Held
  <2> HIDE DEF last
  <2>5. last[x.addr] = [rank |-> r, addr |-> addr]
    BY <1>1 DEF last
  <2> QED BY <1>1, <2>2, <2>3, <2>4, <2>5 DEF x
<1> QED BY <1>4, <1>5, <1>6, <1>7

\* Where there is nothing to do there is nothing to hold.
LEMMA NothingToHold ==
  ASSUME NEW p \in WellFormed, NEW r \in Ranks(p), NEW w \in Ways,
         Trivial(TransposeOf(p, r, w))
  PROVE  Pencil(p, r, w[2]) = {}
<1> DEFINE t == TransposeOf(p, r, w)
           k == RankIn(w, r)
           out == LocalOut(t, k)
<1>1. /\ t.howmany \in Nat /\ t.d0 \in Nat /\ t.d1 \in Nat /\ t.block1 \in Nat
      /\ k \in Nat
  BY TransposesDealt, PeerFacts DEF Dealt
<1>2. Extent(p, r, w[2]) = t.howmany * out * t.d0
  BY PencilsAreMatrices
<1> HIDE DEF t, k
<1>3. out \in Nat /\ (t.d1 = 0 => out = 0)
  <2>1. out \in Nat
    BY <1>1, LocalRowsType DEF LocalOut
  <2>2. t.d1 = 0 => out = 0
    <3>1. k * t.block1 \in Nat
      BY <1>1
    <3> QED BY <3>1 DEF LocalOut, LocalRows
  <2> QED BY <2>1, <2>2
<1> HIDE DEF out
<1>4. t.howmany = 0 \/ t.d0 = 0 \/ out = 0
  BY <1>3 DEF t, Trivial
<1>5. t.howmany * out * t.d0 = 0
  BY <1>1, <1>3, <1>4
<1> QED BY <1>2, <1>5 DEF Pencil

---------------------------------------------------------------------------
(* Strides and addresses.                                                  *)

\* Dividing by one number and then another is dividing by their product.
LEMMA DivTwice ==
  ASSUME NEW x \in Nat, NEW a \in Nat \ {0}, NEW b \in Nat \ {0}
  PROVE  x \div (a * b) = (x \div a) \div b
<1> DEFINE y == x \div a
           q == y \div b
           m == y % b
           l == x % a
<1>1. y \in Nat /\ l \in Nat /\ l < a /\ x = y * a + l
  BY Divides
<1> HIDE DEF y, l
<1>2. q \in Nat /\ m \in Nat /\ m < b /\ y = q * b + m
  BY <1>1, Divides
<1> HIDE DEF q, m
<1>3. a * b \in Nat \ {0} /\ m * a \in Nat /\ q * (a * b) \in Nat
  <2>1. a * b \in Nat /\ a * b # 0
    OBVIOUS
  <2> QED BY <1>2, <2>1
<1>4. m * a + l \in Nat /\ m * a + l < a * b
  <2>1. (m + 1) * a <= b * a
    BY <1>2
  <2> QED BY <1>1, <1>2, <1>3, <2>1
<1>5. x = q * (a * b) + (m * a + l)
  <2>1. y * a = q * (a * b) + m * a
    BY <1>2
  <2> QED BY <1>1, <1>2, <1>3, <2>1
<1>6. (q * (a * b) + (m * a + l)) \div (a * b) = q
  <2> HIDE DEF y
  <2> DEFINE n == a * b
             k == m * a + l
  <2>1. n \in Nat \ {0} /\ k \in Nat /\ k < n
    BY <1>3, <1>4
  <2> HIDE DEF n, k
  <2>2. (q * n + k) \div n = q
    BY <1>2, <2>1, DivMod
  <2> QED BY <2>2 DEF n, k
<1> QED BY <1>5, <1>6 DEF q, y

\* The digits of x in a mixed radix.
Digits(x, s1, s2, s3, s4, d1, d2, d3, d4) ==
  /\ x \in 0 .. s1 * s2 * s3 * s4 - 1
  /\ d1 = (x \div 1) % s1
  /\ d2 = (x \div s1) % s2
  /\ d3 = (x \div (s1 * s2)) % s3
  /\ d4 = (x \div (s1 * s2 * s3)) % s4

\* A number is made up of its digits.
LEMMA MixedRadix ==
  ASSUME NEW s1 \in Nat, NEW s2 \in Nat, NEW s3 \in Nat, NEW s4 \in Nat,
         NEW x, NEW d1, NEW d2, NEW d3, NEW d4,
         Digits(x, s1, s2, s3, s4, d1, d2, d3, d4)
  PROVE  /\ d1 \in 0 .. s1 - 1 /\ d2 \in 0 .. s2 - 1
         /\ d3 \in 0 .. s3 - 1 /\ d4 \in 0 .. s4 - 1
         /\ x = ((d4 * s3 + d3) * s2 + d2) * s1 + d1
<1> DEFINE x1 == x \div s1
           x2 == x1 \div s2
           x3 == x2 \div s3
<1>0. /\ x \in 0 .. s1 * s2 * s3 * s4 - 1
      /\ d1 = (x \div 1) % s1
      /\ d2 = (x \div s1) % s2
      /\ d3 = (x \div (s1 * s2)) % s3
      /\ d4 = (x \div (s1 * s2 * s3)) % s4
  BY DEF Digits
<1>1. /\ s1 > 0 /\ x1 \in 0 .. s2 * s3 * s4 - 1 /\ x % s1 \in 0 .. s1 - 1
      /\ x = x1 * s1 + (x % s1)
  <2>1. s1 * s2 * s3 * s4 = (s2 * s3 * s4) * s1 /\ s2 * s3 * s4 \in Nat
    OBVIOUS
  <2>2. PICK n \in Nat : n = s2 * s3 * s4
    BY <2>1
  <2>3. x \in 0 .. n * s1 - 1
    BY <1>0, <2>1, <2>2
  <2> QED BY <2>2, <2>3, CellHasPlace
<1> HIDE DEF x1
<1>2. /\ s2 > 0 /\ x2 \in 0 .. s3 * s4 - 1 /\ x1 % s2 \in 0 .. s2 - 1
      /\ x1 = x2 * s2 + (x1 % s2)
  <2>1. s2 * s3 * s4 = (s3 * s4) * s2 /\ s3 * s4 \in Nat
    OBVIOUS
  <2>2. PICK n \in Nat : n = s3 * s4
    BY <2>1
  <2>3. x1 \in 0 .. n * s2 - 1
    BY <1>1, <2>1, <2>2
  <2> QED BY <2>2, <2>3, CellHasPlace
<1> HIDE DEF x2
<1>3. /\ s3 > 0 /\ x3 \in 0 .. s4 - 1 /\ x2 % s3 \in 0 .. s3 - 1
      /\ x2 = x3 * s3 + (x2 % s3)
  <2>1. x2 \in 0 .. s4 * s3 - 1
    BY <1>2
  <2> QED BY <2>1, CellHasPlace
<1> HIDE DEF x3
<1>4. x \div 1 = x
  <2>1. x * 1 + 0 = x /\ x \in Nat
    BY <1>0
  <2> QED BY <2>1, DivMod
<1>5. x \div (s1 * s2) = x2
  <2>1. x \in Nat /\ s1 \in Nat \ {0} /\ s2 \in Nat \ {0}
    BY <1>0, <1>1, <1>2
  <2>2. x \div (s1 * s2) = (x \div s1) \div s2
    BY <2>1, DivTwice
  <2> QED BY <2>2 DEF x1, x2
<1>6. x \div (s1 * s2 * s3) = x3
  <2>1. s1 * s2 \in Nat \ {0}
    BY <1>1, <1>2
  <2>2. PICK n \in Nat \ {0} : n = s1 * s2
    BY <2>1
  <2>3. x \div (n * s3) = (x \div n) \div s3
    <3>1. x \in Nat /\ s3 \in Nat \ {0}
      BY <1>0, <1>3
    <3> QED BY <2>2, <3>1, DivTwice
  <2> QED BY <1>5, <2>2, <2>3 DEF x3
<1>7. x3 % s4 = x3
  <2>1. 0 * s4 + x3 = x3 /\ x3 < s4 /\ x3 \in Nat /\ s4 \in Nat \ {0}
    BY <1>3
  <2>2. (0 * s4 + x3) % s4 = x3
    BY <2>1, DivMod
  <2> QED BY <2>1, <2>2
<1>8. x \div s1 = x1
  BY DEF x1
<1> QED BY <1>0, <1>1, <1>2, <1>3, <1>4, <1>5, <1>6, <1>7, <1>8

\* The storage order has every index once.
LEMMA OrderIs ==
  ASSUME NEW p, NEW i \in Directions
  PROVE  /\ Order(p, i) \in {<<3, 1, 0, 2>>, <<3, 2, 1, 0>>, <<3, 0, 2, 1>>}
         /\ \A d \in Indices : \E k \in 1..4 : d = Order(p, i)[k]
         /\ \A k \in 1..4 : Order(p, i)[k] \in Indices
         /\ \A k, l \in 1..4 : Order(p, i)[k] = Order(p, i)[l] => k = l
<1>1. Order(p, i) \in {<<3, 1, 0, 2>>, <<3, 2, 1, 0>>, <<3, 0, 2, 1>>}
  BY DEF Order, Directions
<1>2. \A d \in Indices : d = 0 \/ d = 1 \/ d = 2 \/ d = 3
  BY DEF Indices
<1>3. \A k \in 1..4 : k = 1 \/ k = 2 \/ k = 3 \/ k = 4
  OBVIOUS
<1>4. ASSUME NEW o \in {<<3, 1, 0, 2>>, <<3, 2, 1, 0>>, <<3, 0, 2, 1>>}
      PROVE  /\ \A d \in Indices : \E k \in 1..4 : d = o[k]
             /\ \A k \in 1..4 : o[k] \in Indices
             /\ \A k, l \in 1..4 : o[k] = o[l] => k = l
  <2>1. 0 \in Indices /\ 1 \in Indices /\ 2 \in Indices /\ 3 \in Indices
    BY DEF Indices
  <2>2. CASE o = <<3, 1, 0, 2>>
    <3>1. o[1] = 3 /\ o[2] = 1 /\ o[3] = 0 /\ o[4] = 2
      BY <2>2
    <3> QED BY <1>2, <1>3, <2>1, <3>1
  <2>3. CASE o = <<3, 2, 1, 0>>
    <3>1. o[1] = 3 /\ o[2] = 2 /\ o[3] = 1 /\ o[4] = 0
      BY <2>3
    <3> QED BY <1>2, <1>3, <2>1, <3>1
  <2>4. CASE o = <<3, 0, 2, 1>>
    <3>1. o[1] = 3 /\ o[2] = 0 /\ o[3] = 2 /\ o[4] = 1
      BY <2>4
    <3> QED BY <1>2, <1>3, <2>1, <3>1
  <2> QED BY <2>2, <2>3, <2>4
<1> QED BY <1>1, <1>4

\* A stride is the product of the sizes of the faster indices.
LEMMA StrideIs ==
  ASSUME NEW p, NEW r, NEW i \in Directions, NEW o, o = Order(p, i)
  PROVE  /\ Stride(p, r, i, o[1]) = 1
         /\ Stride(p, r, i, o[2]) = Size(p, r, i, o[1])
         /\ Stride(p, r, i, o[3]) = Size(p, r, i, o[1]) * Size(p, r, i, o[2])
         /\ Stride(p, r, i, o[4]) = Size(p, r, i, o[1]) * Size(p, r, i, o[2])
                                      * Size(p, r, i, o[3])
<1>1. /\ o[1] # o[2] /\ o[1] # o[3] /\ o[1] # o[4]
      /\ o[2] # o[3] /\ o[2] # o[4] /\ o[3] # o[4]
  BY OrderIs
<1> QED BY <1>1 DEF Stride

\* The strides take an address apart into an index for each dimension.
LEMMA AddressParts ==
  ASSUME NEW p \in WellFormed, NEW i \in Directions, NEW r \in Ranks(p),
         NEW addr \in Pencil(p, r, i)
  PROVE  LET o    == Order(p, i)
             s(d) == Size(p, r, i, d)
             x(d) == (addr \div Stride(p, r, i, d)) % s(d)
         IN  /\ \A d \in Indices : x(d) \in 0 .. s(d) - 1
             /\ addr = ((x(o[4]) * s(o[3]) + x(o[3])) * s(o[2]) + x(o[2])) * s(o[1]) + x(o[1])
<1> DEFINE o    == Order(p, i)
           s(d) == Size(p, r, i, d)
           x(d) == (addr \div Stride(p, r, i, d)) % s(d)
<1>1. \A d \in Indices : s(d) \in Nat
  BY SizeType
<1>2. /\ Stride(p, r, i, o[1]) = 1
      /\ Stride(p, r, i, o[2]) = s(o[1])
      /\ Stride(p, r, i, o[3]) = s(o[1]) * s(o[2])
      /\ Stride(p, r, i, o[4]) = s(o[1]) * s(o[2]) * s(o[3])
  BY StrideIs
<1>3. Extent(p, r, i) = s(o[1]) * s(o[2]) * s(o[3]) * s(o[4])
  <2>1. \A a, b, c, d \in Nat :
          /\ a * b * c * d = d * b * a * c
          /\ a * b * c * d = d * c * b * a
          /\ a * b * c * d = d * a * c * b
    OBVIOUS
  <2>2. s(0) \in Nat /\ s(1) \in Nat /\ s(2) \in Nat /\ s(3) \in Nat
    BY <1>1 DEF Indices
  <2>3. Extent(p, r, i) = s(0) * s(1) * s(2) * s(3)
    BY DEF Extent
  <2>4. \/ o[1] = 3 /\ o[2] = 1 /\ o[3] = 0 /\ o[4] = 2
        \/ o[1] = 3 /\ o[2] = 2 /\ o[3] = 1 /\ o[4] = 0
        \/ o[1] = 3 /\ o[2] = 0 /\ o[3] = 2 /\ o[4] = 1
    BY OrderIs
  <2> HIDE DEF s, o
  <2> QED BY <2>1, <2>2, <2>3, <2>4
<1>4. /\ o[1] \in Indices /\ o[2] \in Indices /\ o[3] \in Indices /\ o[4] \in Indices
      /\ \A d \in Indices : d = o[1] \/ d = o[2] \/ d = o[3] \/ d = o[4]
  BY OrderIs
<1>5. addr \in 0 .. s(o[1]) * s(o[2]) * s(o[3]) * s(o[4]) - 1
  BY <1>3 DEF Pencil
<1>6. /\ x(o[1]) = (addr \div 1) % s(o[1])
      /\ x(o[2]) = (addr \div s(o[1])) % s(o[2])
      /\ x(o[3]) = (addr \div (s(o[1]) * s(o[2]))) % s(o[3])
      /\ x(o[4]) = (addr \div (s(o[1]) * s(o[2]) * s(o[3]))) % s(o[4])
  BY <1>2
<1> HIDE DEF s, x, o
<1>7. /\ x(o[1]) \in 0 .. s(o[1]) - 1 /\ x(o[2]) \in 0 .. s(o[2]) - 1
      /\ x(o[3]) \in 0 .. s(o[3]) - 1 /\ x(o[4]) \in 0 .. s(o[4]) - 1
      /\ addr = ((x(o[4]) * s(o[3]) + x(o[3])) * s(o[2]) + x(o[2])) * s(o[1]) + x(o[1])
  <2>1. s(o[1]) \in Nat /\ s(o[2]) \in Nat /\ s(o[3]) \in Nat /\ s(o[4]) \in Nat
    BY <1>1, <1>4
  <2>2. PICK s1 \in Nat, s2 \in Nat, s3 \in Nat, s4 \in Nat :
          s1 = s(o[1]) /\ s2 = s(o[2]) /\ s3 = s(o[3]) /\ s4 = s(o[4])
    BY <2>1
  <2>3. addr \in 0 .. s1 * s2 * s3 * s4 - 1
    BY <1>5, <2>2
  <2>4. PICK d1, d2, d3, d4 :
          d1 = x(o[1]) /\ d2 = x(o[2]) /\ d3 = x(o[3]) /\ d4 = x(o[4])
    OBVIOUS
  <2>5. Digits(addr, s1, s2, s3, s4, d1, d2, d3, d4)
    BY <1>6, <2>2, <2>3, <2>4 DEF Digits
  <2>6. /\ d1 \in 0 .. s1 - 1 /\ d2 \in 0 .. s2 - 1
        /\ d3 \in 0 .. s3 - 1 /\ d4 \in 0 .. s4 - 1
        /\ addr = ((d4 * s3 + d3) * s2 + d2) * s1 + d1
    BY <2>5, MixedRadix
  <2> QED BY <2>2, <2>4, <2>6
<1>8. \A d \in Indices : x(d) \in 0 .. s(d) - 1
  BY <1>4, <1>7
<1> QED BY <1>7, <1>8 DEF s, x, o

\* Where a rank's share starts is a number.
LEMMA StartType ==
  ASSUME NEW p \in WellFormed, NEW r \in Ranks(p),
         NEW i \in Directions, NEW d \in Indices
  PROVE  Start(p, r, i, d) \in Nat
<1>1. p.pA \in Nat \ {0} /\ p.pB \in Nat \ {0} /\ r.a \in Nat /\ r.b \in Nat
  BY DEF WellFormed, Ranks
<1>2. CASE d = 3
  <2>1. ~SplitOverB(i, d)
    BY <1>2 DEF SplitOverB, Directions
  <2> QED BY <1>2, <2>1 DEF Start
<1>3. CASE d # 3
  <2>1. p.n[d] \in Nat \ {0}
    BY <1>3 DEF WellFormed, Indices, Directions
  <2>2. /\ DefaultBlock(p.n[d], p.pA) \in Nat
        /\ DefaultBlock(p.n[d], p.pB) \in Nat
    BY <1>1, <2>1, DefaultBlockBounds
  <2>3. /\ r.a * DefaultBlock(p.n[d], p.pA) \in Nat
        /\ r.b * DefaultBlock(p.n[d], p.pB) \in Nat
    BY <1>1, <2>2
  <2> QED BY <2>3 DEF Start
<1> QED BY <1>2, <1>3

\* The element placed at an address is one that the rank holds, and no two
\* addresses have the same.
THEOREM AddressesApart ==
  ASSUME NEW p \in WellFormed, NEW i \in Directions, NEW r \in Ranks(p),
         NEW addr \in Pencil(p, r, i)
  PROVE  /\ Holds(p, r, i, ElementAt(p, r, i, addr))
         /\ \A other \in Pencil(p, r, i) :
              ElementAt(p, r, i, other) = ElementAt(p, r, i, addr) => other = addr
<1> DEFINE o       == Order(p, i)
           s(d)    == Size(p, r, i, d)
           x(a, d) == (a \div Stride(p, r, i, d)) % s(d)
<1>1. \A d \in Indices : s(d) \in Nat /\ Start(p, r, i, d) \in Nat
  BY SizeType, StartType
<1>2. ASSUME NEW a \in Pencil(p, r, i)
      PROVE  /\ \A d \in Indices : x(a, d) \in 0 .. s(d) - 1
             /\ a = ((x(a, o[4]) * s(o[3]) + x(a, o[3])) * s(o[2]) + x(a, o[2])) * s(o[1])
                      + x(a, o[1])
  BY AddressParts
<1>3. \A a : \A d \in Indices :
        ElementAt(p, r, i, a)[d] = Start(p, r, i, d) + x(a, d)
  BY DEF ElementAt
<1>4. o[1] \in Indices /\ o[2] \in Indices /\ o[3] \in Indices /\ o[4] \in Indices
  BY OrderIs
<1> HIDE DEF o, s, x
<1>5. Holds(p, r, i, ElementAt(p, r, i, addr))
  <2> SUFFICES ASSUME NEW d \in Indices
               PROVE  ElementAt(p, r, i, addr)[d]
                        \in Start(p, r, i, d) .. Start(p, r, i, d) + s(d) - 1
    BY DEF Holds, s
  <2> QED BY <1>1, <1>2, <1>3
<1>6. ASSUME NEW other \in Pencil(p, r, i),
             ElementAt(p, r, i, other) = ElementAt(p, r, i, addr)
      PROVE  other = addr
  <2>1. ASSUME NEW d \in Indices PROVE x(other, d) = x(addr, d)
    <3>1. Start(p, r, i, d) + x(other, d) = Start(p, r, i, d) + x(addr, d)
      BY <1>3, <1>6
    <3>2. x(other, d) \in Int /\ x(addr, d) \in Int /\ Start(p, r, i, d) \in Int
      BY <1>1, <1>2
    <3>3. \A a, b, c \in Int : a + b = a + c => b = c
      OBVIOUS
    <3> QED BY <3>1, <3>2, <3>3
  <2>2. /\ x(other, o[1]) = x(addr, o[1]) /\ x(other, o[2]) = x(addr, o[2])
        /\ x(other, o[3]) = x(addr, o[3]) /\ x(other, o[4]) = x(addr, o[4])
    BY <1>4, <2>1
  <2> QED BY <1>2, <2>2
<1> QED BY <1>5, <1>6

\* Numbers below the radices are the digits of what is made up of them.
LEMMA RadixMixed ==
  ASSUME NEW s1 \in Nat, NEW s2 \in Nat, NEW s3 \in Nat, NEW s4 \in Nat,
         NEW d1 \in 0 .. s1 - 1, NEW d2 \in 0 .. s2 - 1,
         NEW d3 \in 0 .. s3 - 1, NEW d4 \in 0 .. s4 - 1,
         NEW x, x = ((d4 * s3 + d3) * s2 + d2) * s1 + d1
  PROVE  Digits(x, s1, s2, s3, s4, d1, d2, d3, d4)
<1>1. PICK c3 : c3 = d4 * s3 + d3
  OBVIOUS
<1>2. c3 \in 0 .. s4 * s3 - 1 /\ c3 \div s3 = d4 /\ c3 % s3 = d3
  BY <1>1, PlaceHasCell
<1>3. PICK n3 \in Nat : n3 = s4 * s3
  OBVIOUS
<1>4. PICK c2 : c2 = c3 * s2 + d2
  OBVIOUS
<1>5. c3 \in 0 .. n3 - 1
  BY <1>2, <1>3
<1>6. c2 \in 0 .. n3 * s2 - 1 /\ c2 \div s2 = c3 /\ c2 % s2 = d2
  BY <1>4, <1>5, PlaceHasCell
<1>7. PICK n2 \in Nat : n2 = n3 * s2
  BY <1>3
<1>8. c2 \in 0 .. n2 - 1 /\ x = c2 * s1 + d1
  BY <1>1, <1>4, <1>6, <1>7
<1>9. x \in 0 .. n2 * s1 - 1 /\ x \div s1 = c2 /\ x % s1 = d1
  BY <1>8, PlaceHasCell
<1>10. n2 * s1 = s1 * s2 * s3 * s4
  BY <1>3, <1>7
<1>11. s1 \in Nat \ {0} /\ s2 \in Nat \ {0} /\ s3 \in Nat \ {0} /\ s4 \in Nat \ {0} /\ x \in Nat
  BY <1>9
<1>12. x \div (s1 * s2) = c3
  <2>1. x \div (s1 * s2) = (x \div s1) \div s2
    BY <1>11, DivTwice
  <2> QED BY <1>6, <1>9, <2>1
<1>13. x \div (s1 * s2 * s3) = d4
  <2>1. s1 * s2 \in Nat /\ s1 * s2 # 0
    BY <1>11
  <2>2. PICK n \in Nat \ {0} : n = s1 * s2
    BY <2>1
  <2>3. x \div (n * s3) = (x \div n) \div s3
    BY <1>11, <2>2, DivTwice
  <2> QED BY <1>2, <1>12, <2>2, <2>3
<1>14. d4 % s4 = d4
  <2>1. 0 * s4 + d4 = d4 /\ d4 < s4 /\ d4 \in Nat
    BY <1>11
  <2>2. (0 * s4 + d4) % s4 = d4
    BY <1>11, <2>1, DivMod
  <2> QED BY <2>1, <2>2
<1>15. x \div 1 = x
  <2>1. x * 1 + 0 = x
    BY <1>11
  <2> QED BY <1>11, <2>1, DivMod
<1> QED BY <1>2, <1>6, <1>9, <1>10, <1>12, <1>13, <1>14, <1>15 DEF Digits

\* What the extents place at the address made up of given indices.
LEMMA ElementMade ==
  ASSUME NEW p \in WellFormed, NEW i \in Directions, NEW r \in Ranks(p),
         NEW o, o = Order(p, i), NEW e,
         \A d \in Indices : e[d] \in 0 .. Size(p, r, i, d) - 1,
         NEW addr,
         addr = ((e[o[4]] * Size(p, r, i, o[3]) + e[o[3]]) * Size(p, r, i, o[2]) + e[o[2]])
                  * Size(p, r, i, o[1]) + e[o[1]]
  PROVE  ElementAt(p, r, i, addr) = [d \in Indices |-> Start(p, r, i, d) + e[d]]
<1> DEFINE s(d) == Size(p, r, i, d)
           x(d) == (addr \div Stride(p, r, i, d)) % s(d)
<1>1. \A d \in Indices : s(d) \in Nat
  BY SizeType
<1>2. /\ o[1] \in Indices /\ o[2] \in Indices /\ o[3] \in Indices /\ o[4] \in Indices
      /\ \A d \in Indices : d = o[1] \/ d = o[2] \/ d = o[3] \/ d = o[4]
  BY OrderIs
<1>3. /\ Stride(p, r, i, o[1]) = 1
      /\ Stride(p, r, i, o[2]) = s(o[1])
      /\ Stride(p, r, i, o[3]) = s(o[1]) * s(o[2])
      /\ Stride(p, r, i, o[4]) = s(o[1]) * s(o[2]) * s(o[3])
  BY StrideIs
<1>4. PICK s1 \in Nat, s2 \in Nat, s3 \in Nat, s4 \in Nat :
        s1 = s(o[1]) /\ s2 = s(o[2]) /\ s3 = s(o[3]) /\ s4 = s(o[4])
  BY <1>1, <1>2
<1>5. PICK d1 \in 0 .. s1 - 1, d2 \in 0 .. s2 - 1, d3 \in 0 .. s3 - 1, d4 \in 0 .. s4 - 1 :
        d1 = e[o[1]] /\ d2 = e[o[2]] /\ d3 = e[o[3]] /\ d4 = e[o[4]]
  BY <1>2, <1>4
<1>6. addr = ((d4 * s3 + d3) * s2 + d2) * s1 + d1
  BY <1>4, <1>5
<1>7. Digits(addr, s1, s2, s3, s4, d1, d2, d3, d4)
  BY <1>6, RadixMixed
<1>8. /\ x(o[1]) = e[o[1]] /\ x(o[2]) = e[o[2]] /\ x(o[3]) = e[o[3]] /\ x(o[4]) = e[o[4]]
  BY <1>3, <1>4, <1>5, <1>7 DEF Digits
<1> HIDE DEF x
<1>9. \A d \in Indices : x(d) = e[d]
  BY <1>2, <1>8
<1> QED BY <1>9 DEF ElementAt, x

\* Row i of a plane, of s planes of n rows, is dealt to the process numbered
\* from; one process has all rows or there is one plane.
DealtWhole(n, procs, b, s, plane, i, row, from) ==
  /\ procs = 1 \/ s = 1
  /\ b = DefaultBlock(n, procs)
  /\ plane \in 0 .. s - 1 /\ i \in 0 .. n - 1
  /\ row = plane * n + i
  /\ from = row \div (s * b)

\* A plane of n rows is then dealt like n rows are.
LEMMA SplitKept ==
  ASSUME NEW n \in Nat \ {0}, NEW procs \in Nat \ {0}, NEW s \in Nat, NEW b,
         NEW plane, NEW i, NEW row, NEW from,
         DealtWhole(n, procs, b, s, plane, i, row, from),
         NEW share, share = LocalRows(n, b, from)
  PROVE  /\ from \in Nat
         /\ i - from * b \in 0 .. share - 1
         /\ row - from * (s * b) = plane * share + (i - from * b)
<1>0. /\ procs = 1 \/ s = 1
      /\ b = DefaultBlock(n, procs)
      /\ plane \in 0 .. s - 1 /\ i \in 0 .. n - 1
      /\ row = plane * n + i
      /\ from = row \div (s * b)
  BY DEF DealtWhole
<1>1. b \in Nat \ {0} /\ b <= n
  BY <1>0, DefaultBlockBounds
<1>2. CASE s = 1
  <2>1. row = i /\ s * b = b /\ plane = 0
    BY <1>0, <1>1, <1>2
  <2>2. n <= procs * b
    BY <1>0, BlocksCover
  <2>3. from \in 0 .. procs - 1 /\ i - from * b \in 0 .. LocalRows(n, b, from) - 1
    BY <1>0, <1>1, <2>1, <2>2, RowHasOwner
  <2>4. share \in Nat
    BY <1>1, <2>3, LocalRowsType
  <2>5. plane * share = 0
    BY <2>1, <2>4
  <2> QED BY <1>0, <1>1, <2>1, <2>3, <2>5
<1>3. CASE procs = 1
  <2>1. b = n
    BY <1>0, <1>3, DivMod DEF DefaultBlock
  <2>2. row \in 0 .. s * n - 1
    BY <1>0, PlaceHasCell
  <2>3. from = 0
    <3>1. PICK m \in Nat : m = s * n
      OBVIOUS
    <3>2. m \in Nat \ {0} /\ row \in Nat /\ row < m /\ 0 * m + row = row
      BY <2>2, <3>1
    <3>3. (0 * m + row) \div m = 0
      BY <3>2, DivMod
    <3> QED BY <1>0, <2>1, <3>1, <3>2, <3>3
  <2>4. share = n
    BY <1>1, <2>1, <2>3 DEF LocalRows
  <2>5. from * b = 0 /\ from * (s * b) = 0
    BY <1>1, <2>3
  <2> QED BY <1>0, <2>2, <2>3, <2>4, <2>5
<1> QED BY <1>0, <1>2, <1>3

=============================================================================
