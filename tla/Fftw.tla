-------------------------------- MODULE Fftw --------------------------------
(***************************************************************************)
(* The FFT layer: Fourier transforms along the long direction of a rank's  *)
(* pencil.  A transform is planned from two layouts (extents) of the same  *)
(* memory, one of complex fields and one of complex or real fields, and    *)
(* executed in place or from one buffer to another, perhaps with a         *)
(* reordering of the buffer before or after it.                            *)
(*                                                                         *)
(* Nothing here communicates, so one rank is enough: the module is what a  *)
(* program on a rank can do with the functions of underling_fftw.h.  FFTW  *)
(* itself is external: what its guru plans move where is modelled from the *)
(* dimensions, strides and offsets it is given.                            *)
(***************************************************************************)
EXTENDS Pencils, SequencesExt, FiniteSets

CONSTANTS Cases,       \* problems and ranks, and the direction to transform
          Buffers,     \* the buffers a caller passes
          Null,        \* the null pointer
          Nowhere,     \* no data, or no creation under way
          Junk,        \* contents nobody can rely on
          MaxPlans,    \* bound on the plans alive at a time
          MaxExecuted  \* bound on how often data is transformed

Forward  == {"c2c_forward", "r2c_forward"}
Complex  == {"c2c_forward", "c2c_backward"}
Kinds    == Complex \cup {"r2c_forward", "c2r_backward"}

\* noProblem: the problem is NULL.
Case == [prob : WellFormed, rank : [a : Nat, b : Nat], long : Int,
         noProblem : BOOLEAN]

ASSUME CasesAssumption   == /\ Cases \subseteq Case
                            /\ \A c \in Cases : c.rank \in Ranks(c.prob)
ASSUME BuffersAssumption == Null \notin Buffers
ASSUME BoundsAssumption  == MaxPlans \in Nat /\ MaxExecuted \in Nat

VARIABLES case,        \* the case, settled at the start
          status,      \* "running", or "aborted" or "crashed" for good
          making,      \* the creation under way and its extents so far
          plans,       \* the plans alive; equal plans behave alike
          buf,         \* buf[b]: the contents of a buffer
          at           \* where the data is, and what was done to it

vars == <<case, status, making, plans, buf, at>>

Memory == 0 .. LocalMemory(case.prob, case.rank) - 1

---------------------------------------------------------------------------
(* Layouts: functions of the indices, and the order from fastest to        *)
(* slowest.  Index 3 is the field, index 4 the component of a field.       *)

Parts == 0 .. 4

Zero(D) == [d \in D |-> 0]

\* UNDERLING_EXTENTS_INVALID and UNDERLING_FFTW_EXTENTS_INVALID.
InvalidExtents == [start |-> Zero(Indices), size |-> Zero(Indices),
                   stride |-> Zero(Indices), order |-> <<0, 0, 0, 0>>]

InvalidLayout == [start |-> Zero(Parts), size |-> Zero(Parts),
                  stride |-> Zero(Parts), order |-> <<0, 0, 0, 0, 0>>]

\* underling_local_extents, under an error handler that returns.
LocalExtents(c) ==
  IF c.long \notin Directions \/ c.noProblem THEN InvalidExtents
  ELSE [start  |-> [d \in Indices |-> Start(c.prob, c.rank, c.long, d)],
        size   |-> [d \in Indices |-> Size(c.prob, c.rank, c.long, d)],
        stride |-> [d \in Indices |-> Stride(c.prob, c.rank, c.long, d)],
        order  |-> Order(c.prob, c.long)]

\* Mutant: one direction is left out.
RotateTwo(order) == <<order[1], order[3], order[2], order[4]>>

\* The three slower directions; the field stays the fastest.
RotateLeft(order) == <<order[1], order[3], order[4], order[2]>>

\* Strides that leave no gaps, for whatever order the layout has.
Contiguous(e) ==
  LET step[k \in 1 .. Len(e.order)] ==
        IF k = 1 THEN 1 ELSE step[k - 1] * e.size[e.order[k - 1]]
      place(d) == CHOOSE k \in DOMAIN e.order : e.order[k] = d
  IN  [e EXCEPT !.stride = [d \in DOMAIN @ |-> step[place(d)]]]

Regular(e, long) ==
  /\ e.size[3] % 2 = 0
  /\ e.order[1] = 3
  /\ e.start[long] = 0

\* f with value x for the components.
WithComponents(f, x) == [d \in Parts |-> IF d = 4 THEN x ELSE f[d]]

ComplexLayout(e, long) ==
  IF ~Regular(e, long) THEN InvalidLayout
  ELSE [start  |-> WithComponents(e.start, 0),
        size   |-> [WithComponents(e.size, 2) EXCEPT ![3] = @ \div 2],
        stride |-> [WithComponents(e.stride, e.stride[3]) EXCEPT ![3] = 2 * @],
        order  |-> <<4>> \o e.order]

\* Mutant: the degenerate length is not told apart.
RealLengthNeverOne(n) == 2 * (n - 1)

\* Mutant: the complex values of the half spectrum are taken for all of them.
RealLengthTwice(n) == 2 * n

\* How many reals make n complex values.
RealLength(n) == IF n = 1 THEN 1 ELSE 2 * (n - 1)

\* Real values lie where the complex ones do, and leave room to become them.
RealLayout(e, long) ==
  IF ~Regular(e, long) \/ e.order[2] # long THEN InvalidLayout
  ELSE [start  |-> WithComponents(e.start, 0),
        size   |-> [WithComponents(e.size, 1) EXCEPT ![long] = RealLength(@),
                                                     ![3] = @ \div 2],
        stride |-> [WithComponents(e.stride, 1) EXCEPT ![long] = @ \div 2,
                                                       ![3] = 1],
        order  |-> <<4>> \o e.order]

Smaller(x, y) == IF x < y THEN x ELSE y

Address(layout, x) ==
  layout.stride[0] * x[0] + layout.stride[1] * x[1] + layout.stride[2] * x[2]
    + layout.stride[3] * x[3] + layout.stride[4] * x[4]

Coordinates(layout) ==
  LET upTo(d) == 0 .. layout.size[d] - 1
  IN  {[d \in Parts |-> x[d + 1]] :
         x \in upTo(0) \X upTo(1) \X upTo(2) \X upTo(3) \X upTo(4)}

\* Mutant: the padding is compared as well.
BenchChecksAll(layout) ==
  0 .. Smaller(Extent(case.prob, case.rank, case.long),
               layout.stride[layout.order[5]] * layout.size[layout.order[5]]) - 1

\* The addresses the benchmark compares when it checks real data.
BenchChecks(layout) ==
  LET count == layout.stride[layout.order[5]] * layout.size[layout.order[5]]
  IN  {i \in 0 .. Smaller(Extent(case.prob, case.rank, case.long), count) - 1 :
         i % layout.stride[layout.order[4]] < layout.size[layout.order[3]]}

---------------------------------------------------------------------------
(* FFTW guru plans (external).  A dimension is <<n, is, os>>.              *)

\* The pairs of offsets that loops over some dimensions visit, the last one
\* being the innermost.
AndLoop(ps, d) ==
  {<<p[1] + k * d[2], p[2] + k * d[3]>> : p \in ps, k \in 0 .. d[1] - 1}

Points(dims) ==
  LET loops[n \in 0 .. Len(dims)] ==
        IF n = 0 THEN {<<0, 0>>} ELSE AndLoop(loops[n - 1], dims[n])
  IN  loops[Len(dims)]

Look(contents, a) == IF a \in DOMAIN contents THEN contents[a] ELSE Junk

\* A rank-0 plan in place: every value goes where one loop index sends it.
\* What only was read is destroyed (FFTW_DESTROY_INPUT).
Reordered(contents, dims) ==
  LET points   == Points(dims)
      froms(a) == {p[1] : p \in {q \in points : q[2] = a}}
  IN  [a \in DOMAIN contents |->
         CASE Cardinality(froms(a)) = 1 -> Look(contents, CHOOSE b \in froms(a) : TRUE)
           [] froms(a) = {} /\ a \notin {p[1] : p \in points} -> contents[a]
           [] OTHER -> Junk]

\* A rank-1 plan: fft.loops leads to the lines, fft.dim along one.  A complex
\* value has its real part at the first and its imaginary part at the second
\* of the offsets fft.from or fft.to, a real value has one offset.
NumberIn(fft) ==
  IF Len(fft.from) = 2 /\ Len(fft.to) = 1 THEN fft.dim[1] \div 2 + 1 ELSE fft.dim[1]
NumberOut(fft) ==
  IF Len(fft.from) = 1 /\ Len(fft.to) = 2 THEN fft.dim[1] \div 2 + 1 ELSE fft.dim[1]

ReadAt(fft, line, k, c)  == line[1] + k * fft.dim[2] + fft.from[c]
WriteAt(fft, line, k, c) == line[2] + k * fft.dim[3] + fft.to[c]

Reads(fft, line) ==
  {ReadAt(fft, line, k, c) : k \in 0 .. NumberIn(fft) - 1, c \in DOMAIN fft.from}
Writes(fft, line) ==
  {WriteAt(fft, line, k, c) : k \in 0 .. NumberOut(fft) - 1, c \in DOMAIN fft.to}

\* A value is known by where it belongs and by the space it is in: how many
\* more times its line was transformed forward than backward.
Value(x, space) == [at |-> x, space |-> space]

\* What nobody can rely on is no value.
ASSUME JunkAssumption == Junk \notin [at : [Parts -> Int], space : Int]

\* FFTW transforms forward.  Given the parts of complex values in the order
\* imaginary, real it transforms backward, and so it does to real values.
Shift(fft, first) ==
  CASE Len(fft.from) = 1 -> 1
    [] Len(fft.to) = 1   -> -1
    [] OTHER             -> IF first = 0 THEN 1 ELSE -1

\* What a line becomes: the line of the other space if it was a line of one
\* field in order, nothing of use otherwise.
Result(fft, long, contents, line) ==
  LET here    == Look(contents, ReadAt(fft, line, 0, 1))
      first   == here.at[4]
      part(c) == IF c = 1 THEN first ELSE 1 - first
      inOrder ==
        /\ here # Junk
        /\ first = 0 \/ Len(fft.from) = Len(fft.to)
        /\ \A k \in 0 .. NumberIn(fft) - 1, c \in DOMAIN fft.from :
             Look(contents, ReadAt(fft, line, k, c)) =
               Value([here.at EXCEPT ![long] = k, ![4] = part(c)], here.space)
  IN  [kc \in (0 .. NumberOut(fft) - 1) \X DOMAIN fft.to |->
         IF inOrder
         THEN Value([here.at EXCEPT ![long] = kc[1], ![4] = part(kc[2])],
                    here.space + Shift(fft, first))
         ELSE Junk]

\* All lines at once.  An address that two lines touch in place, or write, is
\* lost, and so is input that is not overwritten.
Transformed(fft, long, inPlace, from, to) ==
  LET lines   == Points(fft.loops)
      written == UNION {LET r == Result(fft, long, from, l)
                        IN  {<<WriteAt(fft, l, kc[1], kc[2]), l, r[kc]>> : kc \in DOMAIN r} :
                        l \in lines}
      read    == IF inPlace THEN UNION {{<<a, l>> : a \in Reads(fft, l)} : l \in lines} ELSE {}
  IN  [a \in DOMAIN to |->
         LET ws == {w \in written : w[1] = a}
             ls == {r[2] : r \in {q \in read : q[1] = a}}
         IN  CASE ws = {} /\ ls = {} -> to[a]
               [] Cardinality(ws) = 1 /\ ls \subseteq {w[2] : w \in ws} ->
                    (CHOOSE w \in ws : TRUE)[3]
               [] OTHER -> Junk]

---------------------------------------------------------------------------
(* The plans.                                                              *)

\* Dimensions for some directions, from arrays of sizes and strides.
Dims(ds, size, is, os) == [k \in DOMAIN ds |-> <<size[ds[k]], is[ds[k]], os[ds[k]]>>]

\* The directions of a layout, slowest first.
Slow(layout)   == <<layout.order[5], layout.order[4], layout.order[3]>>
But(long, ds)  ==
  LET first[n \in 0 .. Len(ds)] ==
        IF n = 0 THEN <<>>
        ELSE IF ds[n] = long THEN first[n - 1] ELSE Append(first[n - 1], ds[n])
  IN  first[Len(ds)]

\* underling_fftw_plan_reorder_complex.
Reordering(input, output) ==
  Dims(Reverse(input.order), input.size, input.stride, output.stride)

\* A plan; pre and post are <<>> where there is nothing to reorder.  In place,
\* c2c transforms the side that is fast in the long direction.
C2cParts(kind, long, input, output, inPlace) ==
  LET before  == inPlace /\ input.order[3] # long
      tin     == IF before THEN output ELSE input
      tout    == IF inPlace THEN tin ELSE output
      ends(l) == IF kind \in Forward THEN <<0, l.stride[4]>> ELSE <<l.stride[4], 0>>
  IN  [pre  |-> IF before THEN Reordering(input, output) ELSE <<>>,
       fft  |-> [dim   |-> <<tin.size[long], tin.stride[long], tout.stride[long]>>,
                 loops |-> Append(Dims(But(long, Slow(tin)), tin.size, tin.stride, tout.stride),
                                  <<tin.size[3], tin.size[4], tout.size[4]>>),
                 from  |-> ends(tin),
                 to    |-> ends(tout)],
       post |-> IF inPlace /\ ~before THEN Reordering(input, output) ELSE <<>>]

\* In place, the real and the imaginary parts of all fields are moved apart
\* first, so that real values come to lie next to each other.
C2rParts(long, input, output, inPlace) ==
  LET h  == input.size[3]
      os == IF inPlace THEN input.stride ELSE output.stride
  IN  [pre  |-> IF inPlace
                THEN Dims(Slow(input), input.size, input.stride, input.stride)
                       \o << <<h, 2, 1>>, <<2, 1, h>> >>
                ELSE <<>>,
       fft  |-> [dim   |-> <<output.size[long], input.stride[long],
                             IF inPlace THEN h ELSE output.stride[long]>>,
                 loops |-> Append(Dims(But(long, Slow(output)), input.size, input.stride, os),
                                  IF inPlace THEN <<h, 1, 1>>
                                  ELSE <<h, input.stride[3], output.stride[3]>>),
                 from  |-> <<0, IF inPlace THEN h ELSE 1>>,
                 to    |-> <<0>>],
       post |-> IF inPlace
                THEN Dims(Slow(output), [input.size EXCEPT ![long] = 2 * @],
                          [input.stride EXCEPT ![long] = @ \div 2], output.stride)
                       \o << <<h, 1, 1>>, <<1, h, h>> >>
                ELSE <<>>]

\* In place, the parts are interleaved after the transform.
R2cParts(long, input, output, inPlace) ==
  LET h      == output.size[3]
      double == [input.stride EXCEPT ![long] = 2 * @]
      os     == IF inPlace THEN input.stride ELSE output.stride
  IN  [pre  |-> <<>>,
       fft  |-> [dim   |-> <<input.size[long], input.stride[long],
                             IF inPlace THEN double[long] ELSE output.stride[long]>>,
                 loops |-> Dims(But(long, Append(Slow(input), input.order[2])),
                                input.size, input.stride, os),
                 from  |-> <<0>>,
                 to    |-> <<0, IF inPlace THEN input.stride[long] ELSE 1>>],
       post |-> IF inPlace
                THEN Dims(Slow(input), output.size, double, output.stride)
                       \o << <<h, 1, 2>>, <<2, h, 1>> >>
                ELSE <<>>]

PlanFor(kind, long, input, output, inPlace) ==
  LET parts ==
        CASE kind \in Complex       -> C2cParts(kind, long, input, output, inPlace)
          [] kind = "r2c_forward"   -> R2cParts(long, input, output, inPlace)
          [] kind = "c2r_backward"  -> C2rParts(long, input, output, inPlace)
  IN  [kind |-> kind, input |-> input, output |-> output, inPlace |-> inPlace,
       pre |-> parts.pre, fft |-> parts.fft, post |-> parts.post]

\* The checks of the internal creation functions.
InternalRefuses(kind, long, in, out, input, output) ==
  \/ long \notin Directions
  \/ in = Null \/ out = Null
  \/ kind \in Complex /\ input.order[3] # long /\ output.order[3] # long

\* Their assertions on the number of loops: all layouts pass but the invalid one.
AssertsHold(kind, long, input, output) ==
  CASE kind \in Complex      -> Len(But(long, Slow(input))) = 2
    [] kind = "c2r_backward" -> Len(But(long, Slow(output))) = 2
    [] kind = "r2c_forward"  -> Len(But(long, Append(Slow(input), input.order[2]))) = 3

---------------------------------------------------------------------------
(* Behaviour                                                               *)

Init ==
  /\ case \in Cases
  /\ status = "running"
  /\ making = Nowhere
  /\ plans = {}
  /\ buf = [b \in Buffers |-> [a \in Memory |-> Junk]]
  /\ at = Nowhere

Idle == status = "running" /\ making = Nowhere

\* One of the four create functions is called and takes the first layout, complex
\* for all of them.  packed: the packed flag of the direction is given.  Plans
\* made from the problem do not depend on others, so there is one at a time,
\* with inverses of it.
Create ==
  /\ Idle
  /\ plans = {}
  /\ \E kind \in Kinds, in, out \in Buffers \cup {Null}, packed \in BOOLEAN :
       making' = [kind |-> kind, in |-> in, out |-> out, packed |-> packed,
                  first |-> ComplexLayout(LocalExtents(case), case.long),
                  e |-> LocalExtents(case), rotated |-> FALSE, adjusted |-> Nowhere]
  /\ UNCHANGED <<case, status, plans, buf, at>>

\* adjust_for_fast_stride_in_long_direction, one turn of its loop.
Rotate ==
  /\ status = "running" /\ making # Nowhere /\ making.adjusted = Nowhere
  /\ making.e.order[2] # case.long
  /\ making' = [making EXCEPT !.e.order = RotateLeft(@), !.rotated = TRUE]
  /\ UNCHANGED <<case, status, plans, buf, at>>

\* Planning may overwrite the buffers.
Overwrites(in, out) ==
  /\ buf' = [b \in Buffers |-> IF b \in {in, out} THEN [a \in Memory |-> Junk] ELSE buf[b]]
  /\ at' = IF at # Nowhere /\ at.buf \in {in, out} THEN Nowhere ELSE at

\* An internal creation function: it refuses its arguments, an assertion stops
\* the program, FFTW (or malloc) fails, or there is a plan.  After NULL is
\* returned the program is in the given status.
Concludes(kind, in, out, input, output, afterNull) ==
  LET refuses == InternalRefuses(kind, case.long, in, out, input, output)
      holds   == AssertsHold(kind, case.long, input, output)
  IN  \/ /\ refuses
         /\ status' = afterNull
         /\ UNCHANGED <<plans, buf, at>>
      \/ /\ ~refuses /\ ~holds
         /\ status' = "aborted"
         /\ UNCHANGED <<plans, buf, at>>
      \/ /\ ~refuses /\ holds
         /\ Overwrites(in, out)
         /\ \/ status' = afterNull /\ UNCHANGED plans
            \/ /\ plans' = plans \cup {PlanFor(kind, case.long, input, output, in = out)}
               /\ UNCHANGED status

Packs(mk) == mk.packed /\ case.long # 1

\* The side of a plan that is taken after the rotation, packed if asked for.
AdjustedSide(mk) ==
  LET e    == IF mk.rotated THEN Contiguous(mk.e) ELSE mk.e
      side == IF mk.kind \in Complex THEN ComplexLayout(e, case.long)
              ELSE RealLayout(e, case.long)
  IN  IF Packs(mk) /\ side # InvalidLayout THEN Contiguous(side) ELSE side

\* The loop ends, and the second layout is taken.
Adjust ==
  /\ status = "running" /\ making # Nowhere /\ making.adjusted = Nowhere
  /\ making.e.order[2] = case.long
  /\ making' = [making EXCEPT !.adjusted = AdjustedSide(making)]
  /\ UNCHANGED <<case, status, plans, buf, at>>

\* The rest of a create function.  The input of all but r2c is the first layout.
Settle ==
  LET first   == making.first
      second  == making.adjusted
      refused == /\ making.in = making.out
                 /\ \/ Packs(making)
                    \/ making.kind \notin Complex /\ first.order[3] # case.long
  IN
  /\ status = "running" /\ making # Nowhere /\ making.adjusted # Nowhere
  /\ making' = Nowhere
  /\ \/ refused /\ UNCHANGED <<status, plans, buf, at>>
     \/ /\ ~refused /\ making.kind # "r2c_forward"
        /\ Concludes(making.kind, making.in, making.out, first, second, "running")
     \/ /\ ~refused /\ making.kind = "r2c_forward"
        /\ Concludes(making.kind, making.in, making.out, second, first, "running")
  /\ UNCHANGED case

InverseKind(kind) ==
  CASE kind = "c2c_forward"  -> "c2c_backward"
    [] kind = "c2c_backward" -> "c2c_forward"
    [] kind = "r2c_forward"  -> "c2r_backward"
    [] kind = "c2r_backward" -> "r2c_forward"

\* underling_fftw_plan_create_inverse compares the extents of what it created
\* with those of the plan to invert, without asking if it was created.
CreateInverse ==
  /\ Idle
  /\ Cardinality(plans) < MaxPlans
  /\ \E p \in plans, in, out \in Buffers \cup {Null} :
       Concludes(InverseKind(p.kind), in, out, p.output, p.input, "crashed")
  /\ UNCHANGED <<case, making>>

\* A caller stores data as a plan describes its input.
Fill ==
  /\ Idle
  /\ at = Nowhere
  /\ \E p \in plans, b \in Buffers :
       LET places(a) == {x \in Coordinates(p.input) : Address(p.input, x) = a} IN
       /\ buf' = [buf EXCEPT ![b] = [a \in Memory |->
                    IF places(a) = {} THEN Junk
                    ELSE Value(CHOOSE x \in places(a) : TRUE, 0)]]
       /\ at' = [buf |-> b, layout |-> p.input, space |-> 0, by |-> <<>>]
  /\ UNCHANGED <<case, status, making, plans>>

\* What a plan makes of the buffers.
Executed(p, in, out) ==
  LET pre   == IF p.pre = <<>> THEN buf[in] ELSE Reordered(buf[in], p.pre)
      to    == Transformed(p.fft, case.long, p.inPlace, pre,
                           IF p.inPlace THEN pre ELSE buf[out])
      read  == UNION {Reads(p.fft, l) : l \in Points(p.fft.loops)}
  IN  IF p.inPlace
      THEN [buf EXCEPT ![in] = IF p.post = <<>> THEN to ELSE Reordered(to, p.post)]
      ELSE [buf EXCEPT ![in]  = [a \in Memory |-> IF a \in read THEN Junk ELSE @[a]],
                       ![out] = to]

\* Mutant: the data is looked for in the layout it had.
MovedAsItWas(p, out) ==
  [buf |-> out, layout |-> p.input,
   space |-> at.space + IF p.kind \in Forward THEN 1 ELSE -1, by |-> Append(at.by, p)]

\* Where the caller finds the data after it executed a plan.
Moved(p, out) ==
  [buf |-> out, layout |-> p.output,
   space |-> at.space + IF p.kind \in Forward THEN 1 ELSE -1, by |-> Append(at.by, p)]

\* underling_fftw_plan_execute on the data, where it is and as it is laid out.
Execute ==
  /\ Idle
  /\ at # Nowhere /\ Len(at.by) < MaxExecuted
  /\ \E p \in plans, out \in Buffers :
       /\ at.layout = p.input
       /\ p.inPlace <=> at.buf = out
       /\ buf' = Executed(p, at.buf, out)
       /\ at' = Moved(p, out)
  /\ UNCHANGED <<case, status, making, plans>>

Destroy ==
  /\ Idle
  /\ \E p \in plans : plans' = plans \ {p}
  /\ UNCHANGED <<case, status, making, buf, at>>

Next == Create \/ Rotate \/ Adjust \/ Settle \/ CreateInverse \/ Fill \/ Execute \/ Destroy

\* What Settle does to the creation, whatever its outcome.
Returns == making # Nowhere /\ making.adjusted # Nowhere /\ making' = Nowhere

\* A creation that was begun goes on: Settle is all that can end it.
Spec == Init /\ [][Next]_vars /\ WF_making(Rotate \/ Adjust) /\ WF_making(Returns)

---------------------------------------------------------------------------
(* Properties                                                              *)

\* A request that the checks let pass: a problem with an even number of real
\* values to transform in one of its directions.
Proper(c) == c.long \in Directions /\ ~c.noProblem /\ c.prob.howmany % 2 = 0

\* Every plan has layouts of five indices, the data is in a buffer, laid out
\* as the input or output of the last plan that moved it, and no deeper in a
\* space than it was transformed.
TypeOK ==
  /\ case \in Cases
  /\ status \in {"running", "aborted", "crashed"}
  /\ making # Nowhere => making.kind \in Kinds /\ making.e.order[1] \in {0, 3}
  /\ \A p \in plans : /\ p.kind \in Kinds /\ p.inPlace \in BOOLEAN
                      /\ ToSet(p.input.order) = Parts
                      /\ ToSet(p.output.order) = Parts
  /\ DOMAIN buf = Buffers
  /\ at # Nowhere => /\ at.buf \in Buffers
                     /\ Len(at.by) <= MaxExecuted
                     /\ at.space \in -Len(at.by) .. Len(at.by)
                     /\ at.by # <<>> => at.layout = Last(at.by).output

\* The data is where the extents of the last plan say, each value at its place
\* on its line and in the space the plans have brought it to: after a plan and
\* its inverse exactly what was there before (underling_fftw.h:198-200, "Plan
\* pairs created using this method will have compatible input and output
\* underling_fftw_extents information").
DataWhereDescribed ==
  at # Nowhere =>
    \A x \in Coordinates(at.layout) :
      Look(buf[at.buf], Address(at.layout, x)) = Value(x, at.space)

\* In place, complex and real data must differ along the lines only.  Plans
\* made from a problem are so, or refused; an inverse need not be: that of an
\* out-of-place plan of rotated or packed data is created in place all the same.
Sound(p) ==
  p.inPlace /\ p.kind \notin Complex =>
    /\ p.input.order = p.output.order
    /\ \A d \in Directions \ {case.long} : p.input.stride[d] = p.output.stride[d]

\* The data is where it is described to be, in any storage order, in place and
\* out of place, packed or not, through plans, inverses and their inverses, as
\* long as all plans are sound.
DataWhereSound ==
  at # Nowhere /\ (\A p \in ToSet(at.by) : Sound(p)) => DataWhereDescribed

\* No reordering and no transform of a sound plan touches memory outside of the
\* local memory of the problem, padding of real data included.
PlansStayInMemory ==
  \A p \in {q \in plans : Sound(q)} :
    /\ \A dims \in {p.pre, p.post} \ {<<>>} : \A q \in Points(dims) :
         q[1] \in Memory /\ q[2] \in Memory
    /\ \A l \in Points(p.fft.loops) :
         Reads(p.fft, l) \cup Writes(p.fft, l) \subseteq Memory

\* The benchmark's check_field, which knows the layout of real data by strides
\* and sizes only, looks at values and never at padding, and it looks at all
\* values when there is one field.
BenchChecksData ==
  \A p \in plans : p.input.size[4] = 1 =>
    LET values == {Address(p.input, x) : x \in Coordinates(p.input)}
    IN  /\ BenchChecks(p.input) \subseteq values
        /\ p.input.size[3] = 1 => BenchChecks(p.input) = values

\* A proper creation returns: its rotation ends and no assertion stops it.
ProperCreationReturns == (making # Nowhere /\ Proper(case)) ~> Idle

\* underling_fftw.h:216-218 of the inverse: "On failure, calls underling_error
\* and returns NULL".
InverseReturns == status # "crashed"

=============================================================================
