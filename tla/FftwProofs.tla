------------------------------ MODULE FftwProofs ------------------------------
(***************************************************************************)
(* Proofs about the FFT layer.                                             *)
(*                                                                         *)
(* Every layout a plan is made from is that of the pencil, with complex or *)
(* real fields, in some order of the three directions.  From this          *)
(* inductive invariant follow the types of the state, and that a sound     *)
(* plan takes one layout to another in stages, each of which takes every   *)
(* value from one address to one other.  So no sound plan leaves the local *)
(* memory, and the data is where the extents of the last one describe it;  *)
(* and the benchmark checks values and no padding.                         *)
(***************************************************************************)
EXTENDS Fftw, TransposeProofs, FiniteSetTheorems

---------------------------------------------------------------------------
(* Recursions over dimensions, unfolded.                                   *)

\* One more direction that is or is not the long one.
AndDirection(long, ds, d) == IF d = long THEN ds ELSE Append(ds, d)

\* Three directions without the long one.
LEMMA ButThree ==
  ASSUME NEW long, NEW a, NEW b, NEW c
  PROVE  But(long, <<a, b, c>>) =
           AndDirection(long, AndDirection(long, AndDirection(long, <<>>, a), b), c)
<1> DEFINE ds == <<a, b, c>>
           x1 == AndDirection(long, <<>>, a)
           x2 == AndDirection(long, x1, b)
           x3 == AndDirection(long, x2, c)
           g  == [n \in 0 .. 3 |->
                    IF n = 0 THEN <<>>
                    ELSE IF n = 1 THEN x1
                    ELSE IF n = 2 THEN x2 ELSE x3]
           step(f) == [n \in 0 .. Len(ds) |->
                         IF n = 0 THEN <<>> ELSE AndDirection(long, f[n - 1], ds[n])]
           all == CHOOSE f : f = step(f)
<1>1. Len(ds) = 3 /\ ds[1] = a /\ ds[2] = b /\ ds[3] = c
  OBVIOUS
<1>2. \A n \in 0 .. 3 : n = 0 \/ n = 1 \/ n = 2 \/ n = 3
  OBVIOUS
<1>3. 1 - 1 = 0 /\ 2 - 1 = 1 /\ 3 - 1 = 2
  OBVIOUS
<1>4. But(long, <<a, b, c>>) = all[Len(ds)]
  BY Zenon DEF But, all, step, AndDirection
<1> HIDE DEF ds, all, x1, x2, x3
<1>5. g[0] = <<>> /\ g[1] = x1 /\ g[2] = x2 /\ g[3] = x3
  OBVIOUS
<1>6. g = [n \in 0 .. 3 |-> g[n]]
  OBVIOUS
<1> HIDE DEF g
<1>7. \A n \in 0 .. 3 : g[n] = IF n = 0 THEN <<>> ELSE AndDirection(long, g[n - 1], ds[n])
  <2>1. g[0] = IF 0 = 0 THEN <<>> ELSE AndDirection(long, g[0 - 1], ds[0])
    BY <1>1, <1>3, <1>5
  <2>2. g[1] = IF 1 = 0 THEN <<>> ELSE AndDirection(long, g[1 - 1], ds[1])
    BY <1>1, <1>3, <1>5 DEF x1
  <2>3. g[2] = IF 2 = 0 THEN <<>> ELSE AndDirection(long, g[2 - 1], ds[2])
    BY <1>1, <1>3, <1>5 DEF x2
  <2>4. g[3] = IF 3 = 0 THEN <<>> ELSE AndDirection(long, g[3 - 1], ds[3])
    BY <1>1, <1>3, <1>5 DEF x3
  <2> QED BY <1>2, <2>1, <2>2, <2>3, <2>4
<1>8. g = step(g)
  BY <1>1, <1>6, <1>7
<1>9. all = step(all)
  <2>1. \E f : f = step(f)
    BY <1>8
  <2> HIDE DEF step
  <2> QED BY <2>1 DEF all
<1>10. all[0] = <<>> /\ all[1] = x1 /\ all[2] = x2 /\ all[3] = x3
  <2>0. \A n \in 0 .. 3 :
          all[n] = IF n = 0 THEN <<>> ELSE AndDirection(long, all[n - 1], ds[n])
    BY <1>1, <1>9
  <2>1. all[0] = <<>>
    BY <1>1, <1>3, <2>0
  <2>2. all[1] = x1
    BY <1>1, <1>3, <2>0, <2>1 DEF x1
  <2>3. all[2] = x2
    BY <1>1, <1>3, <2>0, <2>2 DEF x2
  <2>4. all[3] = x3
    BY <1>1, <1>3, <2>0, <2>3 DEF x3
  <2> QED BY <2>1, <2>2, <2>3, <2>4
<1> QED BY <1>1, <1>4, <1>10 DEF x1, x2, x3

\* Four.
LEMMA ButFour ==
  ASSUME NEW long, NEW a, NEW b, NEW c, NEW d
  PROVE  But(long, <<a, b, c, d>>) =
           AndDirection(long, AndDirection(long, AndDirection(long, AndDirection(long, <<>>, a), b), c), d)
<1> DEFINE ds == <<a, b, c, d>>
           x1 == AndDirection(long, <<>>, a)
           x2 == AndDirection(long, x1, b)
           x3 == AndDirection(long, x2, c)
           x4 == AndDirection(long, x3, d)
           g  == [n \in 0 .. 4 |->
                    IF n = 0 THEN <<>>
                    ELSE IF n = 1 THEN x1
                    ELSE IF n = 2 THEN x2
                    ELSE IF n = 3 THEN x3 ELSE x4]
           step(f) == [n \in 0 .. Len(ds) |->
                         IF n = 0 THEN <<>> ELSE AndDirection(long, f[n - 1], ds[n])]
           all == CHOOSE f : f = step(f)
<1>1. Len(ds) = 4 /\ ds[1] = a /\ ds[2] = b /\ ds[3] = c /\ ds[4] = d
  OBVIOUS
<1>2. \A n \in 0 .. 4 : n = 0 \/ n = 1 \/ n = 2 \/ n = 3 \/ n = 4
  OBVIOUS
<1>3. 1 - 1 = 0 /\ 2 - 1 = 1 /\ 3 - 1 = 2 /\ 4 - 1 = 3
  OBVIOUS
<1>4. But(long, <<a, b, c, d>>) = all[Len(ds)]
  BY Zenon DEF But, all, step, AndDirection
<1> HIDE DEF ds, all, x1, x2, x3, x4
<1>5. g[0] = <<>> /\ g[1] = x1 /\ g[2] = x2 /\ g[3] = x3 /\ g[4] = x4
  OBVIOUS
<1>6. g = [n \in 0 .. 4 |-> g[n]]
  OBVIOUS
<1> HIDE DEF g
<1>7. \A n \in 0 .. 4 : g[n] = IF n = 0 THEN <<>> ELSE AndDirection(long, g[n - 1], ds[n])
  <2>1. g[0] = IF 0 = 0 THEN <<>> ELSE AndDirection(long, g[0 - 1], ds[0])
    BY <1>1, <1>3, <1>5
  <2>2. g[1] = IF 1 = 0 THEN <<>> ELSE AndDirection(long, g[1 - 1], ds[1])
    BY <1>1, <1>3, <1>5 DEF x1
  <2>3. g[2] = IF 2 = 0 THEN <<>> ELSE AndDirection(long, g[2 - 1], ds[2])
    BY <1>1, <1>3, <1>5 DEF x2
  <2>4. g[3] = IF 3 = 0 THEN <<>> ELSE AndDirection(long, g[3 - 1], ds[3])
    BY <1>1, <1>3, <1>5 DEF x3
  <2>5. g[4] = IF 4 = 0 THEN <<>> ELSE AndDirection(long, g[4 - 1], ds[4])
    BY <1>1, <1>3, <1>5 DEF x4
  <2> QED BY <1>2, <2>1, <2>2, <2>3, <2>4, <2>5
<1>8. g = step(g)
  BY <1>1, <1>6, <1>7
<1>9. all = step(all)
  <2>1. \E f : f = step(f)
    BY <1>8
  <2> HIDE DEF step
  <2> QED BY <2>1 DEF all
<1>10. all[0] = <<>> /\ all[1] = x1 /\ all[2] = x2 /\ all[3] = x3 /\ all[4] = x4
  <2>0. \A n \in 0 .. 4 :
          all[n] = IF n = 0 THEN <<>> ELSE AndDirection(long, all[n - 1], ds[n])
    BY <1>1, <1>9
  <2>1. all[0] = <<>>
    BY <1>1, <1>3, <2>0
  <2>2. all[1] = x1
    BY <1>1, <1>3, <2>0, <2>1 DEF x1
  <2>3. all[2] = x2
    BY <1>1, <1>3, <2>0, <2>2 DEF x2
  <2>4. all[3] = x3
    BY <1>1, <1>3, <2>0, <2>3 DEF x3
  <2>5. all[4] = x4
    BY <1>1, <1>3, <2>0, <2>4 DEF x4
  <2> QED BY <2>1, <2>2, <2>3, <2>4, <2>5
<1> QED BY <1>1, <1>4, <1>10 DEF x1, x2, x3, x4

\* Three loops,
LEMMA PointsThree ==
  ASSUME NEW a, NEW b, NEW c
  PROVE  Points(<<a, b, c>>) =
           AndLoop(AndLoop(AndLoop({<<0, 0>>}, a), b), c)
<1> DEFINE ds == <<a, b, c>>
           x1 == AndLoop({<<0, 0>>}, a)
           x2 == AndLoop(x1, b)
           x3 == AndLoop(x2, c)
           g  == [n \in 0 .. 3 |->
                    IF n = 0 THEN {<<0, 0>>}
                    ELSE IF n = 1 THEN x1
                    ELSE IF n = 2 THEN x2 ELSE x3]
           step(f) == [n \in 0 .. Len(ds) |->
                         IF n = 0 THEN {<<0, 0>>} ELSE AndLoop(f[n - 1], ds[n])]
           all == CHOOSE f : f = step(f)
<1>1. Len(ds) = 3 /\ ds[1] = a /\ ds[2] = b /\ ds[3] = c
  OBVIOUS
<1>2. \A n \in 0 .. 3 : n = 0 \/ n = 1 \/ n = 2 \/ n = 3
  OBVIOUS
<1>3. 1 - 1 = 0 /\ 2 - 1 = 1 /\ 3 - 1 = 2
  OBVIOUS
<1>4. Points(<<a, b, c>>) = all[Len(ds)]
  BY Zenon DEF Points, all, step
<1> HIDE DEF ds, all, x1, x2, x3
<1>5. g[0] = {<<0, 0>>} /\ g[1] = x1 /\ g[2] = x2 /\ g[3] = x3
  OBVIOUS
<1>6. g = [n \in 0 .. 3 |-> g[n]]
  OBVIOUS
<1> HIDE DEF g
<1>7. \A n \in 0 .. 3 : g[n] = IF n = 0 THEN {<<0, 0>>} ELSE AndLoop(g[n - 1], ds[n])
  <2>1. g[0] = IF 0 = 0 THEN {<<0, 0>>} ELSE AndLoop(g[0 - 1], ds[0])
    BY <1>1, <1>3, <1>5
  <2>2. g[1] = IF 1 = 0 THEN {<<0, 0>>} ELSE AndLoop(g[1 - 1], ds[1])
    BY <1>1, <1>3, <1>5 DEF x1
  <2>3. g[2] = IF 2 = 0 THEN {<<0, 0>>} ELSE AndLoop(g[2 - 1], ds[2])
    BY <1>1, <1>3, <1>5 DEF x2
  <2>4. g[3] = IF 3 = 0 THEN {<<0, 0>>} ELSE AndLoop(g[3 - 1], ds[3])
    BY <1>1, <1>3, <1>5 DEF x3
  <2> QED BY <1>2, <2>1, <2>2, <2>3, <2>4
<1>8. g = step(g)
  BY <1>1, <1>6, <1>7
<1>9. all = step(all)
  <2>1. \E f : f = step(f)
    BY <1>8
  <2> HIDE DEF step
  <2> QED BY <2>1 DEF all
<1>10. all[0] = {<<0, 0>>} /\ all[1] = x1 /\ all[2] = x2 /\ all[3] = x3
  <2>0. \A n \in 0 .. 3 :
          all[n] = IF n = 0 THEN {<<0, 0>>} ELSE AndLoop(all[n - 1], ds[n])
    BY <1>1, <1>9
  <2>1. all[0] = {<<0, 0>>}
    BY <1>1, <1>3, <2>0
  <2>2. all[1] = x1
    BY <1>1, <1>3, <2>0, <2>1 DEF x1
  <2>3. all[2] = x2
    BY <1>1, <1>3, <2>0, <2>2 DEF x2
  <2>4. all[3] = x3
    BY <1>1, <1>3, <2>0, <2>3 DEF x3
  <2> QED BY <2>1, <2>2, <2>3, <2>4
<1> QED BY <1>1, <1>4, <1>10 DEF x1, x2, x3

\* and five.
LEMMA PointsFive ==
  ASSUME NEW a, NEW b, NEW c, NEW d, NEW e
  PROVE  Points(<<a, b, c, d, e>>) =
           AndLoop(AndLoop(AndLoop(AndLoop(AndLoop({<<0, 0>>}, a), b), c), d), e)
<1> DEFINE ds == <<a, b, c, d, e>>
           x1 == AndLoop({<<0, 0>>}, a)
           x2 == AndLoop(x1, b)
           x3 == AndLoop(x2, c)
           x4 == AndLoop(x3, d)
           x5 == AndLoop(x4, e)
           g  == [n \in 0 .. 5 |->
                    IF n = 0 THEN {<<0, 0>>}
                    ELSE IF n = 1 THEN x1
                    ELSE IF n = 2 THEN x2
                    ELSE IF n = 3 THEN x3
                    ELSE IF n = 4 THEN x4 ELSE x5]
           step(f) == [n \in 0 .. Len(ds) |->
                         IF n = 0 THEN {<<0, 0>>} ELSE AndLoop(f[n - 1], ds[n])]
           all == CHOOSE f : f = step(f)
<1>1. Len(ds) = 5 /\ ds[1] = a /\ ds[2] = b /\ ds[3] = c /\ ds[4] = d /\ ds[5] = e
  OBVIOUS
<1>2. \A n \in 0 .. 5 : n = 0 \/ n = 1 \/ n = 2 \/ n = 3 \/ n = 4 \/ n = 5
  OBVIOUS
<1>3. 1 - 1 = 0 /\ 2 - 1 = 1 /\ 3 - 1 = 2 /\ 4 - 1 = 3 /\ 5 - 1 = 4
  OBVIOUS
<1>4. Points(<<a, b, c, d, e>>) = all[Len(ds)]
  BY Zenon DEF Points, all, step
<1> HIDE DEF ds, all, x1, x2, x3, x4, x5
<1>5. g[0] = {<<0, 0>>} /\ g[1] = x1 /\ g[2] = x2 /\ g[3] = x3 /\ g[4] = x4 /\ g[5] = x5
  OBVIOUS
<1>6. g = [n \in 0 .. 5 |-> g[n]]
  OBVIOUS
<1> HIDE DEF g
<1>7. \A n \in 0 .. 5 : g[n] = IF n = 0 THEN {<<0, 0>>} ELSE AndLoop(g[n - 1], ds[n])
  <2>1. g[0] = IF 0 = 0 THEN {<<0, 0>>} ELSE AndLoop(g[0 - 1], ds[0])
    BY <1>1, <1>3, <1>5
  <2>2. g[1] = IF 1 = 0 THEN {<<0, 0>>} ELSE AndLoop(g[1 - 1], ds[1])
    BY <1>1, <1>3, <1>5 DEF x1
  <2>3. g[2] = IF 2 = 0 THEN {<<0, 0>>} ELSE AndLoop(g[2 - 1], ds[2])
    BY <1>1, <1>3, <1>5 DEF x2
  <2>4. g[3] = IF 3 = 0 THEN {<<0, 0>>} ELSE AndLoop(g[3 - 1], ds[3])
    BY <1>1, <1>3, <1>5 DEF x3
  <2>5. g[4] = IF 4 = 0 THEN {<<0, 0>>} ELSE AndLoop(g[4 - 1], ds[4])
    BY <1>1, <1>3, <1>5 DEF x4
  <2>6. g[5] = IF 5 = 0 THEN {<<0, 0>>} ELSE AndLoop(g[5 - 1], ds[5])
    BY <1>1, <1>3, <1>5 DEF x5
  <2> QED BY <1>2, <2>1, <2>2, <2>3, <2>4, <2>5, <2>6
<1>8. g = step(g)
  BY <1>1, <1>6, <1>7
<1>9. all = step(all)
  <2>1. \E f : f = step(f)
    BY <1>8
  <2> HIDE DEF step
  <2> QED BY <2>1 DEF all
<1>10. all[0] = {<<0, 0>>} /\ all[1] = x1 /\ all[2] = x2 /\ all[3] = x3 /\ all[4] = x4 /\ all[5] = x5
  <2>0. \A n \in 0 .. 5 :
          all[n] = IF n = 0 THEN {<<0, 0>>} ELSE AndLoop(all[n - 1], ds[n])
    BY <1>1, <1>9
  <2>1. all[0] = {<<0, 0>>}
    BY <1>1, <1>3, <2>0
  <2>2. all[1] = x1
    BY <1>1, <1>3, <2>0, <2>1 DEF x1
  <2>3. all[2] = x2
    BY <1>1, <1>3, <2>0, <2>2 DEF x2
  <2>4. all[3] = x3
    BY <1>1, <1>3, <2>0, <2>3 DEF x3
  <2>5. all[4] = x4
    BY <1>1, <1>3, <2>0, <2>4 DEF x4
  <2>6. all[5] = x5
    BY <1>1, <1>3, <2>0, <2>5 DEF x5
  <2> QED BY <2>1, <2>2, <2>3, <2>4, <2>5, <2>6
<1> QED BY <1>1, <1>4, <1>10 DEF x1, x2, x3, x4, x5

---------------------------------------------------------------------------
(* The layouts that there are.                                             *)

\* What Contiguous makes of four or five indices.
LEMMA ContiguousIs ==
  ASSUME NEW e, NEW o, o = e.order, NEW n \in {4, 5}, Len(o) = n, DOMAIN o = 1 .. n,
         \A j, k \in 1 .. n : o[j] = o[k] => j = k,
         \A k \in 1 .. n : o[k] \in DOMAIN e.stride
  PROVE  \E st : /\ Contiguous(e) = [e EXCEPT !.stride = st]
                 /\ st = [d \in DOMAIN e.stride |-> st[d]]
                 /\ st[o[1]] = 1
                 /\ st[o[2]] = st[o[1]] * e.size[o[1]]
                 /\ st[o[3]] = st[o[2]] * e.size[o[2]]
                 /\ st[o[4]] = st[o[3]] * e.size[o[3]]
                 /\ n = 5 => st[o[5]] = st[o[4]] * e.size[o[4]]
<1> DEFINE x2 == 1 * e.size[o[1]]
           x3 == x2 * e.size[o[2]]
           x4 == x3 * e.size[o[3]]
           x5 == x4 * e.size[o[4]]
           g  == [k \in 1 .. n |-> IF k = 1 THEN 1 ELSE IF k = 2 THEN x2
                                   ELSE IF k = 3 THEN x3 ELSE IF k = 4 THEN x4 ELSE x5]
           next(f) == [k \in 1 .. Len(e.order) |->
                         IF k = 1 THEN 1 ELSE f[k - 1] * e.size[e.order[k - 1]]]
           step == CHOOSE f : f = next(f)
           place(d) == CHOOSE k \in DOMAIN e.order : e.order[k] = d
           st   == [d \in DOMAIN e.stride |-> step[place(d)]]
<1>1. \A k \in 1 .. n : k = 1 \/ k = 2 \/ k = 3 \/ k = 4 \/ (n = 5 /\ k = 5)
  OBVIOUS
<1>2. 2 - 1 = 1 /\ 3 - 1 = 2 /\ 4 - 1 = 3 /\ 5 - 1 = 4
  OBVIOUS
<1>3. Contiguous(e) = [e EXCEPT !.stride = st]
  BY Zenon DEF Contiguous, st, step, next, place
<1> HIDE DEF x2, x3, x4, x5
<1>4. /\ g[1] = 1 /\ g[2] = x2 /\ g[3] = x3 /\ g[4] = x4 /\ (n = 5 => g[5] = x5)
      /\ g = [k \in 1 .. n |-> g[k]]
  OBVIOUS
<1> HIDE DEF g
<1>5. \A k \in 1 .. n : g[k] = IF k = 1 THEN 1 ELSE g[k - 1] * e.size[o[k - 1]]
  <2>1. g[1] = 1 /\ g[2] = g[2 - 1] * e.size[o[2 - 1]]
    BY <1>2, <1>4 DEF x2
  <2>2. g[3] = g[3 - 1] * e.size[o[3 - 1]]
    BY <1>2, <1>4 DEF x3
  <2>3. g[4] = g[4 - 1] * e.size[o[4 - 1]]
    BY <1>2, <1>4 DEF x4
  <2>4. n = 5 => g[5] = g[5 - 1] * e.size[o[5 - 1]]
    BY <1>2, <1>4 DEF x5
  <2> QED BY <1>1, <2>1, <2>2, <2>3, <2>4
<1>6. g = next(g)
  BY <1>4, <1>5
<1>7. step = next(step)
  <2>1. \E f : f = next(f)
    BY <1>6
  <2> HIDE DEF next
  <2> QED BY <2>1
<1> HIDE DEF step
<1>8. \A k \in 1 .. n : step[k] = IF k = 1 THEN 1 ELSE step[k - 1] * e.size[o[k - 1]]
  BY <1>7
<1>9. \A k \in 1 .. n : place(o[k]) = k
  OBVIOUS
<1> HIDE DEF place
<1>10. \A k \in 1 .. n : st[o[k]] = step[k]
  BY <1>9
<1>11. st = [d \in DOMAIN e.stride |-> st[d]]
  OBVIOUS
<1> HIDE DEF st
<1>12. /\ 1 \in 1 .. n /\ 2 \in 1 .. n /\ 3 \in 1 .. n /\ 4 \in 1 .. n
       /\ n = 5 => 5 \in 1 .. n
  OBVIOUS
<1>13. /\ step[1] = 1 /\ step[2] = step[1] * e.size[o[1]] /\ step[3] = step[2] * e.size[o[2]]
       /\ step[4] = step[3] * e.size[o[3]]
       /\ n = 5 => step[5] = step[4] * e.size[o[4]]
  BY <1>2, <1>8, <1>12
<1>14. /\ st[o[1]] = 1
       /\ st[o[2]] = st[o[1]] * e.size[o[1]]
       /\ st[o[3]] = st[o[2]] * e.size[o[2]]
       /\ st[o[4]] = st[o[3]] * e.size[o[3]]
       /\ n = 5 => st[o[5]] = st[o[4]] * e.size[o[4]]
  BY <1>10, <1>12, <1>13
<1> QED BY <1>3, <1>11, <1>14

\* The three directions in some order.
Turns == {o \in Directions \X Directions \X Directions :
            o[1] # o[2] /\ o[1] # o[3] /\ o[2] # o[3]}

\* What there is to transform.
Fit(c) == c \in Cases /\ Proper(c)

Count(c, d) == Size(c.prob, c.rank, c.long, d)

\* A pencil stored in the order 3, o[1], o[2], o[3].
Turned(c, o) ==
  [start  |-> [d \in Indices |-> Start(c.prob, c.rank, c.long, d)],
   size   |-> [d \in Indices |-> Count(c, d)],
   stride |-> [d \in Indices |->
                 IF d = 3 THEN 1
                 ELSE IF d = o[1] THEN Count(c, 3)
                 ELSE IF d = o[2] THEN Count(c, 3) * Count(c, o[1])
                 ELSE Count(c, 3) * Count(c, o[1]) * Count(c, o[2])],
   order  |-> <<3, o[1], o[2], o[3]>>]

\* Its complex fields.
Half(c) == c.prob.howmany \div 2

ComplexOf(c, o) ==
  [start  |-> [d \in Parts |-> IF d = 4 THEN 0 ELSE Start(c.prob, c.rank, c.long, d)],
   size   |-> [d \in Parts |-> IF d = 4 THEN 2 ELSE IF d = 3 THEN Half(c) ELSE Count(c, d)],
   stride |-> [d \in Parts |-> IF d = 4 THEN 1 ELSE IF d = 3 THEN 2 ELSE Turned(c, o).stride[d]],
   order  |-> <<4, 3, o[1], o[2], o[3]>>]

\* Its real fields, with padding or without.
Line(c, packed) ==
  IF packed THEN Half(c) * RealLength(Count(c, c.long)) ELSE Count(c, 3) * Count(c, c.long)

RealOf(c, o, packed) ==
  [start  |-> [d \in Parts |-> IF d = 4 THEN 0 ELSE Start(c.prob, c.rank, c.long, d)],
   size   |-> [d \in Parts |-> IF d = 4 THEN 1 ELSE IF d = 3 THEN Half(c)
                               ELSE IF d = c.long THEN RealLength(Count(c, d)) ELSE Count(c, d)],
   stride |-> [d \in Parts |-> IF d \in {3, 4} THEN 1 ELSE IF d = c.long THEN Half(c)
                               ELSE IF d = o[2] THEN Line(c, packed)
                               ELSE Line(c, packed) * Count(c, o[2])],
   order  |-> <<4, 3, o[1], o[2], o[3]>>]

\* Counts are numbers, and there are as many values on a line as the field has.
LEMMA CountIs ==
  ASSUME NEW c, Fit(c)
  PROVE  /\ \A d \in Indices : Count(c, d) \in Nat
         /\ Count(c, c.long) \in Nat \ {0}
         /\ Half(c) \in Nat /\ Count(c, 3) = 2 * Half(c)
         /\ c.prob \in WellFormed /\ c.rank \in Ranks(c.prob) /\ c.long \in Directions
         /\ Start(c.prob, c.rank, c.long, c.long) = 0
<1>1. /\ c.prob \in WellFormed /\ c.rank \in Ranks(c.prob) /\ c.long \in Directions
      /\ c.prob.howmany % 2 = 0
  BY CasesAssumption DEF Fit, Proper, Case
<1>2. \A d \in Indices : Count(c, d) \in Nat
  BY <1>1, SizeType DEF Count
<1>3. c.prob.howmany \in Nat /\ c.prob.n[c.long] \in Nat \ {0}
  BY <1>1 DEF WellFormed
<1>4. c.long # 3 /\ 3 \in Indices /\ c.long \in Indices
  BY <1>1 DEF Directions, Indices
<1>5. Count(c, 3) = c.prob.howmany
  BY <1>4 DEF Count, Size, SplitOverB
<1>6. ~SplitOverB(c.long, c.long)
  BY <1>1 DEF SplitOverB, Directions
<1>7. Count(c, c.long) = c.prob.n[c.long]
  BY <1>4, <1>6 DEF Count, Size
<1>8. Start(c.prob, c.rank, c.long, c.long) = 0
  BY <1>6 DEF Start
<1>9. Half(c) \in Nat /\ c.prob.howmany = 2 * Half(c)
  <2>1. PICK h \in Nat : h = c.prob.howmany
    BY <1>3
  <2>2. h \div 2 \in Nat /\ h = 2 * (h \div 2)
    BY <1>1, <2>1
  <2> QED BY <2>1, <2>2 DEF Half
<1> QED BY <1>1, <1>2, <1>3, <1>5, <1>7, <1>8, <1>9

\* The pencil of a proper case.
LEMMA PencilTurned ==
  ASSUME NEW c, Fit(c)
  PROVE  \E o \in Turns : LocalExtents(c) = Turned(c, o)
<1>1. c.long \in Directions /\ ~c.noProblem /\ c.prob \in WellFormed
  BY CountIs DEF Fit, Proper
<1>2. PICK q : q = Order(c.prob, c.long)
  OBVIOUS
<1>3. \/ q = <<3, 1, 0, 2>> \/ q = <<3, 2, 1, 0>> \/ q = <<3, 0, 2, 1>>
  <2>1. c.long = 0 \/ c.long = 1 \/ c.long = 2
    BY <1>1 DEF Directions
  <2> QED BY <1>2, <2>1 DEF Order
<1> DEFINE o == <<q[2], q[3], q[4]>>
<1>4. o \in Turns /\ q = <<3, o[1], o[2], o[3]>>
  BY <1>3 DEF Turns, Directions
<1>5. q[1] = 3 /\ q[2] = o[1] /\ q[3] = o[2] /\ q[4] = o[3]
  BY <1>4
<1>6. o[1] # 3 /\ o[2] # 3 /\ o[3] # 3 /\ o[1] # o[2] /\ o[1] # o[3] /\ o[2] # o[3]
      /\ \A d \in Indices : d = 3 \/ d = o[1] \/ d = o[2] \/ d = o[3]
  BY <1>3 DEF Indices
<1> HIDE DEF o
<1>7. ASSUME NEW d \in Indices
      PROVE  Stride(c.prob, c.rank, c.long, d) = Turned(c, o).stride[d]
  <2>1. /\ Stride(c.prob, c.rank, c.long, 3) = 1
        /\ Stride(c.prob, c.rank, c.long, o[1]) = Count(c, 3)
        /\ Stride(c.prob, c.rank, c.long, o[2]) = Count(c, 3) * Count(c, o[1])
        /\ Stride(c.prob, c.rank, c.long, o[3]) = Count(c, 3) * Count(c, o[1]) * Count(c, o[2])
    BY <1>2, <1>5, <1>6 DEF Stride, Count
  <2>2. Turned(c, o).stride[d] =
          IF d = 3 THEN 1
          ELSE IF d = o[1] THEN Count(c, 3)
          ELSE IF d = o[2] THEN Count(c, 3) * Count(c, o[1])
          ELSE Count(c, 3) * Count(c, o[1]) * Count(c, o[2])
    BY DEF Turned
  <2> QED BY <1>6, <2>1, <2>2
<1>8. LocalExtents(c) = [start  |-> [d \in Indices |-> Start(c.prob, c.rank, c.long, d)],
                         size   |-> [d \in Indices |-> Count(c, d)],
                         stride |-> [d \in Indices |-> Stride(c.prob, c.rank, c.long, d)],
                         order  |-> q]
  BY <1>1, <1>2 DEF LocalExtents, Count
<1>9. [d \in Indices |-> Stride(c.prob, c.rank, c.long, d)] = Turned(c, o).stride
  <2>1. Turned(c, o).stride = [d \in Indices |-> Turned(c, o).stride[d]]
    BY DEF Turned
  <2> QED BY <1>7, <2>1
<1>10. LocalExtents(c) = Turned(c, o)
  BY <1>4, <1>8, <1>9 DEF Turned
<1> QED BY <1>4, <1>10

---------------------------------------------------------------------------
(* The inductive invariant.                                                *)

\* The pencil with its indices listed in the order r, as Rotate leaves it.
Listed(c, o, r) == [Turned(c, o) EXCEPT !.order = <<3, r[1], r[2], r[3]>>]

\* The layouts that plans of a kind are made from.
Sides(c, kind, input, output) ==
  \E s, t \in Turns :
    \/ /\ kind \in Complex
       /\ input = ComplexOf(c, s) /\ output = ComplexOf(c, t)
       /\ c.long \in {s[1], t[1]}
    \/ /\ kind = "r2c_forward"
       /\ s[1] = c.long
       /\ \E packed \in BOOLEAN : input = RealOf(c, s, packed)
       /\ output = ComplexOf(c, t)
    \/ /\ kind = "c2r_backward"
       /\ t[1] = c.long
       /\ input = ComplexOf(c, s)
       /\ \E packed \in BOOLEAN : output = RealOf(c, t, packed)

IsPlan(c, p) ==
  /\ Fit(c)
  /\ p.kind \in Kinds /\ p.inPlace \in BOOLEAN
  /\ p = PlanFor(p.kind, c.long, p.input, p.output, p.inPlace)
  /\ Sides(c, p.kind, p.input, p.output)

\* A creation under way, of a request that is fit and of one that is not.
FitMaking(c, m) ==
  \E o, r \in Turns :
    /\ m.first = ComplexOf(c, o)
    /\ m.e = Listed(c, o, r)
    /\ m.rotated \/ r = o
    /\ m.adjusted # Nowhere =>
         \E t \in Turns :
           /\ t[1] = c.long
           /\ \/ m.kind \in Complex /\ m.adjusted = ComplexOf(c, t)
              \/ /\ m.kind \notin Complex
                 /\ \E packed \in BOOLEAN : m.adjusted = RealOf(c, t, packed)

UnfitMaking(c, m) ==
  /\ m.first = InvalidLayout
  /\ \E q : m.e = [LocalExtents(c) EXCEPT !.order = q] /\ q[1] = LocalExtents(c).order[1]
  /\ m.adjusted # Nowhere => m.adjusted = InvalidLayout

MakingOk(c, m) ==
  /\ m = [kind |-> m.kind, in |-> m.in, out |-> m.out, packed |-> m.packed,
          first |-> m.first, e |-> m.e, rotated |-> m.rotated, adjusted |-> m.adjusted]
  /\ m.kind \in Kinds
  /\ m.packed \in BOOLEAN /\ m.rotated \in BOOLEAN
  /\ Fit(c) => FitMaking(c, m)
  /\ ~Fit(c) => UnfitMaking(c, m)

AtOk(c, x) ==
  /\ x = [buf |-> x.buf, layout |-> x.layout, space |-> x.space, by |-> x.by]
  /\ x.buf \in Buffers
  /\ x.by \in Seq({x.by[k] : k \in DOMAIN x.by})
  /\ Len(x.by) <= MaxExecuted
  /\ x.space \in -Len(x.by) .. Len(x.by)
  /\ x.by # <<>> => x.layout = x.by[Len(x.by)].output
  /\ \A k \in DOMAIN x.by : IsPlan(c, x.by[k])

IInv ==
  /\ case \in Cases
  /\ status \in {"running", "aborted", "crashed"}
  /\ making # Nowhere => MakingOk(case, making)
  /\ \A p \in plans : IsPlan(case, p)
  /\ DOMAIN buf = Buffers
  /\ at # Nowhere => AtOk(case, at)

---------------------------------------------------------------------------
(* What the functions on layouts yield.                                    *)

\* Three different directions are all of them.
LEMMA TurnIs ==
  ASSUME NEW o \in Turns
  PROVE  /\ o[1] \in Directions /\ o[2] \in Directions /\ o[3] \in Directions
         /\ o[1] # o[2] /\ o[1] # o[3] /\ o[2] # o[3]
         /\ o[1] # 3 /\ o[2] # 3 /\ o[3] # 3 /\ o[1] # 4 /\ o[2] # 4 /\ o[3] # 4
         /\ \A d \in Directions : d = o[1] \/ d = o[2] \/ d = o[3]
         /\ \A d \in Indices : d = 3 \/ d = o[1] \/ d = o[2] \/ d = o[3]
         /\ \A d \in Parts : d = 4 \/ d = 3 \/ d = o[1] \/ d = o[2] \/ d = o[3]
         /\ o[1] \in Indices /\ o[2] \in Indices /\ o[3] \in Indices
         /\ o[1] \in Parts /\ o[2] \in Parts /\ o[3] \in Parts
<1>1. PICK a \in Directions, b \in Directions, d \in Directions :
        a = o[1] /\ b = o[2] /\ d = o[3] /\ a # b /\ a # d /\ b # d
  BY DEF Turns
<1>2. a \in 0 .. 2 /\ b \in 0 .. 2 /\ d \in 0 .. 2
  BY DEF Directions
<1>3. \A x \in 0 .. 2 : x = a \/ x = b \/ x = d
  BY <1>1, <1>2
<1>4. /\ \A x \in 0 .. 3 : x = 3 \/ x \in 0 .. 2
      /\ \A x \in 0 .. 4 : x = 4 \/ x = 3 \/ x \in 0 .. 2
      /\ \A x \in 0 .. 2 : x # 3 /\ x # 4 /\ x \in 0 .. 3 /\ x \in 0 .. 4
  OBVIOUS
<1> QED BY <1>1, <1>2, <1>3, <1>4 DEF Directions, Indices, Parts

\* The strides of a pencil, in its order.
LEMMA TurnedStrides ==
  ASSUME NEW c, NEW o \in Turns
  PROVE  /\ Turned(c, o).stride[3] = 1
         /\ Turned(c, o).stride[o[1]] = Count(c, 3)
         /\ Turned(c, o).stride[o[2]] = Count(c, 3) * Count(c, o[1])
         /\ Turned(c, o).stride[o[3]] = Count(c, 3) * Count(c, o[1]) * Count(c, o[2])
<1>1. /\ o[1] # 3 /\ o[2] # 3 /\ o[3] # 3 /\ o[1] # o[2] /\ o[1] # o[3] /\ o[2] # o[3]
      /\ o[1] \in Indices /\ o[2] \in Indices /\ o[3] \in Indices /\ 3 \in Indices
  BY TurnIs DEF Indices
<1>2. Turned(c, o).stride =
        [d \in Indices |->
           IF d = 3 THEN 1
           ELSE IF d = o[1] THEN Count(c, 3)
           ELSE IF d = o[2] THEN Count(c, 3) * Count(c, o[1])
           ELSE Count(c, 3) * Count(c, o[1]) * Count(c, o[2])]
  BY DEF Turned
<1> QED BY <1>1, <1>2

\* Strides without gaps follow from the order: whatever order the pencil had.
LEMMA ContiguousListed ==
  ASSUME NEW c, Fit(c), NEW o \in Turns, NEW r \in Turns
  PROVE  Contiguous(Listed(c, o, r)) = Turned(c, r)
<1>1. PICK e : e = Listed(c, o, r)
  OBVIOUS
<1>2. e = [start  |-> [d \in Indices |-> Start(c.prob, c.rank, c.long, d)],
           size   |-> [d \in Indices |-> Count(c, d)],
           stride |-> Turned(c, o).stride,
           order  |-> <<3, r[1], r[2], r[3]>>]
  BY <1>1 DEF Listed, Turned
<1>3. PICK q : q = <<3, r[1], r[2], r[3]>>
  OBVIOUS
<1>4. Len(q) = 4 /\ DOMAIN q = 1 .. 4 /\ q[1] = 3 /\ q[2] = r[1] /\ q[3] = r[2] /\ q[4] = r[3]
  BY <1>3
<1>5. /\ r[1] # 3 /\ r[2] # 3 /\ r[3] # 3 /\ r[1] # r[2] /\ r[1] # r[3] /\ r[2] # r[3]
      /\ r[1] \in Indices /\ r[2] \in Indices /\ r[3] \in Indices /\ 3 \in Indices
      /\ \A d \in Indices : d = 3 \/ d = r[1] \/ d = r[2] \/ d = r[3]
  BY TurnIs DEF Indices
<1>6. DOMAIN e.stride = Indices /\ q = e.order
  BY <1>2, <1>3 DEF Turned
<1>7. \A k \in 1 .. 4 : k = 1 \/ k = 2 \/ k = 3 \/ k = 4
  OBVIOUS
<1>8. \A j, k \in 1 .. 4 : q[j] = q[k] => j = k
  BY <1>4, <1>5, <1>7
<1>9. \A k \in 1 .. 4 : q[k] \in DOMAIN e.stride
  BY <1>4, <1>5, <1>6, <1>7
<1>10. PICK st : /\ Contiguous(e) = [e EXCEPT !.stride = st]
                 /\ st = [d \in DOMAIN e.stride |-> st[d]]
                 /\ st[q[1]] = 1
                 /\ st[q[2]] = st[q[1]] * e.size[q[1]]
                 /\ st[q[3]] = st[q[2]] * e.size[q[2]]
                 /\ st[q[4]] = st[q[3]] * e.size[q[3]]
  <2>1. 4 \in {4, 5}
    OBVIOUS
  <2> QED BY <2>1, <1>4, <1>6, <1>8, <1>9, ContiguousIs
<1>11. Count(c, 3) \in Nat /\ Count(c, r[1]) \in Nat /\ Count(c, r[2]) \in Nat
  BY <1>5, CountIs
<1>12. e.size[3] = Count(c, 3) /\ e.size[r[1]] = Count(c, r[1]) /\ e.size[r[2]] = Count(c, r[2])
  BY <1>2, <1>5
<1>13. /\ st[3] = 1
       /\ st[r[1]] = Count(c, 3)
       /\ st[r[2]] = Count(c, 3) * Count(c, r[1])
       /\ st[r[3]] = Count(c, 3) * Count(c, r[1]) * Count(c, r[2])
  BY <1>4, <1>10, <1>11, <1>12
<1>14. \A d \in Indices : st[d] = Turned(c, r).stride[d]
  BY <1>5, <1>13, TurnedStrides
<1>15. st = Turned(c, r).stride
  <2>1. Turned(c, r).stride = [d \in Indices |-> Turned(c, r).stride[d]]
    BY DEF Turned
  <2> QED BY <1>6, <1>10, <1>14, <2>1
<1>16. Turned(c, r) = [start  |-> [d \in Indices |-> Start(c.prob, c.rank, c.long, d)],
                       size   |-> [d \in Indices |-> Count(c, d)],
                       stride |-> Turned(c, r).stride,
                       order  |-> <<3, r[1], r[2], r[3]>>]
  BY DEF Turned
<1>17. Contiguous(e) = [start  |-> [d \in Indices |-> Start(c.prob, c.rank, c.long, d)],
                        size   |-> [d \in Indices |-> Count(c, d)],
                        stride |-> st,
                        order  |-> <<3, r[1], r[2], r[3]>>]
  BY <1>2, <1>10
<1> QED BY <1>1, <1>15, <1>16, <1>17

\* What lists five indices.
LEMMA FiveIndices ==
  ASSUME NEW o \in Turns, NEW q, q = <<4, 3, o[1], o[2], o[3]>>
  PROVE  /\ Len(q) = 5 /\ DOMAIN q = 1 .. 5
         /\ q[1] = 4 /\ q[2] = 3 /\ q[3] = o[1] /\ q[4] = o[2] /\ q[5] = o[3]
         /\ \A j, k \in 1 .. 5 : q[j] = q[k] => j = k
         /\ \A k \in 1 .. 5 : q[k] \in Parts
         /\ {q[k] : k \in 1 .. 5} = Parts
<1>1. /\ o[1] # 3 /\ o[2] # 3 /\ o[3] # 3 /\ o[1] # o[2] /\ o[1] # o[3] /\ o[2] # o[3]
      /\ o[1] # 4 /\ o[2] # 4 /\ o[3] # 4 /\ 3 # 4
      /\ o[1] \in Parts /\ o[2] \in Parts /\ o[3] \in Parts /\ 3 \in Parts /\ 4 \in Parts
      /\ \A d \in Parts : d = 4 \/ d = 3 \/ d = o[1] \/ d = o[2] \/ d = o[3]
  BY TurnIs DEF Parts
<1>2. Len(q) = 5 /\ DOMAIN q = 1 .. 5
      /\ q[1] = 4 /\ q[2] = 3 /\ q[3] = o[1] /\ q[4] = o[2] /\ q[5] = o[3]
  OBVIOUS
<1>3. \A k \in 1 .. 5 : k = 1 \/ k = 2 \/ k = 3 \/ k = 4 \/ k = 5
  OBVIOUS
<1>4. 1 \in 1 .. 5 /\ 2 \in 1 .. 5 /\ 3 \in 1 .. 5 /\ 4 \in 1 .. 5 /\ 5 \in 1 .. 5
  OBVIOUS
<1>5. \A j, k \in 1 .. 5 : q[j] = q[k] => j = k
  BY <1>1, <1>2, <1>3
<1>6. \A k \in 1 .. 5 : q[k] \in Parts
  BY <1>1, <1>2, <1>3
<1>7. \A d \in Parts : \E k \in 1 .. 5 : q[k] = d
  BY <1>1, <1>2, <1>4
<1> QED BY <1>2, <1>5, <1>6, <1>7

\* Complex fields are without gaps to begin with.
LEMMA ContiguousComplex ==
  ASSUME NEW c, Fit(c), NEW o \in Turns
  PROVE  Contiguous(ComplexOf(c, o)) = ComplexOf(c, o)
<1>1. PICK e : e = ComplexOf(c, o)
  OBVIOUS
<1>2. PICK q : q = <<4, 3, o[1], o[2], o[3]>>
  OBVIOUS
<1>3. e = [start |-> e.start, size |-> e.size, stride |-> e.stride, order |-> q]
      /\ e.stride = [d \in Parts |-> e.stride[d]]
  BY <1>1, <1>2 DEF ComplexOf
<1>4. /\ o[1] # 3 /\ o[2] # 3 /\ o[3] # 3
      /\ o[1] # 4 /\ o[2] # 4 /\ o[3] # 4 /\ 3 # 4
      /\ o[1] \in Parts /\ o[2] \in Parts /\ o[3] \in Parts /\ 3 \in Parts /\ 4 \in Parts
      /\ \A d \in Parts : d = 4 \/ d = 3 \/ d = o[1] \/ d = o[2] \/ d = o[3]
      /\ o[1] \in Indices /\ o[2] \in Indices /\ o[3] \in Indices
  BY TurnIs DEF Parts
<1>5. /\ e.size[4] = 2 /\ e.size[3] = Half(c) /\ e.size[o[1]] = Count(c, o[1])
      /\ e.size[o[2]] = Count(c, o[2])
      /\ e.stride[4] = 1 /\ e.stride[3] = 2
      /\ e.stride[o[1]] = Count(c, 3)
      /\ e.stride[o[2]] = Count(c, 3) * Count(c, o[1])
      /\ e.stride[o[3]] = Count(c, 3) * Count(c, o[1]) * Count(c, o[2])
  BY <1>1, <1>4, TurnedStrides DEF ComplexOf
<1>6. PICK st : /\ Contiguous(e) = [e EXCEPT !.stride = st]
                /\ st = [d \in DOMAIN e.stride |-> st[d]]
                /\ st[q[1]] = 1
                /\ st[q[2]] = st[q[1]] * e.size[q[1]]
                /\ st[q[3]] = st[q[2]] * e.size[q[2]]
                /\ st[q[4]] = st[q[3]] * e.size[q[3]]
                /\ st[q[5]] = st[q[4]] * e.size[q[4]]
  <2>1. 5 \in {4, 5}
    OBVIOUS
  <2>2. q = e.order /\ DOMAIN e.stride = Parts
    BY <1>3
  <2>3. /\ Len(q) = 5 /\ DOMAIN q = 1 .. 5
        /\ \A j, k \in 1 .. 5 : q[j] = q[k] => j = k
        /\ \A k \in 1 .. 5 : q[k] \in DOMAIN e.stride
    BY <1>2, <2>2, FiveIndices
  <2> QED BY <2>1, <2>2, <2>3, ContiguousIs
<1>7. q[1] = 4 /\ q[2] = 3 /\ q[3] = o[1] /\ q[4] = o[2] /\ q[5] = o[3]
  BY <1>2
<1>8. Count(c, 3) \in Nat /\ Count(c, o[1]) \in Nat /\ Count(c, o[2]) \in Nat
      /\ Half(c) \in Nat /\ Count(c, 3) = 2 * Half(c)
  <2>1. 3 \in Indices
    BY DEF Indices
  <2> QED BY <1>4, <2>1, CountIs
<1>9. /\ st[4] = 1 /\ st[3] = 2 /\ st[o[1]] = Count(c, 3)
      /\ st[o[2]] = Count(c, 3) * Count(c, o[1])
      /\ st[o[3]] = Count(c, 3) * Count(c, o[1]) * Count(c, o[2])
  BY <1>5, <1>6, <1>7, <1>8
<1>10. st = e.stride
  BY <1>3, <1>4, <1>5, <1>6, <1>9
<1>11. [e EXCEPT !.stride = st] = e
  BY <1>3, <1>10
<1> QED BY <1>1, <1>6, <1>11

\* The strides of real fields.
LEMMA RealStrides ==
  ASSUME NEW c, NEW o \in Turns, o[1] = c.long, NEW packed, NEW e, e = RealOf(c, o, packed)
  PROVE  /\ e.stride[4] = 1 /\ e.stride[3] = 1 /\ e.stride[o[1]] = Half(c)
         /\ e.stride[o[2]] = Line(c, packed)
         /\ e.stride[o[3]] = Line(c, packed) * Count(c, o[2])
         /\ e.size[4] = 1 /\ e.size[3] = Half(c)
         /\ e.size[o[1]] = RealLength(Count(c, o[1]))
         /\ e.size[o[2]] = Count(c, o[2]) /\ e.size[o[3]] = Count(c, o[3])
<1>1. /\ o[1] # 3 /\ o[2] # 3 /\ o[3] # 3 /\ o[1] # o[2] /\ o[1] # o[3] /\ o[2] # o[3]
      /\ o[1] # 4 /\ o[2] # 4 /\ o[3] # 4 /\ 3 # 4
      /\ o[1] \in Parts /\ o[2] \in Parts /\ o[3] \in Parts /\ 3 \in Parts /\ 4 \in Parts
  BY TurnIs DEF Parts
<1> QED BY <1>1 DEF RealOf

\* Packing takes the padding out.
LEMMA ContiguousReal ==
  ASSUME NEW c, Fit(c), NEW o \in Turns, o[1] = c.long, NEW packed
  PROVE  Contiguous(RealOf(c, o, packed)) = RealOf(c, o, TRUE)
<1>1. PICK e : e = RealOf(c, o, packed)
  OBVIOUS
<1>2. PICK f : f = RealOf(c, o, TRUE)
  OBVIOUS
<1>3. PICK q : q = <<4, 3, o[1], o[2], o[3]>>
  OBVIOUS
<1>4. /\ e = [start |-> f.start, size |-> f.size, stride |-> e.stride, order |-> q]
      /\ f = [start |-> f.start, size |-> f.size, stride |-> f.stride, order |-> q]
      /\ e.size = f.size
      /\ e.stride = [d \in Parts |-> e.stride[d]]
      /\ f.stride = [d \in Parts |-> f.stride[d]]
  BY <1>2, <1>1, <1>3 DEF RealOf
<1>5. /\ o[1] \in Indices /\ o[2] \in Indices
      /\ \A d \in Parts : d = 4 \/ d = 3 \/ d = o[1] \/ d = o[2] \/ d = o[3]
  BY TurnIs
<1>6. /\ f.size[4] = 1 /\ f.size[3] = Half(c)
      /\ f.size[o[1]] = RealLength(Count(c, o[1]))
      /\ f.size[o[2]] = Count(c, o[2])
      /\ f.stride[4] = 1 /\ f.stride[3] = 1
      /\ f.stride[o[1]] = Half(c)
      /\ f.stride[o[2]] = Half(c) * RealLength(Count(c, o[1]))
      /\ f.stride[o[3]] = Half(c) * RealLength(Count(c, o[1])) * Count(c, o[2])
  <2>1. Line(c, TRUE) = Half(c) * RealLength(Count(c, o[1]))
    BY DEF Line
  <2>2. /\ f.stride[4] = 1 /\ f.stride[3] = 1 /\ f.stride[o[1]] = Half(c)
        /\ f.stride[o[2]] = Line(c, TRUE)
        /\ f.stride[o[3]] = Line(c, TRUE) * Count(c, o[2])
        /\ f.size[4] = 1 /\ f.size[3] = Half(c)
        /\ f.size[o[1]] = RealLength(Count(c, o[1]))
        /\ f.size[o[2]] = Count(c, o[2])
    <3>1. /\ o[1] # 3 /\ o[2] # 3 /\ o[3] # 3 /\ o[1] # o[2] /\ o[1] # o[3] /\ o[2] # o[3]
          /\ o[1] # 4 /\ o[2] # 4 /\ o[3] # 4 /\ 3 # 4
          /\ o[1] \in Parts /\ o[2] \in Parts /\ o[3] \in Parts /\ 3 \in Parts /\ 4 \in Parts
      BY TurnIs DEF Parts
    <3> QED BY <1>2, <3>1 DEF RealOf
  <2> QED BY <2>1, <2>2
<1>7. PICK st : /\ Contiguous(e) = [e EXCEPT !.stride = st]
                /\ st = [d \in DOMAIN e.stride |-> st[d]]
                /\ st[q[1]] = 1
                /\ st[q[2]] = st[q[1]] * e.size[q[1]]
                /\ st[q[3]] = st[q[2]] * e.size[q[2]]
                /\ st[q[4]] = st[q[3]] * e.size[q[3]]
                /\ st[q[5]] = st[q[4]] * e.size[q[4]]
  <2>1. 5 \in {4, 5}
    OBVIOUS
  <2>2. q = e.order /\ DOMAIN e.stride = Parts
    BY <1>4
  <2>3. /\ Len(q) = 5 /\ DOMAIN q = 1 .. 5
        /\ \A j, k \in 1 .. 5 : q[j] = q[k] => j = k
        /\ \A k \in 1 .. 5 : q[k] \in DOMAIN e.stride
    BY <1>3, <2>2, FiveIndices
  <2> QED BY <2>1, <2>2, <2>3, ContiguousIs
<1>8. q[1] = 4 /\ q[2] = 3 /\ q[3] = o[1] /\ q[4] = o[2] /\ q[5] = o[3]
  BY <1>3
<1>9. /\ Count(c, o[1]) \in Nat /\ Count(c, o[2]) \in Nat /\ Half(c) \in Nat
      /\ RealLength(Count(c, o[1])) \in Int
  <2>1. Count(c, o[1]) \in Nat /\ Count(c, o[2]) \in Nat /\ Half(c) \in Nat
    BY <1>5, CountIs
  <2> QED BY <2>1 DEF RealLength
<1>10. /\ st[4] = 1 /\ st[3] = 1 /\ st[o[1]] = Half(c)
      /\ st[o[2]] = Half(c) * RealLength(Count(c, o[1]))
      /\ st[o[3]] = Half(c) * RealLength(Count(c, o[1])) * Count(c, o[2])
  BY <1>4, <1>6, <1>7, <1>8, <1>9
<1>11. st = f.stride
  BY <1>4, <1>5, <1>6, <1>7, <1>10
<1>12. [e EXCEPT !.stride = st] = f
  BY <1>4, <1>11
<1> QED BY <1>2, <1>1, <1>7, <1>12

\* Appending to short sequences.
LEMMA AppendSecond ==
  ASSUME NEW a, NEW b
  PROVE  Append(<<a>>, b) = <<a, b>>
<1> DEFINE s == <<a>>
<1>1. Append(s, b) = [k \in 1 .. Len(s) + 1 |-> IF k = Len(s) + 1 THEN b ELSE s[k]]
  OBVIOUS
<1>2. Len(s) = 1 /\ 1 + 1 = 2
  OBVIOUS
<1>3. PICK w : w = Append(s, b)
  OBVIOUS
<1>4. w = [k \in 1 .. 2 |-> IF k = 2 THEN b ELSE s[k]]
  BY <1>1, <1>2, <1>3
<1>5. PICK v : v = <<a, b>>
  OBVIOUS
<1>6. v = [k \in 1 .. 2 |-> v[k]] /\ v[1] = a /\ v[2] = b
  BY <1>5
<1>7. \A k \in 1 .. 2 : k = 1 \/ k = 2
  OBVIOUS
<1>8. w[1] = a /\ w[2] = b /\ w = [k \in 1 .. 2 |-> w[k]]
  BY <1>4
<1>9. \A k \in 1 .. 2 : v[k] = w[k]
  BY <1>6, <1>7, <1>8
<1>10. v = w
  BY <1>6, <1>8, <1>9
<1> QED BY <1>3, <1>5, <1>10

\* A third element.
LEMMA AppendThird ==
  ASSUME NEW a, NEW b, NEW c
  PROVE  Append(<<a, b>>, c) = <<a, b, c>>
<1> DEFINE s == <<a, b>>
<1>1. Append(s, c) = [k \in 1 .. Len(s) + 1 |-> IF k = Len(s) + 1 THEN c ELSE s[k]]
  OBVIOUS
<1>2. Len(s) = 2 /\ 2 + 1 = 3
  OBVIOUS
<1>3. PICK w : w = Append(s, c)
  OBVIOUS
<1>4. w = [k \in 1 .. 3 |-> IF k = 3 THEN c ELSE s[k]]
  BY <1>1, <1>2, <1>3
<1>5. PICK v : v = <<a, b, c>>
  OBVIOUS
<1>6. v = [k \in 1 .. 3 |-> v[k]] /\ v[1] = a /\ v[2] = b /\ v[3] = c
  BY <1>5
<1>7. \A k \in 1 .. 3 : k = 1 \/ k = 2 \/ k = 3
  OBVIOUS
<1>8. w[1] = a /\ w[2] = b /\ w[3] = c /\ w = [k \in 1 .. 3 |-> w[k]]
  BY <1>4
<1>9. \A k \in 1 .. 3 : v[k] = w[k]
  BY <1>6, <1>7, <1>8
<1>10. v = w
  BY <1>6, <1>8, <1>9
<1> QED BY <1>3, <1>5, <1>10

\* A fourth element.
LEMMA AppendFourth ==
  ASSUME NEW a, NEW b, NEW c, NEW d
  PROVE  Append(<<a, b, c>>, d) = <<a, b, c, d>>
<1> DEFINE s == <<a, b, c>>
<1>1. Append(s, d) = [k \in 1 .. Len(s) + 1 |-> IF k = Len(s) + 1 THEN d ELSE s[k]]
  OBVIOUS
<1>2. Len(s) = 3 /\ 3 + 1 = 4
  OBVIOUS
<1>3. PICK w : w = Append(s, d)
  OBVIOUS
<1>4. w = [k \in 1 .. 4 |-> IF k = 4 THEN d ELSE s[k]]
  BY <1>1, <1>2, <1>3
<1>5. PICK v : v = <<a, b, c, d>>
  OBVIOUS
<1>6. v = [k \in 1 .. 4 |-> v[k]] /\ v[1] = a /\ v[2] = b /\ v[3] = c /\ v[4] = d
  BY <1>5
<1>7. \A k \in 1 .. 4 : k = 1 \/ k = 2 \/ k = 3 \/ k = 4
  OBVIOUS
<1>8. w[1] = a /\ w[2] = b /\ w[3] = c /\ w[4] = d /\ w = [k \in 1 .. 4 |-> w[k]]
  BY <1>4
<1>9. \A k \in 1 .. 4 : v[k] = w[k]
  BY <1>6, <1>7, <1>8
<1>10. v = w
  BY <1>6, <1>8, <1>9
<1> QED BY <1>3, <1>5, <1>10

\* A first element.
LEMMA AppendFirst == ASSUME NEW a PROVE Append(<<>>, a) = <<a>>
  OBVIOUS

\* One element is put in front of four.
LEMMA Prepended ==
  ASSUME NEW a, NEW b, NEW c, NEW d, NEW e
  PROVE  <<a>> \o <<b, c, d, e>> = <<a, b, c, d, e>>
<1> DEFINE s == <<a>>
           t == <<b, c, d, e>>
<1>1. s \o t = [k \in 1 .. Len(s) + Len(t) |-> IF k <= Len(s) THEN s[k] ELSE t[k - Len(s)]]
  OBVIOUS
<1>2. Len(s) = 1 /\ Len(t) = 4 /\ 1 + 4 = 5
  OBVIOUS
<1>3. PICK w : w = s \o t
  OBVIOUS
<1>4. w = [k \in 1 .. 5 |-> w[k]] /\ \A k \in 1 .. 5 : w[k] = IF k <= 1 THEN s[k] ELSE t[k - 1]
  BY <1>1, <1>2, <1>3
<1>5. w[1] = a /\ w[2] = b /\ w[3] = c /\ w[4] = d /\ w[5] = e
  BY <1>4
<1>6. \A k \in 1 .. 5 : k = 1 \/ k = 2 \/ k = 3 \/ k = 4 \/ k = 5
  OBVIOUS
<1>7. <<a, b, c, d, e>> = [k \in 1 .. 5 |-> <<a, b, c, d, e>>[k]]
  OBVIOUS
<1>8. \A k \in 1 .. 5 : w[k] = <<a, b, c, d, e>>[k]
  BY <1>5, <1>6
<1> QED BY <1>3, <1>4, <1>7, <1>8

\* What takes a complex layout of a pencil that fits.
LEMMA ComplexLayoutIs ==
  ASSUME NEW c, Fit(c), NEW o \in Turns
  PROVE  ComplexLayout(Turned(c, o), c.long) = ComplexOf(c, o)
<1>1. PICK e : e = Turned(c, o)
  OBVIOUS
<1>2. /\ \A d \in Indices : Count(c, d) \in Nat
      /\ Half(c) \in Nat /\ Count(c, 3) = 2 * Half(c)
      /\ c.long \in Directions /\ Start(c.prob, c.rank, c.long, c.long) = 0
  BY CountIs
<1>3. /\ e.start = [d \in Indices |-> Start(c.prob, c.rank, c.long, d)]
      /\ e.size = [d \in Indices |-> Count(c, d)]
      /\ e.stride = Turned(c, o).stride
      /\ e.order = <<3, o[1], o[2], o[3]>>
  BY <1>1 DEF Turned
<1>4. /\ 3 \in Indices /\ c.long \in Indices /\ 3 \in Parts /\ 4 \in Parts /\ 3 # 4
      /\ \A d \in Parts : d # 4 => d \in Indices
  BY <1>2 DEF Indices, Directions, Parts
<1>5. (2 * Half(c)) % 2 = 0 /\ (2 * Half(c)) \div 2 = Half(c)
  <2>1. PICK h \in Nat : h = Half(c)
    BY <1>2
  <2>2. (2 * h) % 2 = 0 /\ (2 * h) \div 2 = h
    OBVIOUS
  <2> QED BY <2>1, <2>2
<1>6. Regular(e, c.long)
  BY <1>2, <1>3, <1>4, <1>5 DEF Regular
<1>7. e.stride[3] = 1
  BY <1>3, TurnedStrides
<1>8. ComplexLayout(e, c.long) =
        [start  |-> WithComponents(e.start, 0),
         size   |-> [WithComponents(e.size, 2) EXCEPT ![3] = @ \div 2],
         stride |-> [WithComponents(e.stride, e.stride[3]) EXCEPT ![3] = 2 * @],
         order  |-> <<4>> \o e.order]
  BY <1>6 DEF ComplexLayout
<1>9. WithComponents(e.start, 0) =
        [d \in Parts |-> IF d = 4 THEN 0 ELSE Start(c.prob, c.rank, c.long, d)]
  BY <1>3, <1>4 DEF WithComponents
<1>10. [WithComponents(e.size, 2) EXCEPT ![3] = @ \div 2] =
         [d \in Parts |-> IF d = 4 THEN 2 ELSE IF d = 3 THEN Half(c) ELSE Count(c, d)]
  <2>1. PICK w : w = WithComponents(e.size, 2)
    OBVIOUS
  <2>2. w = [d \in Parts |-> IF d = 4 THEN 2 ELSE Count(c, d)]
    BY <1>3, <1>4, <2>1 DEF WithComponents
  <2>3. w[3] \div 2 = Half(c)
    BY <1>2, <1>4, <1>5, <2>2
  <2>4. [w EXCEPT ![3] = @ \div 2] = [d \in Parts |-> IF d = 3 THEN Half(c) ELSE w[d]]
    BY <1>4, <2>2, <2>3
  <2>5. [d \in Parts |-> IF d = 3 THEN Half(c) ELSE w[d]] =
          [d \in Parts |-> IF d = 4 THEN 2 ELSE IF d = 3 THEN Half(c) ELSE Count(c, d)]
    BY <1>4, <2>2
  <2> QED BY <2>1, <2>4, <2>5
<1>11. [WithComponents(e.stride, e.stride[3]) EXCEPT ![3] = 2 * @] =
         [d \in Parts |-> IF d = 4 THEN 1 ELSE IF d = 3 THEN 2 ELSE Turned(c, o).stride[d]]
  <2>1. 2 * 1 = 2
    OBVIOUS
  <2> QED BY <1>3, <1>4, <1>7, <2>1 DEF WithComponents
<1>12. <<4>> \o e.order = <<4, 3, o[1], o[2], o[3]>>
  BY <1>3, Prepended
<1> QED BY <1>1, <1>8, <1>9, <1>10, <1>11, <1>12 DEF ComplexOf

\* What takes a real layout of a pencil that is fast in the long direction.
LEMMA RealLayoutIs ==
  ASSUME NEW c, Fit(c), NEW o \in Turns, o[1] = c.long
  PROVE  RealLayout(Turned(c, o), c.long) = RealOf(c, o, FALSE)
<1>1. PICK e : e = Turned(c, o)
  OBVIOUS
<1>2. /\ \A d \in Indices : Count(c, d) \in Nat
      /\ Half(c) \in Nat /\ Count(c, 3) = 2 * Half(c)
      /\ c.long \in Directions /\ Start(c.prob, c.rank, c.long, c.long) = 0
  BY CountIs
<1>3. /\ e.start = [d \in Indices |-> Start(c.prob, c.rank, c.long, d)]
      /\ e.size = [d \in Indices |-> Count(c, d)]
      /\ e.stride = [d \in Indices |-> e.stride[d]]
      /\ e.order = <<3, o[1], o[2], o[3]>>
  BY <1>1 DEF Turned
<1>4. /\ 3 \in Indices /\ c.long \in Indices /\ 3 \in Parts /\ 4 \in Parts /\ 3 # 4
      /\ c.long \in Parts /\ c.long # 3 /\ c.long # 4
      /\ \A d \in Parts : d # 4 => d \in Indices
  BY <1>2 DEF Indices, Directions, Parts
<1>5. (2 * Half(c)) % 2 = 0 /\ (2 * Half(c)) \div 2 = Half(c)
  <2>1. PICK h \in Nat : h = Half(c)
    BY <1>2
  <2>2. (2 * h) % 2 = 0 /\ (2 * h) \div 2 = h
    OBVIOUS
  <2> QED BY <2>1, <2>2
<1>6. Regular(e, c.long)
  BY <1>2, <1>3, <1>4, <1>5 DEF Regular
<1>7. /\ e.stride[3] = 1 /\ e.stride[o[1]] = Count(c, 3)
      /\ e.stride[o[2]] = Count(c, 3) * Count(c, o[1])
      /\ e.stride[o[3]] = Count(c, 3) * Count(c, o[1]) * Count(c, o[2])
  BY <1>1, TurnedStrides
<1>8. RealLayout(e, c.long) =
        [start  |-> WithComponents(e.start, 0),
         size   |-> [WithComponents(e.size, 1) EXCEPT ![c.long] = RealLength(@), ![3] = @ \div 2],
         stride |-> [WithComponents(e.stride, 1) EXCEPT ![c.long] = @ \div 2, ![3] = 1],
         order  |-> <<4>> \o e.order]
  BY <1>3, <1>6 DEF RealLayout
<1>9. WithComponents(e.start, 0) =
        [d \in Parts |-> IF d = 4 THEN 0 ELSE Start(c.prob, c.rank, c.long, d)]
  BY <1>3, <1>4 DEF WithComponents
<1>10. [WithComponents(e.size, 1) EXCEPT ![c.long] = RealLength(@), ![3] = @ \div 2] =
         [d \in Parts |-> IF d = 4 THEN 1 ELSE IF d = 3 THEN Half(c)
                          ELSE IF d = c.long THEN RealLength(Count(c, d)) ELSE Count(c, d)]
  <2>1. PICK w : w = WithComponents(e.size, 1)
    OBVIOUS
  <2>2. w = [d \in Parts |-> IF d = 4 THEN 1 ELSE Count(c, d)]
    BY <1>3, <1>4, <2>1 DEF WithComponents
  <2>3. PICK v : v = [w EXCEPT ![c.long] = RealLength(@), ![3] = @ \div 2]
    OBVIOUS
  <2>4. w[3] \div 2 = Half(c) /\ w[c.long] = Count(c, c.long)
    BY <1>2, <1>4, <1>5, <2>2
  <2>5. v = [d \in Parts |-> IF d = 3 THEN Half(c)
                            ELSE IF d = c.long THEN RealLength(Count(c, d)) ELSE w[d]]
    BY <1>4, <2>2, <2>3, <2>4
  <2>6. v = [d \in Parts |-> IF d = 4 THEN 1 ELSE IF d = 3 THEN Half(c)
                            ELSE IF d = c.long THEN RealLength(Count(c, d)) ELSE Count(c, d)]
    BY <1>4, <2>2, <2>5
  <2> QED BY <2>1, <2>3, <2>6
<1>11. [WithComponents(e.stride, 1) EXCEPT ![c.long] = @ \div 2, ![3] = 1] =
         [d \in Parts |-> IF d \in {3, 4} THEN 1 ELSE IF d = c.long THEN Half(c)
                          ELSE IF d = o[2] THEN Line(c, FALSE)
                          ELSE Line(c, FALSE) * Count(c, o[2])]
  <2>1. Line(c, FALSE) = Count(c, 3) * Count(c, o[1])
    BY DEF Line
  <2>2. /\ \A d \in Parts : d = 4 \/ d = 3 \/ d = o[1] \/ d = o[2] \/ d = o[3]
        /\ o[2] # o[1] /\ o[3] # o[1] /\ o[2] # o[3] /\ o[2] # 3 /\ o[3] # 3 /\ o[2] # 4 /\ o[3] # 4
        /\ o[2] \in Parts /\ o[3] \in Parts
    BY TurnIs
  <2>3. PICK w : w = WithComponents(e.stride, 1)
    OBVIOUS
  <2>4. w = [d \in Parts |-> IF d = 4 THEN 1 ELSE e.stride[d]]
    BY <2>3 DEF WithComponents
  <2>5. PICK v : v = [w EXCEPT ![c.long] = @ \div 2, ![3] = 1]
    OBVIOUS
  <2>6. v = [d \in Parts |-> v[d]]
        /\ v[4] = 1 /\ v[3] = 1 /\ v[o[1]] = e.stride[o[1]] \div 2
        /\ v[o[2]] = e.stride[o[2]] /\ v[o[3]] = e.stride[o[3]]
    <3>1. v = [d \in Parts |-> IF d = 3 THEN 1 ELSE IF d = c.long THEN w[d] \div 2 ELSE w[d]]
      BY <1>4, <2>4, <2>5
    <3>2. v = [d \in Parts |-> v[d]] /\ v[4] = 1 /\ v[3] = 1
      BY <1>4, <2>4, <3>1
    <3>3. v[o[1]] = e.stride[o[1]] \div 2
      BY <1>4, <2>4, <3>1
    <3>4. v[o[2]] = e.stride[o[2]] /\ v[o[3]] = e.stride[o[3]]
      BY <1>4, <2>2, <2>4, <3>1
    <3> QED BY <3>2, <3>3, <3>4
  <2>7. v[o[1]] = Half(c) /\ v[o[2]] = Line(c, FALSE) /\ v[o[3]] = Line(c, FALSE) * Count(c, o[2])
    <3>1. v[o[1]] = Half(c)
      BY <1>2, <1>5, <1>7, <2>6
    <3>2. v[o[2]] = Line(c, FALSE)
      BY <1>7, <2>1, <2>6
    <3>3. v[o[3]] = Line(c, FALSE) * Count(c, o[2])
      <4>1. PICK l : l = Line(c, FALSE)
        OBVIOUS
      <4>2. e.stride[o[3]] = l * Count(c, o[2]) /\ v[o[3]] = e.stride[o[3]]
        BY <1>7, <2>1, <2>6, <4>1
      <4> QED BY <4>1, <4>2
    <3> QED BY <3>1, <3>2, <3>3
  <2> DEFINE r(d) == IF d \in {3, 4} THEN 1 ELSE IF d = c.long THEN Half(c)
                     ELSE IF d = o[2] THEN Line(c, FALSE)
                     ELSE Line(c, FALSE) * Count(c, o[2])
  <2>8. /\ r(3) = 1 /\ r(4) = 1 /\ r(o[1]) = Half(c) /\ r(o[2]) = Line(c, FALSE)
        /\ r(o[3]) = Line(c, FALSE) * Count(c, o[2])
    BY <1>4, <2>2
  <2> HIDE DEF r
  <2>9. \A d \in Parts : v[d] = r(d)
    BY <2>2, <2>6, <2>7, <2>8
  <2>10. v = [d \in Parts |-> r(d)]
    BY <2>6, <2>9
  <2> QED BY <2>3, <2>5, <2>10 DEF r
<1>12. <<4>> \o e.order = <<4, 3, o[1], o[2], o[3]>>
  BY <1>3, Prepended
<1> QED BY <1>1, <1>8, <1>9, <1>10, <1>11, <1>12 DEF RealOf

\* The side that is taken after the rotation.
LEMMA AdjustedIs ==
  ASSUME NEW o \in Turns, NEW r \in Turns, NEW m, Fit(case),
         m.e = Listed(case, o, r), m.rotated \/ r = o,
         m.kind \notin Complex => r[1] = case.long, m.packed \in BOOLEAN
  PROVE  \/ m.kind \in Complex /\ AdjustedSide(m) = ComplexOf(case, r)
         \/ m.kind \notin Complex /\ \E packed \in BOOLEAN : AdjustedSide(m) = RealOf(case, r, packed)
<1> DEFINE e    == IF m.rotated THEN Contiguous(m.e) ELSE m.e
           side == IF m.kind \in Complex THEN ComplexLayout(e, case.long)
                   ELSE RealLayout(e, case.long)
<1>1. PICK c : c = case
  OBVIOUS
<1>2. e = Turned(c, r)
  <2>1. CASE m.rotated
    BY <1>1, <2>1, ContiguousListed
  <2>2. CASE ~m.rotated
    <3>1. m.e = [Turned(c, o) EXCEPT !.order = <<3, o[1], o[2], o[3]>>]
      BY <1>1, <2>2 DEF Listed
    <3>2. Turned(c, o) = [Turned(c, o) EXCEPT !.order = <<3, o[1], o[2], o[3]>>]
      BY DEF Turned
    <3> QED BY <2>2, <3>1, <3>2
  <2> QED BY <2>1, <2>2
<1>3. AdjustedSide(m) = IF Packs(m) /\ side # InvalidLayout THEN Contiguous(side) ELSE side
  BY DEF AdjustedSide
<1> HIDE DEF e
<1>4. CASE m.kind \in Complex
  <2>1. side = ComplexOf(c, r)
    BY <1>1, <1>2, <1>4, ComplexLayoutIs
  <2>2. Contiguous(ComplexOf(c, r)) = ComplexOf(c, r)
    BY <1>1, ContiguousComplex
  <2> QED BY <1>1, <1>3, <1>4, <2>1, <2>2
<1>5. CASE m.kind \notin Complex
  <2>1. side = RealOf(c, r, FALSE)
    BY <1>1, <1>2, <1>5, RealLayoutIs
  <2>2. Contiguous(RealOf(c, r, FALSE)) = RealOf(c, r, TRUE)
    BY <1>1, <1>5, ContiguousReal
  <2> HIDE DEF side
  <2> QED BY <1>1, <1>3, <1>5, <2>1, <2>2
<1> QED BY <1>4, <1>5

---------------------------------------------------------------------------
(* The steps keep the invariant.                                           *)

\* What cannot be transformed yields the invalid layout, rotated or not.
LEMMA UnfitIsIrregular ==
  ASSUME NEW c \in Cases, ~Fit(c), NEW q, q[1] = LocalExtents(c).order[1],
         NEW e, e = [LocalExtents(c) EXCEPT !.order = q]
  PROVE  ~Regular(e, c.long) /\ ~Regular(Contiguous(e), c.long)
<1>1. /\ e = [start |-> e.start, size |-> LocalExtents(c).size, stride |-> e.stride, order |-> q]
      /\ e.order = q
  BY DEF LocalExtents, InvalidExtents
<1>2. q[1] # 3 \/ e.size[3] % 2 # 0
  <2>1. CASE c.long \notin Directions \/ c.noProblem
    <3>1. LocalExtents(c).order[1] = 0
      BY <2>1 DEF LocalExtents, InvalidExtents
    <3> QED BY <3>1
  <2>2. CASE c.long \in Directions /\ ~c.noProblem
    <3>1. c.prob.howmany % 2 # 0
      BY <2>2 DEF Fit, Proper
    <3>0. LocalExtents(c).size = [d \in Indices |-> Size(c.prob, c.rank, c.long, d)]
      BY <2>2, CasesAssumption DEF LocalExtents, Case
    <3>2. LocalExtents(c).size[3] = c.prob.howmany
      <4>1. c.long # 3 /\ 3 \in Indices
        BY <2>2 DEF Directions, Indices
      <4> QED BY <3>0, <4>1 DEF Size, SplitOverB
    <3> QED BY <1>1, <3>1, <3>2
  <2> QED BY <2>1, <2>2
<1>3. Contiguous(e).order = e.order /\ Contiguous(e).size = e.size
  <2>1. \A st : [e EXCEPT !.stride = st].order = e.order /\ [e EXCEPT !.stride = st].size = e.size
    BY <1>1
  <2>2. \E st : Contiguous(e) = [e EXCEPT !.stride = st]
    BY Zenon DEF Contiguous
  <2> QED BY <2>1, <2>2
<1> QED BY <1>1, <1>2, <1>3 DEF Regular

\* No plan is made of invalid layouts: the arguments are refused or an assertion
\* fails.
LEMMA InvalidStops ==
  ASSUME NEW kind \in Kinds, NEW long, NEW in, NEW out,
         ~InternalRefuses(kind, long, in, out, InvalidLayout, InvalidLayout)
  PROVE  ~AssertsHold(kind, long, InvalidLayout, InvalidLayout)
<1>1. PICK e : e = InvalidLayout
  OBVIOUS
<1>2. PICK z : z = 0
  OBVIOUS
<1>3. Slow(e) = <<z, z, z>> /\ e.order[2] = z
  BY <1>2, <1>1 DEF Slow, InvalidLayout
<1>4. Append(<<z, z, z>>, z) = <<z, z, z, z>>
  BY AppendFourth
<1>5. PICK three : three = But(long, <<z, z, z>>)
  OBVIOUS
<1>6. PICK four : four = But(long, <<z, z, z, z>>)
  OBVIOUS
<1>7. Len(three) \in {0, 3}
  <2>0. three = AndDirection(long, AndDirection(long, AndDirection(long, <<>>, z), z), z)
    BY <1>5, ButThree
  <2>1. CASE long = z
    <3>1. three = <<>>
      BY <2>0, <2>1 DEF AndDirection
    <3> QED BY <3>1
  <2>2. CASE long # z
    <3>1. three = Append(Append(Append(<<>>, z), z), z)
      BY <2>0, <2>2 DEF AndDirection
    <3>2. Append(<<>>, z) = <<z>>
      BY AppendFirst
    <3>3. Append(<<z>>, z) = <<z, z>>
      BY AppendSecond
    <3>4. Append(<<z, z>>, z) = <<z, z, z>>
      BY AppendThird
    <3>5. three = <<z, z, z>>
      BY <3>1, <3>2, <3>3, <3>4
    <3> QED BY <3>5
  <2> QED BY <2>1, <2>2
<1>8. Len(four) \in {0, 4}
  <2>0. four = AndDirection(long, AndDirection(long, AndDirection(long, AndDirection(long, <<>>, z), z), z), z)
    BY <1>6, ButFour
  <2>1. CASE long = z
    <3>1. four = <<>>
      BY <2>0, <2>1 DEF AndDirection
    <3> QED BY <3>1
  <2>2. CASE long # z
    <3>1. four = Append(Append(Append(Append(<<>>, z), z), z), z)
      BY <2>0, <2>2 DEF AndDirection
    <3>2. Append(<<>>, z) = <<z>>
      BY AppendFirst
    <3>3. Append(<<z>>, z) = <<z, z>>
      BY AppendSecond
    <3>4. Append(<<z, z>>, z) = <<z, z, z>>
      BY AppendThird
    <3>5. Append(<<z, z, z>>, z) = <<z, z, z, z>>
      BY AppendFourth
    <3>6. four = <<z, z, z, z>>
      BY <3>1, <3>2, <3>3, <3>4, <3>5
    <3> QED BY <3>6
  <2> QED BY <2>1, <2>2
<1>9. kind \in Complex \/ kind = "r2c_forward" \/ kind = "c2r_backward"
  BY DEF Kinds, Forward, Complex
<1>10. CASE kind \in Complex
  <2>1. AssertsHold(kind, long, e, e) => Len(three) = 2
    BY <1>3, <1>5, <1>10 DEF AssertsHold, Complex
  <2> QED BY <1>1, <1>7, <2>1
<1>11. CASE kind = "r2c_forward"
  <2>1. AssertsHold(kind, long, e, e) => Len(four) = 3
    BY <1>3, <1>4, <1>6, <1>11 DEF AssertsHold, Complex
  <2>2. PICK l : l = Len(four)
    OBVIOUS
  <2>3. l # 3
    BY <1>8, <2>2
  <2> QED BY Zenon, <1>1, <2>1, <2>2, <2>3
<1>12. CASE kind = "c2r_backward"
  <2>1. AssertsHold(kind, long, e, e) => Len(three) = 2
    BY <1>3, <1>5, <1>12 DEF AssertsHold, Complex
  <2> QED BY <1>1, <1>7, <2>1
<1> QED BY <1>9, <1>10, <1>11, <1>12

\* Whatever comes of an attempt to create a plan, all plans are plans.
LEMMA ConcludesInv ==
  ASSUME IInv, UNCHANGED case, NEW kind \in Kinds, NEW in, NEW out, NEW input, NEW output,
         NEW afterNull \in {"running", "aborted", "crashed"},
         Concludes(kind, in, out, input, output, afterNull),
         Fit(case) => Sides(case, kind, input, output),
         ~Fit(case) => input = InvalidLayout /\ output = InvalidLayout
  PROVE  /\ status' \in {"running", "aborted", "crashed"}
         /\ \A p \in plans' : IsPlan(case', p)
         /\ DOMAIN buf' = Buffers
         /\ at' # Nowhere => AtOk(case', at')
<1> DEFINE refuses == InternalRefuses(kind, case.long, in, out, input, output)
           holds   == AssertsHold(kind, case.long, input, output)
<1>1. /\ status \in {"running", "aborted", "crashed"}
      /\ \A p \in plans : IsPlan(case', p)
      /\ DOMAIN buf = Buffers
      /\ at # Nowhere => AtOk(case', at)
  BY DEF IInv
<1>2. \/ status' \in {afterNull, "aborted"} /\ UNCHANGED <<plans, buf, at>>
      \/ ~refuses /\ holds /\ Overwrites(in, out) /\ status' = afterNull /\ UNCHANGED plans
      \/ /\ ~refuses /\ holds /\ Overwrites(in, out) /\ UNCHANGED status
         /\ plans' = plans \cup {PlanFor(kind, case.long, input, output, in = out)}
  BY DEF Concludes
<1>3. ASSUME Overwrites(in, out)
      PROVE  DOMAIN buf' = Buffers /\ (at' # Nowhere => at' = at)
  BY <1>3 DEF Overwrites
<1>4. CASE status' \in {afterNull, "aborted"} /\ UNCHANGED <<plans, buf, at>>
  BY <1>1, <1>4
<1>5. CASE ~refuses /\ holds /\ Overwrites(in, out) /\ status' = afterNull /\ UNCHANGED plans
  BY <1>1, <1>3, <1>5
<1>6. CASE /\ ~refuses /\ holds /\ Overwrites(in, out) /\ UNCHANGED status
           /\ plans' = plans \cup {PlanFor(kind, case.long, input, output, in = out)}
  <2>1. Fit(case)
    <3>1. SUFFICES ASSUME ~Fit(case) PROVE FALSE
      OBVIOUS
    <3> QED BY <1>6, <3>1, InvalidStops
  <2>2. PICK p : p = PlanFor(kind, case.long, input, output, in = out)
    OBVIOUS
  <2>3. p.kind = kind /\ p.input = input /\ p.output = output /\ p.inPlace = (in = out)
    BY <2>2 DEF PlanFor
  <2>4. p.inPlace \in BOOLEAN
    BY <2>3
  <2>5. p = PlanFor(p.kind, case.long, p.input, p.output, p.inPlace)
    BY <2>2, <2>3
  <2>6. IsPlan(case', p)
    BY <2>1, <2>3, <2>4, <2>5 DEF IsPlan
  <2> QED BY <1>1, <1>3, <1>6, <2>2, <2>6
<1> QED BY <1>2, <1>4, <1>5, <1>6

---------------------------------------------------------------------------
(* One lemma for each action.                                              *)

\* How a creation begins.
LEMMA CreateInv ==
  ASSUME IInv, Create
  PROVE  IInv'
<1>1. PICK kind \in Kinds, in \in Buffers \cup {Null}, out \in Buffers \cup {Null},
           packed \in BOOLEAN :
        making' = [kind |-> kind, in |-> in, out |-> out, packed |-> packed,
                   first |-> ComplexLayout(LocalExtents(case), case.long),
                   e |-> LocalExtents(case), rotated |-> FALSE, adjusted |-> Nowhere]
  BY DEF Create
<1>2. PICK m : m = making'
  OBVIOUS
<1>3. PICK c : c = case
  OBVIOUS
<1>4. UNCHANGED <<case, status, plans, buf, at>> /\ c \in Cases
  BY <1>3 DEF Create, IInv
<1>5. /\ m = [kind |-> m.kind, in |-> m.in, out |-> m.out, packed |-> m.packed,
              first |-> m.first, e |-> m.e, rotated |-> m.rotated, adjusted |-> m.adjusted]
      /\ m.kind \in Kinds /\ m.packed \in BOOLEAN /\ m.rotated \in BOOLEAN
      /\ m.first = ComplexLayout(LocalExtents(c), c.long)
      /\ m.e = LocalExtents(c) /\ m.adjusted = Nowhere
  BY <1>1, <1>2, <1>3
<1> HIDE <1>1
<1>6. Fit(c) => FitMaking(c, m)
  <2>1. SUFFICES ASSUME Fit(c) PROVE FitMaking(c, m)
    OBVIOUS
  <2>2. PICK o \in Turns : LocalExtents(c) = Turned(c, o)
    BY <2>1, PencilTurned
  <2>3. m.first = ComplexOf(c, o)
    BY <1>5, <2>1, <2>2, ComplexLayoutIs
  <2>4. m.e = Listed(c, o, o)
    <3>1. Turned(c, o) = [Turned(c, o) EXCEPT !.order = <<3, o[1], o[2], o[3]>>]
      BY DEF Turned
    <3> QED BY <1>5, <2>2, <3>1 DEF Listed
  <2> QED BY <1>5, <2>3, <2>4 DEF FitMaking
<1>7. ~Fit(c) => UnfitMaking(c, m)
  <2>1. SUFFICES ASSUME ~Fit(c) PROVE UnfitMaking(c, m)
    OBVIOUS
  <2>2. PICK q : q = LocalExtents(c).order
    OBVIOUS
  <2>3. LocalExtents(c) = [LocalExtents(c) EXCEPT !.order = q]
    BY <2>2 DEF LocalExtents, InvalidExtents
  <2>4. ~Regular(LocalExtents(c), c.long)
    BY <1>4, <2>1, <2>2, <2>3, UnfitIsIrregular
  <2>5. m.first = InvalidLayout
    BY <1>5, <2>4 DEF ComplexLayout
  <2> QED BY <1>5, <2>2, <2>3, <2>5 DEF UnfitMaking
<1>8. MakingOk(c, m)
  BY <1>5, <1>6, <1>7 DEF MakingOk
<1> QED BY <1>2, <1>3, <1>4, <1>8 DEF IInv

\* A rotation turns the order of the extents and nothing else.
LEMMA RotateInv ==
  ASSUME IInv, Rotate
  PROVE  IInv'
<1>1. PICK m : m = making
  OBVIOUS
<1>2. PICK n : n = making'
  OBVIOUS
<1>3. PICK c : c = case
  OBVIOUS
<1>4. UNCHANGED <<case, status, plans, buf, at>> /\ c \in Cases /\ MakingOk(c, m)
      /\ m.adjusted = Nowhere
  BY <1>1, <1>3 DEF Rotate, IInv
<1>5. n = [m EXCEPT !.e.order = RotateLeft(@), !.rotated = TRUE]
  BY <1>1, <1>2 DEF Rotate
<1>6. n = [kind |-> m.kind, in |-> m.in, out |-> m.out, packed |-> m.packed,
           first |-> m.first, e |-> [m.e EXCEPT !.order = RotateLeft(@)],
           rotated |-> TRUE, adjusted |-> m.adjusted]
  <2>1. m = [kind |-> m.kind, in |-> m.in, out |-> m.out, packed |-> m.packed,
             first |-> m.first, e |-> m.e, rotated |-> m.rotated, adjusted |-> m.adjusted]
    BY <1>4 DEF MakingOk
  <2> QED BY <1>5, <2>1
<1>7. Fit(c) => FitMaking(c, n)
  <2>1. SUFFICES ASSUME Fit(c) PROVE FitMaking(c, n)
    OBVIOUS
  <2>2. PICK o \in Turns, r \in Turns : m.first = ComplexOf(c, o) /\ m.e = Listed(c, o, r)
    BY <1>4, <2>1 DEF MakingOk, FitMaking
  <2> DEFINE s == <<r[2], r[3], r[1]>>
  <2>3. s \in Turns
    BY TurnIs DEF Turns
  <2>4. n.e = Listed(c, o, s)
    <3>1. Listed(c, o, r) = [Turned(c, o) EXCEPT !.order = <<3, r[1], r[2], r[3]>>]
      BY DEF Listed
    <3>2. RotateLeft(<<3, r[1], r[2], r[3]>>) = <<3, s[1], s[2], s[3]>>
      BY DEF RotateLeft
    <3>3. n.e = [m.e EXCEPT !.order = RotateLeft(@)]
      BY <1>6
    <3> HIDE DEF s
    <3>4. n.e = [Turned(c, o) EXCEPT !.order = <<3, s[1], s[2], s[3]>>]
      BY <2>2, <3>1, <3>2, <3>3 DEF Turned
    <3> QED BY <3>4 DEF Listed
  <2> HIDE DEF s
  <2>5. n.first = ComplexOf(c, o) /\ n.rotated /\ n.adjusted = Nowhere
    BY <1>4, <1>6, <2>2
  <2> QED BY <2>3, <2>4, <2>5 DEF FitMaking
<1>8. ~Fit(c) => UnfitMaking(c, n)
  <2>1. SUFFICES ASSUME ~Fit(c) PROVE UnfitMaking(c, n)
    OBVIOUS
  <2>2. PICK q : m.e = [LocalExtents(c) EXCEPT !.order = q] /\ q[1] = LocalExtents(c).order[1]
    BY <1>4, <2>1 DEF MakingOk, UnfitMaking
  <2>3. PICK s : s = RotateLeft(q)
    OBVIOUS
  <2>4. s[1] = q[1]
    BY <2>3 DEF RotateLeft
  <2>5. PICK e : e = LocalExtents(c)
    OBVIOUS
  <2>6. e = [start |-> e.start, size |-> e.size, stride |-> e.stride, order |-> e.order]
    BY <2>5 DEF LocalExtents, InvalidExtents
  <2>7. n.e = [m.e EXCEPT !.order = RotateLeft(@)]
    BY <1>6
  <2>8. n.e = [e EXCEPT !.order = s]
    BY <2>2, <2>3, <2>5, <2>6, <2>7
  <2>9. m.first = InvalidLayout
    BY <1>4, <2>1 DEF MakingOk, UnfitMaking
  <2>10. n.first = InvalidLayout /\ n.adjusted = Nowhere
    BY <1>4, <1>6, <2>9
  <2> QED BY <2>2, <2>4, <2>5, <2>8, <2>10 DEF UnfitMaking
<1>9. MakingOk(c, n)
  BY <1>4, <1>6, <1>7, <1>8 DEF MakingOk
<1> QED BY <1>2, <1>3, <1>4, <1>9 DEF IInv

\* The side that is taken is a layout of the pencil in its new order.
LEMMA AdjustInv ==
  ASSUME IInv, Adjust
  PROVE  IInv'
<1>1. PICK m : m = making
  OBVIOUS
<1>2. PICK n : n = making'
  OBVIOUS
<1>3. PICK c : c = case
  OBVIOUS
<1>4. UNCHANGED <<case, status, plans, buf, at>> /\ c \in Cases /\ MakingOk(c, m)
      /\ m.e.order[2] = c.long
  BY <1>1, <1>3 DEF Adjust, IInv
<1>5. PICK side : side = AdjustedSide(m)
  OBVIOUS
<1>6. n = [kind |-> m.kind, in |-> m.in, out |-> m.out, packed |-> m.packed,
           first |-> m.first, e |-> m.e, rotated |-> m.rotated, adjusted |-> side]
  <2>1. m = [kind |-> m.kind, in |-> m.in, out |-> m.out, packed |-> m.packed,
             first |-> m.first, e |-> m.e, rotated |-> m.rotated, adjusted |-> m.adjusted]
    BY <1>4 DEF MakingOk
  <2>2. n = [m EXCEPT !.adjusted = side]
    BY <1>1, <1>2, <1>5 DEF Adjust
  <2> QED BY <2>1, <2>2
<1>7. Fit(c) => FitMaking(c, n)
  <2>1. SUFFICES ASSUME Fit(c) PROVE FitMaking(c, n)
    OBVIOUS
  <2>2. PICK o \in Turns, r \in Turns :
          m.first = ComplexOf(c, o) /\ m.e = Listed(c, o, r) /\ (m.rotated \/ r = o)
    BY <1>4, <2>1 DEF MakingOk, FitMaking
  <2>3. r[1] = c.long
    <3>1. Listed(c, o, r).order = <<3, r[1], r[2], r[3]>>
      BY DEF Listed, Turned
    <3> QED BY <1>4, <2>2, <3>1
  <2>4. m.packed \in BOOLEAN
    BY <1>4 DEF MakingOk
  <2>5. \/ m.kind \in Complex /\ side = ComplexOf(c, r)
        \/ m.kind \notin Complex /\ \E packed \in BOOLEAN : side = RealOf(c, r, packed)
    BY <1>3, <1>5, <2>1, <2>2, <2>3, <2>4, AdjustedIs
  <2>6. n.first = ComplexOf(c, o) /\ n.e = Listed(c, o, r) /\ (n.rotated \/ r = o)
        /\ n.kind = m.kind /\ n.adjusted = side
    BY <1>6, <2>2
  <2> QED BY <2>3, <2>5, <2>6 DEF FitMaking
<1>8. ~Fit(c) => UnfitMaking(c, n)
  <2>1. SUFFICES ASSUME ~Fit(c) PROVE UnfitMaking(c, n)
    OBVIOUS
  <2>2. PICK q : m.e = [LocalExtents(c) EXCEPT !.order = q] /\ q[1] = LocalExtents(c).order[1]
    BY <1>4, <2>1 DEF MakingOk, UnfitMaking
  <2>3. ~Regular(m.e, c.long) /\ ~Regular(Contiguous(m.e), c.long)
    BY <1>4, <2>1, <2>2, UnfitIsIrregular
  <2>4. side = InvalidLayout
    BY <1>3, <1>5, <2>3 DEF AdjustedSide, ComplexLayout, RealLayout
  <2>5. m.first = InvalidLayout
    BY <1>4, <2>1 DEF MakingOk, UnfitMaking
  <2> QED BY <1>6, <2>2, <2>4, <2>5 DEF UnfitMaking
<1>9. MakingOk(c, n)
  BY <1>4, <1>6, <1>7, <1>8 DEF MakingOk
<1> QED BY <1>2, <1>3, <1>4, <1>9 DEF IInv

\* A plan is made of the two layouts, or none is made.
LEMMA SettleInv ==
  ASSUME IInv, Settle
  PROVE  IInv'
<1>1. PICK m : m = making
  OBVIOUS
<1>2. PICK c : c = case
  OBVIOUS
<1>3. UNCHANGED case /\ c \in Cases /\ MakingOk(c, m) /\ m.adjusted # Nowhere
      /\ making' = Nowhere
  BY <1>1, <1>2 DEF Settle, IInv
<1>4. m.kind \in Kinds
  BY <1>3 DEF MakingOk
<1>5. \/ UNCHANGED <<status, plans, buf, at>>
      \/ /\ m.kind # "r2c_forward"
         /\ Concludes(m.kind, m.in, m.out, m.first, m.adjusted, "running")
      \/ /\ m.kind = "r2c_forward"
         /\ Concludes(m.kind, m.in, m.out, m.adjusted, m.first, "running")
  BY <1>1 DEF Settle
<1>6. ~Fit(c) => m.first = InvalidLayout /\ m.adjusted = InvalidLayout
  BY <1>3 DEF MakingOk, UnfitMaking
<1>7. Fit(c) => \E o, t \in Turns :
                  /\ m.first = ComplexOf(c, o)
                  /\ t[1] = c.long
                  /\ \/ m.kind \in Complex /\ m.adjusted = ComplexOf(c, t)
                     \/ /\ m.kind \notin Complex
                        /\ \E packed \in BOOLEAN : m.adjusted = RealOf(c, t, packed)
  BY <1>3 DEF MakingOk, FitMaking
<1>8. CASE UNCHANGED <<status, plans, buf, at>>
  BY <1>3, <1>8 DEF IInv
<1>9. CASE /\ m.kind # "r2c_forward"
            /\ Concludes(m.kind, m.in, m.out, m.first, m.adjusted, "running")
  <2>1. m.kind \in Complex \/ m.kind = "c2r_backward"
    BY <1>4, <1>9 DEF Kinds, Forward, Complex
  <2>2. Fit(c) => Sides(c, m.kind, m.first, m.adjusted)
    BY <1>7, <2>1 DEF Sides, Complex
  <2>3. /\ status' \in {"running", "aborted", "crashed"}
        /\ \A p \in plans' : IsPlan(case', p)
        /\ DOMAIN buf' = Buffers
        /\ at' # Nowhere => AtOk(case', at')
    BY <1>2, <1>3, <1>4, <1>6, <1>9, <2>2, ConcludesInv
  <2> QED BY <1>2, <1>3, <2>3 DEF IInv
<1>10. CASE /\ m.kind = "r2c_forward"
            /\ Concludes(m.kind, m.in, m.out, m.adjusted, m.first, "running")
  <2>2. Fit(c) => Sides(c, m.kind, m.adjusted, m.first)
    BY <1>7, <1>10 DEF Sides, Complex
  <2>3. /\ status' \in {"running", "aborted", "crashed"}
        /\ \A p \in plans' : IsPlan(case', p)
        /\ DOMAIN buf' = Buffers
        /\ at' # Nowhere => AtOk(case', at')
    BY <1>2, <1>3, <1>4, <1>6, <1>10, <2>2, ConcludesInv
  <2> QED BY <1>2, <1>3, <2>3 DEF IInv
<1> QED BY <1>5, <1>8, <1>9, <1>10

\* An inverse is made of the same layouts the other way around.
LEMMA CreateInverseInv ==
  ASSUME IInv, CreateInverse
  PROVE  IInv'
<1>1. PICK p \in plans, in \in Buffers \cup {Null}, out \in Buffers \cup {Null} :
        Concludes(InverseKind(p.kind), in, out, p.output, p.input, "crashed")
  BY DEF CreateInverse
<1>2. IsPlan(case, p) /\ UNCHANGED <<case, making>>
  BY DEF CreateInverse, IInv
<1>3. InverseKind(p.kind) \in Kinds /\ Fit(case) /\ Sides(case, InverseKind(p.kind), p.output, p.input)
  <2>1. p.kind = "c2c_forward" \/ p.kind = "c2c_backward" \/ p.kind = "r2c_forward" \/ p.kind = "c2r_backward"
    BY <1>2 DEF IsPlan, Kinds, Forward, Complex
  <2>2. CASE p.kind \in Complex
    <3>1. InverseKind(p.kind) \in Complex /\ InverseKind(p.kind) \in Kinds
      BY <2>2 DEF InverseKind, Complex, Kinds
    <3>2. PICK s, t \in Turns :
            p.input = ComplexOf(case, s) /\ p.output = ComplexOf(case, t)
            /\ case.long \in {s[1], t[1]}
      BY <1>2, <2>2 DEF IsPlan, Sides, Complex
    <3> QED BY <1>2, <3>1, <3>2 DEF IsPlan, Sides
  <2>3. CASE p.kind = "r2c_forward"
    <3>1. InverseKind(p.kind) = "c2r_backward"
      BY <2>3 DEF InverseKind
    <3> QED BY <1>2, <2>3, <3>1 DEF IsPlan, Sides, Complex, Kinds, Forward
  <2>4. CASE p.kind = "c2r_backward"
    <3>1. InverseKind(p.kind) = "r2c_forward"
      BY <2>4 DEF InverseKind
    <3> QED BY <1>2, <2>4, <3>1 DEF IsPlan, Sides, Complex, Kinds, Forward
  <2> QED BY <2>1, <2>2, <2>3, <2>4 DEF Complex
<1>4. /\ status' \in {"running", "aborted", "crashed"}
      /\ \A q \in plans' : IsPlan(case', q)
      /\ DOMAIN buf' = Buffers
      /\ at' # Nowhere => AtOk(case', at')
  BY <1>1, <1>2, <1>3, ConcludesInv
<1> QED BY <1>2, <1>4 DEF IInv

\* Data that was only stored has been through no plan.
LEMMA FillInv ==
  ASSUME IInv, Fill
  PROVE  IInv'
<1>1. PICK p \in plans, b \in Buffers :
        /\ \E g : buf' = [buf EXCEPT ![b] = g]
        /\ at' = [buf |-> b, layout |-> p.input, space |-> 0, by |-> <<>>]
  BY DEF Fill
<1>2. UNCHANGED <<case, status, making, plans>>
  BY DEF Fill
<1>3. PICK x : x = at'
  OBVIOUS
<1>4. x = [buf |-> b, layout |-> p.input, space |-> 0, by |-> <<>>]
  BY <1>1, <1>3
<1>5. AtOk(case, x)
  <2>1. MaxExecuted \in Nat
    BY BoundsAssumption
  <2>2. Len(<<>>) = 0 /\ 0 \in -0 .. 0 /\ DOMAIN <<>> = {} /\ <<>> \in Seq({})
    OBVIOUS
  <2>3. x.by = <<>> /\ x.space = 0
    BY <1>4
  <2>4. {x.by[k] : k \in DOMAIN x.by} = {}
    BY <2>2, <2>3
  <2> QED BY <1>4, <2>1, <2>2, <2>3, <2>4 DEF AtOk
<1> QED BY <1>1, <1>2, <1>3, <1>5 DEF IInv

\* What a plan was executed on lies as its output, one deeper or less deep.
LEMMA ExecuteInv ==
  ASSUME IInv, Execute
  PROVE  IInv'
<1>1. PICK p \in plans, out \in Buffers :
        buf' = Executed(p, at.buf, out) /\ at' = Moved(p, out)
  BY DEF Execute
<1>2. UNCHANGED <<case, status, making, plans>> /\ at # Nowhere /\ Len(at.by) < MaxExecuted
      /\ AtOk(case, at) /\ IsPlan(case, p)
  BY DEF Execute, IInv
<1>3. DOMAIN buf' = Buffers
  <2>1. DOMAIN buf = Buffers
    BY DEF IInv
  <2>2. \A b, c, g, h : /\ DOMAIN [buf EXCEPT ![b] = g] = DOMAIN buf
                        /\ DOMAIN [buf EXCEPT ![b] = g, ![c] = h] = DOMAIN buf
    OBVIOUS
  <2>3. \E b, c, g, h : \/ Executed(p, at.buf, out) = [buf EXCEPT ![b] = g]
                        \/ Executed(p, at.buf, out) = [buf EXCEPT ![b] = g, ![c] = h]
    BY Zenon DEF Executed
  <2> QED BY <1>1, <2>1, <2>2, <2>3
<1>4. PICK x, y : x = at /\ y = at'
  OBVIOUS
<1>5. \E s \in {1, -1} : y = [buf |-> out, layout |-> p.output, space |-> x.space + s,
                              by |-> Append(x.by, p)]
  BY <1>1, <1>4 DEF Moved
<1>6. PICK s \in {1, -1} : y = [buf |-> out, layout |-> p.output, space |-> x.space + s,
                                by |-> Append(x.by, p)]
  BY <1>5
<1>7. PICK S : S = {x.by[k] : k \in DOMAIN x.by}
  OBVIOUS
<1>8. /\ x.by \in Seq(S) /\ Len(x.by) < MaxExecuted
      /\ x.space \in -Len(x.by) .. Len(x.by)
      /\ \A k \in DOMAIN x.by : IsPlan(case, x.by[k])
  BY <1>2, <1>4, <1>7 DEF AtOk
<1>9. PICK q : q = x.by
  OBVIOUS
<1>10. PICK w : w = Append(q, p)
  OBVIOUS
<1>11. PICK n \in Nat : n = Len(q)
  BY <1>8, <1>9
<1>12. /\ Len(w) = n + 1 /\ DOMAIN w = 1 .. n + 1 /\ DOMAIN q = 1 .. n
       /\ w[n + 1] = p /\ \A k \in 1 .. n : w[k] = q[k]
       /\ w = [k \in 1 .. n + 1 |-> w[k]]
  BY <1>8, <1>9, <1>10, <1>11
<1>13. w \in Seq({w[k] : k \in DOMAIN w})
  BY <1>12
<1>14. \A k \in DOMAIN w : IsPlan(case, w[k])
  <2>1. \A k \in 1 .. n + 1 : k \in 1 .. n \/ k = n + 1
    OBVIOUS
  <2> QED BY <1>2, <1>8, <1>9, <1>12, <2>1
<1>15. n + 1 <= MaxExecuted
  <2>1. MaxExecuted \in Nat
    BY BoundsAssumption
  <2> QED BY <1>8, <1>9, <1>11, <2>1
<1>16. x.space + s \in -(n + 1) .. n + 1
  BY <1>8, <1>9, <1>11
<1>17. y.by = w /\ y.layout = p.output /\ y.space = x.space + s /\ y.buf = out
  BY <1>6, <1>9, <1>10
<1>18. y.by[Len(y.by)] = p
  BY <1>12, <1>17
<1>19. /\ y = [buf |-> y.buf, layout |-> y.layout, space |-> y.space, by |-> y.by]
       /\ y.layout = y.by[Len(y.by)].output /\ Len(y.by) = n + 1
  BY <1>6, <1>12, <1>17, <1>18
<1>20. AtOk(case, y)
  BY <1>12, <1>13, <1>14, <1>15, <1>16, <1>17, <1>19 DEF AtOk
<1> QED BY <1>2, <1>3, <1>4, <1>20 DEF IInv

\* The invariant is inductive.
THEOREM Inductive == Spec => []IInv
<1>1. Init => IInv
  BY DEF Init, IInv
<1>2. IInv /\ [Next]_vars => IInv'
  <2> SUFFICES ASSUME IInv, [Next]_vars PROVE IInv'
    OBVIOUS
  <2>1. CASE Destroy
    <3>1. UNCHANGED <<case, status, making, buf, at>> /\ plans' \subseteq plans
      BY <2>1 DEF Destroy
    <3> QED BY <3>1 DEF IInv
  <2>2. CASE UNCHANGED vars
    BY <2>2 DEF vars, IInv
  <2> QED BY <2>1, <2>2, CreateInv, RotateInv, AdjustInv, SettleInv, CreateInverseInv,
             FillInv, ExecuteInv DEF Next
<1> QED BY <1>1, <1>2, PTL DEF Spec

\* The type invariant.
THEOREM TypeCorrect == Spec => []TypeOK
<1>1. IInv => TypeOK
  <2> SUFFICES ASSUME IInv PROVE TypeOK
    OBVIOUS
  <2>1. ASSUME making # Nowhere
        PROVE  making.kind \in Kinds /\ making.e.order[1] \in {0, 3}
    <3>1. PICK m, c : m = making /\ c = case
      OBVIOUS
    <3>2. MakingOk(c, m) /\ c \in Cases
      BY <2>1, <3>1 DEF IInv
    <3>3. m.kind \in Kinds
      BY <3>2 DEF MakingOk
    <3>4. CASE Fit(c)
      <4>1. PICK o \in Turns, r \in Turns : m.e = Listed(c, o, r)
        BY <3>2, <3>4 DEF MakingOk, FitMaking
      <4>2. m.e.order[1] = 3
        BY <4>1 DEF Listed, Turned
      <4> QED BY <3>1, <3>3, <4>2
    <3>5. CASE ~Fit(c)
      <4>1. PICK q : m.e = [LocalExtents(c) EXCEPT !.order = q] /\ q[1] = LocalExtents(c).order[1]
        BY <3>2, <3>5 DEF MakingOk, UnfitMaking
      <4>2. m.e.order = q
        BY <4>1 DEF LocalExtents, InvalidExtents
      <4>3. LocalExtents(c).order[1] \in {0, 3}
        <5>1. Order(c.prob, c.long)[1] = 3 \/ c.long \notin Directions
          BY DEF Order, Directions
        <5> QED BY <5>1 DEF LocalExtents, InvalidExtents
      <4> QED BY <3>1, <3>3, <4>1, <4>2, <4>3
    <3> QED BY <3>4, <3>5
  <2>2. ASSUME NEW p \in plans
        PROVE  /\ p.kind \in Kinds /\ p.inPlace \in BOOLEAN
               /\ ToSet(p.input.order) = Parts
               /\ ToSet(p.output.order) = Parts
    <3>1. IsPlan(case, p)
      BY DEF IInv
    <3>2. PICK s, t \in Turns : /\ p.input.order = <<4, 3, s[1], s[2], s[3]>>
                                /\ p.output.order = <<4, 3, t[1], t[2], t[3]>>
      <4>1. \A c, s, packed : /\ ComplexOf(c, s).order = <<4, 3, s[1], s[2], s[3]>>
                             /\ RealOf(c, s, packed).order = <<4, 3, s[1], s[2], s[3]>>
        BY DEF ComplexOf, RealOf
      <4>2. \E s \in Turns : \/ p.input = ComplexOf(case, s)
                            \/ \E packed \in BOOLEAN : p.input = RealOf(case, s, packed)
        BY <3>1 DEF IsPlan, Sides
      <4>3. \E t \in Turns : \/ p.output = ComplexOf(case, t)
                            \/ \E packed \in BOOLEAN : p.output = RealOf(case, t, packed)
        BY <3>1 DEF IsPlan, Sides
      <4>4. \E s \in Turns : p.input.order = <<4, 3, s[1], s[2], s[3]>>
        BY Zenon, <4>1, <4>2
      <4>5. \E t \in Turns : p.output.order = <<4, 3, t[1], t[2], t[3]>>
        BY Zenon, <4>1, <4>3
      <4> QED BY <4>4, <4>5
    <3>3. ToSet(p.input.order) = Parts /\ ToSet(p.output.order) = Parts
      BY <3>2, FiveIndices DEF ToSet
    <3> QED BY <3>1, <3>3 DEF IsPlan
  <2>3. ASSUME at # Nowhere
        PROVE  /\ at.buf \in Buffers
               /\ Len(at.by) <= MaxExecuted
               /\ at.space \in -Len(at.by) .. Len(at.by)
               /\ at.by # <<>> => at.layout = Last(at.by).output
    BY <2>3 DEF IInv, AtOk, Last
  <2> QED BY <2>1, <2>2, <2>3 DEF IInv, TypeOK
<1> QED BY <1>1, Inductive, PTL

---------------------------------------------------------------------------
(* Lengths of lines.                                                       *)

\* The local memory of a case.
Within(c) == 0 .. LocalMemory(c.prob, c.rank) - 1

\* A product does not depend on the order of the directions.
LEMMA CountsMultiply ==
  ASSUME NEW c, Fit(c), NEW o \in Turns
  PROVE  /\ Count(c, 3) \in Nat /\ Count(c, o[1]) \in Nat
         /\ Count(c, o[2]) \in Nat /\ Count(c, o[3]) \in Nat
         /\ (Count(c, 3) * Count(c, o[1])) * (Count(c, o[3]) * Count(c, o[2]))
              = Extent(c.prob, c.rank, c.long)
         /\ Extent(c.prob, c.rank, c.long) \in Nat
         /\ Extent(c.prob, c.rank, c.long) <= LocalMemory(c.prob, c.rank)
         /\ LocalMemory(c.prob, c.rank) \in Nat
<1>1. /\ c.prob \in WellFormed /\ c.rank \in Ranks(c.prob) /\ c.long \in Directions
      /\ \A d \in Indices : Count(c, d) \in Nat
  BY CountIs
<1>2. PICK n0 \in Nat, n1 \in Nat, n2 \in Nat, n3 \in Nat :
        n0 = Count(c, 0) /\ n1 = Count(c, 1) /\ n2 = Count(c, 2) /\ n3 = Count(c, 3)
  BY <1>1 DEF Indices
<1>3. /\ Extent(c.prob, c.rank, c.long) = n0 * n1 * n2 * n3
      /\ Extent(c.prob, c.rank, c.long) <= LocalMemory(c.prob, c.rank)
  BY <1>1, <1>2, PencilFits DEF Extent, Count
<1>4. LocalMemory(c.prob, c.rank) \in Nat
  BY <1>1, LocalMemoryBounds
<1>5. \/ o[1] = 0 /\ o[2] = 1 /\ o[3] = 2
      \/ o[1] = 0 /\ o[2] = 2 /\ o[3] = 1
      \/ o[1] = 1 /\ o[2] = 0 /\ o[3] = 2
      \/ o[1] = 1 /\ o[2] = 2 /\ o[3] = 0
      \/ o[1] = 2 /\ o[2] = 0 /\ o[3] = 1
      \/ o[1] = 2 /\ o[2] = 1 /\ o[3] = 0
  <2>1. o[1] \in 0 .. 2 /\ o[2] \in 0 .. 2 /\ o[3] \in 0 .. 2
        /\ o[1] # o[2] /\ o[1] # o[3] /\ o[2] # o[3]
    BY TurnIs DEF Directions
  <2> QED BY <2>1
<1>6. /\ (n3 * n0) * (n2 * n1) = n0 * n1 * n2 * n3
      /\ (n3 * n0) * (n1 * n2) = n0 * n1 * n2 * n3
      /\ (n3 * n1) * (n2 * n0) = n0 * n1 * n2 * n3
      /\ (n3 * n1) * (n0 * n2) = n0 * n1 * n2 * n3
      /\ (n3 * n2) * (n1 * n0) = n0 * n1 * n2 * n3
      /\ (n3 * n2) * (n0 * n1) = n0 * n1 * n2 * n3
  OBVIOUS
<1> QED BY <1>2, <1>3, <1>4, <1>5, <1>6

\* A place on a line of a pencil whose lines are no longer than they are stored.
LEMMA Tight ==
  ASSUME NEW c, Fit(c), NEW o \in Turns,
         NEW L \in Nat, L <= Count(c, 3) * Count(c, o[1]), NEW q \in 0 .. L - 1,
         NEW k2 \in 0 .. Count(c, o[2]) - 1, NEW k3 \in 0 .. Count(c, o[3]) - 1
  PROVE  k2 * L + k3 * (L * Count(c, o[2])) + q \in Within(c)
<1>1. PICK n1 \in Nat, n2 \in Nat, n3 \in Nat, h \in Nat, M \in Nat :
        /\ n1 = Count(c, o[1]) /\ n2 = Count(c, o[2]) /\ n3 = Count(c, o[3])
        /\ h = Count(c, 3) /\ M = LocalMemory(c.prob, c.rank)
        /\ (h * n1) * (n3 * n2) <= M
  <2>1. PICK E \in Nat, M \in Nat :
          /\ E = Extent(c.prob, c.rank, c.long) /\ M = LocalMemory(c.prob, c.rank) /\ E <= M
    BY CountsMultiply
  <2>2. /\ Count(c, 3) \in Nat /\ Count(c, o[1]) \in Nat
        /\ Count(c, o[2]) \in Nat /\ Count(c, o[3]) \in Nat
        /\ (Count(c, 3) * Count(c, o[1])) * (Count(c, o[3]) * Count(c, o[2])) = E
    BY <2>1, CountsMultiply
  <2> QED BY <2>1, <2>2
<1>2. k2 \in 0 .. n2 - 1 /\ k3 \in 0 .. n3 - 1 /\ L <= h * n1
  BY <1>1
<1>3. k3 * n2 + k2 \in 0 .. n3 * n2 - 1
  BY <1>2, PlaceHasCell
<1>4. n3 * n2 \in Nat /\ h * n1 \in Nat
  OBVIOUS
<1>5. (k3 * n2 + k2) * L + q \in 0 .. (n3 * n2) * L - 1
  BY <1>3, <1>4, PlaceHasCell
<1>6. (n3 * n2) * L <= (h * n1) * (n3 * n2)
  <2>1. PICK x \in Nat, y \in Nat : x = n3 * n2 /\ y = h * n1
    BY <1>4
  <2>2. x * L <= y * x
    BY <1>2, <2>1
  <2> QED BY <2>1, <2>2
<1>7. k2 * L + k3 * (L * n2) + q = (k3 * n2 + k2) * L + q
  BY <1>2
<1>8. (n3 * n2) * L \in Int
  OBVIOUS
<1>9. (k3 * n2 + k2) * L + q \in 0 .. M - 1
  BY <1>1, <1>5, <1>6, <1>8
<1> QED BY <1>1, <1>7, <1>9 DEF Within

\* The length of a line in complex values and in reals.
LEMMA LengthIs ==
  ASSUME NEW n \in Nat \ {0}
  PROVE  /\ RealLength(n) \in Nat /\ RealLength(n) <= 2 * n
         /\ RealLength(n) \div 2 + 1 = n
         /\ RealLength(n) >= 1 /\ (n > 1 => RealLength(n) >= n)
<1>1. CASE n = 1
  BY <1>1 DEF RealLength
<1>2. CASE n # 1
  BY <1>2 DEF RealLength
<1> QED BY <1>1, <1>2

\* Lines of reals, padded or not, are no longer than those of complex values.
LEMMA LineIs ==
  ASSUME NEW c, Fit(c), NEW packed \in BOOLEAN
  PROVE  /\ Line(c, packed) \in Nat
         /\ Line(c, packed) <= Count(c, 3) * Count(c, c.long)
         /\ Half(c) * RealLength(Count(c, c.long)) <= Line(c, packed)
         /\ Half(c) * RealLength(Count(c, c.long)) \in Nat
<1>1. PICK n \in Nat \ {0}, h \in Nat, l \in Nat :
        n = Count(c, c.long) /\ h = Half(c) /\ Count(c, 3) = 2 * h /\ l = RealLength(n)
  BY CountIs, LengthIs
<1>2. l <= 2 * n
  BY <1>1, LengthIs
<1>3. h * l <= h * (2 * n)
  BY <1>2
<1>4. h * (2 * n) = (2 * h) * n /\ h * l \in Nat /\ (2 * h) * n \in Nat
  OBVIOUS
<1>5. packed => Line(c, packed) = h * l
  BY <1>1 DEF Line
<1>6. ~packed => Line(c, packed) = (2 * h) * n
  BY <1>1 DEF Line
<1> QED BY <1>1, <1>3, <1>4, <1>5, <1>6

---------------------------------------------------------------------------
(* What loops visit.                                                       *)

\* One loop more.
LEMMA LoopVisits ==
  ASSUME NEW ps, NEW d, NEW q \in AndLoop(ps, d)
  PROVE  \E p \in ps, k \in 0 .. d[1] - 1 : q[1] = p[1] + k * d[2] /\ q[2] = p[2] + k * d[3]
BY DEF AndLoop

\* Three loops.
LEMMA ThreeVisit ==
  ASSUME NEW A, NEW B, NEW F, NEW q \in Points(<<A, B, F>>)
  PROVE  \E ka \in 0 .. A[1] - 1, kb \in 0 .. B[1] - 1, kf \in 0 .. F[1] - 1 :
           /\ q[1] = 0 + ka * A[2] + kb * B[2] + kf * F[2]
           /\ q[2] = 0 + ka * A[3] + kb * B[3] + kf * F[3]
<1>1. q \in AndLoop(AndLoop(AndLoop({<<0, 0>>}, A), B), F)
  BY PointsThree
<1>2. PICK p3 \in AndLoop(AndLoop({<<0, 0>>}, A), B), kf \in 0 .. F[1] - 1 :
        q[1] = p3[1] + kf * F[2] /\ q[2] = p3[2] + kf * F[3]
  BY <1>1, LoopVisits
<1>3. PICK p2 \in AndLoop({<<0, 0>>}, A), kb \in 0 .. B[1] - 1 :
        p3[1] = p2[1] + kb * B[2] /\ p3[2] = p2[2] + kb * B[3]
  BY LoopVisits
<1>4. PICK p1 \in {<<0, 0>>}, ka \in 0 .. A[1] - 1 :
        p2[1] = p1[1] + ka * A[2] /\ p2[2] = p1[2] + ka * A[3]
  BY LoopVisits
<1>5. p1[1] = 0 /\ p1[2] = 0
  OBVIOUS
<1> QED BY <1>2, <1>3, <1>4, <1>5

\* Five loops.
LEMMA FiveVisit ==
  ASSUME NEW A, NEW B, NEW C, NEW D, NEW E, NEW q \in Points(<<A, B, C, D, E>>)
  PROVE  \E ka \in 0 .. A[1] - 1, kb \in 0 .. B[1] - 1, kc \in 0 .. C[1] - 1,
            kd \in 0 .. D[1] - 1, ke \in 0 .. E[1] - 1 :
           /\ q[1] = 0 + ka * A[2] + kb * B[2] + kc * C[2] + kd * D[2] + ke * E[2]
           /\ q[2] = 0 + ka * A[3] + kb * B[3] + kc * C[3] + kd * D[3] + ke * E[3]
<1>1. q \in AndLoop(AndLoop(AndLoop(AndLoop(AndLoop({<<0, 0>>}, A), B), C), D), E)
  BY PointsFive
<1>2. PICK p5 \in AndLoop(AndLoop(AndLoop(AndLoop({<<0, 0>>}, A), B), C), D), ke \in 0 .. E[1] - 1 :
        q[1] = p5[1] + ke * E[2] /\ q[2] = p5[2] + ke * E[3]
  BY <1>1, LoopVisits
<1>3. PICK p4 \in AndLoop(AndLoop(AndLoop({<<0, 0>>}, A), B), C), kd \in 0 .. D[1] - 1 :
        p5[1] = p4[1] + kd * D[2] /\ p5[2] = p4[2] + kd * D[3]
  BY LoopVisits
<1>4. PICK p3 \in AndLoop(AndLoop({<<0, 0>>}, A), B), kc \in 0 .. C[1] - 1 :
        p4[1] = p3[1] + kc * C[2] /\ p4[2] = p3[2] + kc * C[3]
  BY LoopVisits
<1>5. PICK p2 \in AndLoop({<<0, 0>>}, A), kb \in 0 .. B[1] - 1 :
        p3[1] = p2[1] + kb * B[2] /\ p3[2] = p2[2] + kb * B[3]
  BY LoopVisits
<1>6. PICK p1 \in {<<0, 0>>}, ka \in 0 .. A[1] - 1 :
        p2[1] = p1[1] + ka * A[2] /\ p2[2] = p1[2] + ka * A[3]
  BY LoopVisits
<1>7. p1[1] = 0 /\ p1[2] = 0
  OBVIOUS
<1> QED BY <1>2, <1>3, <1>4, <1>5, <1>6, <1>7

---------------------------------------------------------------------------
(* The dimensions of plans.                                                *)

\* Dimensions of two, three and five indices.
LEMMA DimsTwo ==
  ASSUME NEW a, NEW b, NEW size, NEW is, NEW os
  PROVE  Dims(<<a, b>>, size, is, os) =
           << <<size[a], is[a], os[a]>>, <<size[b], is[b], os[b]>> >>
<1> DEFINE ds == <<a, b>>
<1>1. Dims(ds, size, is, os) = [k \in 1 .. 2 |-> <<size[ds[k]], is[ds[k]], os[ds[k]]>>]
  BY DEF Dims
<1>2. PICK w : w = Dims(ds, size, is, os)
  OBVIOUS
<1>3. PICK v : v = << <<size[a], is[a], os[a]>>, <<size[b], is[b], os[b]>> >>
  OBVIOUS
<1>4. /\ w = [k \in 1 .. 2 |-> w[k]]
      /\ w[1] = <<size[a], is[a], os[a]>> /\ w[2] = <<size[b], is[b], os[b]>>
  BY <1>1, <1>2
<1>5. /\ v = [k \in 1 .. 2 |-> v[k]]
      /\ v[1] = <<size[a], is[a], os[a]>> /\ v[2] = <<size[b], is[b], os[b]>>
  BY <1>3
<1>6. \A k \in 1 .. 2 : k = 1 \/ k = 2
  OBVIOUS
<1>7. \A k \in 1 .. 2 : w[k] = v[k]
  BY <1>4, <1>5, <1>6
<1> QED BY <1>2, <1>3, <1>4, <1>5, <1>7

\* The dimensions of three directions.
LEMMA DimsThree ==
  ASSUME NEW a, NEW b, NEW c, NEW size, NEW is, NEW os
  PROVE  Dims(<<a, b, c>>, size, is, os) =
           << <<size[a], is[a], os[a]>>, <<size[b], is[b], os[b]>>, <<size[c], is[c], os[c]>> >>
<1> DEFINE ds == <<a, b, c>>
<1>1. Dims(ds, size, is, os) = [k \in 1 .. 3 |-> <<size[ds[k]], is[ds[k]], os[ds[k]]>>]
  BY DEF Dims
<1>2. PICK w : w = Dims(ds, size, is, os)
  OBVIOUS
<1>3. PICK v : v = << <<size[a], is[a], os[a]>>, <<size[b], is[b], os[b]>>, <<size[c], is[c], os[c]>> >>
  OBVIOUS
<1>4. /\ w = [k \in 1 .. 3 |-> w[k]]
      /\ w[1] = <<size[a], is[a], os[a]>> /\ w[2] = <<size[b], is[b], os[b]>>
      /\ w[3] = <<size[c], is[c], os[c]>>
  BY <1>1, <1>2
<1>5. /\ v = [k \in 1 .. 3 |-> v[k]]
      /\ v[1] = <<size[a], is[a], os[a]>> /\ v[2] = <<size[b], is[b], os[b]>>
      /\ v[3] = <<size[c], is[c], os[c]>>
  BY <1>3
<1>6. \A k \in 1 .. 3 : k = 1 \/ k = 2 \/ k = 3
  OBVIOUS
<1>7. \A k \in 1 .. 3 : w[k] = v[k]
  BY <1>4, <1>5, <1>6
<1> QED BY <1>2, <1>3, <1>4, <1>5, <1>7

\* The dimensions of all indices, slowest first.
LEMMA DimsFive ==
  ASSUME NEW q, NEW a, NEW b, NEW c, NEW d, NEW e, q = <<a, b, c, d, e>>,
         NEW size, NEW is, NEW os
  PROVE  Dims(Reverse(q), size, is, os) =
           << <<size[e], is[e], os[e]>>, <<size[d], is[d], os[d]>>, <<size[c], is[c], os[c]>>,
              <<size[b], is[b], os[b]>>, <<size[a], is[a], os[a]>> >>
<1>1. PICK ds : ds = Reverse(q)
  OBVIOUS
<1>2. ds = [k \in 1 .. 5 |-> ds[k]] /\ ds[1] = e /\ ds[2] = d /\ ds[3] = c /\ ds[4] = b /\ ds[5] = a
  <2>1. Len(q) = 5 /\ q[1] = a /\ q[2] = b /\ q[3] = c /\ q[4] = d /\ q[5] = e
    OBVIOUS
  <2>2. ds = [k \in 1 .. 5 |-> q[(5 - k) + 1]]
    BY <1>1, <2>1 DEF Reverse
  <2>3. (5 - 1) + 1 = 5 /\ (5 - 2) + 1 = 4 /\ (5 - 3) + 1 = 3 /\ (5 - 4) + 1 = 2 /\ (5 - 5) + 1 = 1
    OBVIOUS
  <2> QED BY <2>1, <2>2, <2>3
<1>3. PICK w : w = Dims(ds, size, is, os)
  OBVIOUS
<1>4. PICK v : v = << <<size[e], is[e], os[e]>>, <<size[d], is[d], os[d]>>, <<size[c], is[c], os[c]>>,
                      <<size[b], is[b], os[b]>>, <<size[a], is[a], os[a]>> >>
  OBVIOUS
<1>5. /\ w = [k \in 1 .. 5 |-> w[k]]
      /\ w[1] = <<size[e], is[e], os[e]>> /\ w[2] = <<size[d], is[d], os[d]>>
      /\ w[3] = <<size[c], is[c], os[c]>> /\ w[4] = <<size[b], is[b], os[b]>>
      /\ w[5] = <<size[a], is[a], os[a]>>
  BY <1>2, <1>3 DEF Dims
<1>6. /\ v = [k \in 1 .. 5 |-> v[k]]
      /\ v[1] = <<size[e], is[e], os[e]>> /\ v[2] = <<size[d], is[d], os[d]>>
      /\ v[3] = <<size[c], is[c], os[c]>> /\ v[4] = <<size[b], is[b], os[b]>>
      /\ v[5] = <<size[a], is[a], os[a]>>
  BY <1>4
<1>7. \A k \in 1 .. 5 : k = 1 \/ k = 2 \/ k = 3 \/ k = 4 \/ k = 5
  OBVIOUS
<1>8. \A k \in 1 .. 5 : w[k] = v[k]
  BY <1>5, <1>6, <1>7
<1>9. w = v
  BY <1>5, <1>6, <1>8
<1> QED BY <1>1, <1>3, <1>4, <1>9

\* Three dimensions and two.
LEMMA Joined ==
  ASSUME NEW a, NEW b, NEW c, NEW d, NEW e
  PROVE  <<a, b, c>> \o <<d, e>> = <<a, b, c, d, e>>
<1> DEFINE s == <<a, b, c>>
           t == <<d, e>>
<1>1. s \o t = [k \in 1 .. Len(s) + Len(t) |-> IF k <= Len(s) THEN s[k] ELSE t[k - Len(s)]]
  OBVIOUS
<1>2. Len(s) = 3 /\ Len(t) = 2 /\ 3 + 2 = 5
  OBVIOUS
<1>3. PICK w : w = s \o t
  OBVIOUS
<1>4. w = [k \in 1 .. 5 |-> w[k]] /\ \A k \in 1 .. 5 : w[k] = IF k <= 3 THEN s[k] ELSE t[k - 3]
  BY <1>1, <1>2, <1>3
<1>5. w[1] = a /\ w[2] = b /\ w[3] = c /\ w[4] = d /\ w[5] = e
  BY <1>4
<1>6. \A k \in 1 .. 5 : k = 1 \/ k = 2 \/ k = 3 \/ k = 4 \/ k = 5
  OBVIOUS
<1>7. PICK v : v = <<a, b, c, d, e>>
  OBVIOUS
<1>8. v = [k \in 1 .. 5 |-> v[k]] /\ v[1] = a /\ v[2] = b /\ v[3] = c /\ v[4] = d /\ v[5] = e
  BY <1>7
<1>9. \A k \in 1 .. 5 : w[k] = v[k]
  BY <1>5, <1>6, <1>8
<1> QED BY <1>3, <1>4, <1>7, <1>8, <1>9

\* The directions across a line.
LEMMA Across ==
  ASSUME NEW u \in Turns, NEW long \in Directions
  PROVE  /\ \E a, b \in Directions : /\ But(long, <<u[3], u[2], u[1]>>) = <<a, b>>
                                     /\ a # b /\ a # long /\ b # long
         /\ u[1] = long => /\ But(long, <<u[3], u[2], u[1]>>) = <<u[3], u[2]>>
                           /\ But(long, Append(<<u[3], u[2], u[1]>>, 3)) = <<u[3], u[2], 3>>
<1>1. PICK x \in Directions, y \in Directions, z \in Directions :
        /\ x = u[3] /\ y = u[2] /\ z = u[1] /\ x # y /\ x # z /\ y # z
        /\ long = x \/ long = y \/ long = z
  BY TurnIs
<1>2. But(long, <<x, y, z>>) =
        AndDirection(long, AndDirection(long, AndDirection(long, <<>>, x), y), z)
  BY ButThree
<1>3. CASE long = z
  <2>1. AndDirection(long, <<>>, x) = <<x>>
    BY <1>1, <1>3, AppendFirst DEF AndDirection
  <2>2. AndDirection(long, <<x>>, y) = <<x, y>>
    BY <1>1, <1>3, AppendSecond DEF AndDirection
  <2>3. AndDirection(long, <<x, y>>, z) = <<x, y>>
    BY <1>3 DEF AndDirection
  <2>4. But(long, <<x, y, z>>) = <<x, y>>
    BY <1>2, <2>1, <2>2, <2>3
  <2>5. But(long, Append(<<x, y, z>>, 3)) = <<x, y, 3>>
    <3>1. PICK w : w = 3
      OBVIOUS
    <3>2. Append(<<x, y, z>>, w) = <<x, y, z, w>>
      BY AppendFourth
    <3>3. But(long, <<x, y, z, w>>) =
            AndDirection(long, AndDirection(long, AndDirection(long, AndDirection(long, <<>>, x), y), z), w)
      BY ButFour
    <3>4. long # w
      BY <3>1 DEF Directions
    <3>5. AndDirection(long, <<x, y>>, w) = <<x, y, w>>
      BY <3>4, AppendThird DEF AndDirection
    <3> QED BY <2>1, <2>2, <2>3, <3>1, <3>2, <3>3, <3>5
  <2> QED BY <1>1, <1>3, <2>4, <2>5
<1>4. CASE long = y
  <2>1. AndDirection(long, <<>>, x) = <<x>>
    BY <1>1, <1>4, AppendFirst DEF AndDirection
  <2>2. AndDirection(long, <<x>>, y) = <<x>>
    BY <1>4 DEF AndDirection
  <2>3. AndDirection(long, <<x>>, z) = <<x, z>>
    BY <1>1, <1>4, AppendSecond DEF AndDirection
  <2> QED BY <1>1, <1>2, <1>4, <2>1, <2>2, <2>3
<1>5. CASE long = x
  <2>1. AndDirection(long, <<>>, x) = <<>>
    BY <1>5 DEF AndDirection
  <2>2. AndDirection(long, <<>>, y) = <<y>>
    BY <1>1, <1>5, AppendFirst DEF AndDirection
  <2>3. AndDirection(long, <<y>>, z) = <<y, z>>
    BY <1>1, <1>5, AppendSecond DEF AndDirection
  <2> QED BY <1>1, <1>2, <1>5, <2>1, <2>2, <2>3
<1> QED BY <1>1, <1>3, <1>4, <1>5

---------------------------------------------------------------------------
(* The fields of the layouts.                                              *)

\* The layout of complex fields, field by field.
LEMMA ComplexFields ==
  ASSUME NEW c, Fit(c), NEW u \in Turns, NEW e, e = ComplexOf(c, u)
  PROVE  /\ e.order = <<4, 3, u[1], u[2], u[3]>> /\ e.order[2] = 3 /\ e.order[3] = u[1]
         /\ Slow(e) = <<u[3], u[2], u[1]>>
         /\ e.size[4] = 2 /\ e.size[3] = Half(c)
         /\ \A d \in Directions : e.size[d] = Count(c, d) /\ e.stride[d] \in Nat
         /\ e.stride[4] = 1 /\ e.stride[3] = 2 /\ e.stride[u[1]] = 2 * Half(c)
         /\ Half(c) \in Nat /\ Count(c, 3) = 2 * Half(c)
         /\ \A d \in Directions : Count(c, d) \in Nat
<1>1. e.order = <<4, 3, u[1], u[2], u[3]>>
  BY DEF ComplexOf
<1>2. Slow(e) = <<u[3], u[2], u[1]>>
  BY <1>1 DEF Slow
<1>3. /\ e.size = [d \in Parts |-> IF d = 4 THEN 2 ELSE IF d = 3 THEN Half(c) ELSE Count(c, d)]
      /\ e.stride = [d \in Parts |-> IF d = 4 THEN 1 ELSE IF d = 3 THEN 2 ELSE Turned(c, u).stride[d]]
  BY DEF ComplexOf
<1>4. /\ 3 \in Parts /\ 4 \in Parts /\ 3 # 4
      /\ \A d \in Directions : d \in Parts /\ d # 3 /\ d # 4 /\ d \in Indices
  BY DEF Parts, Directions, Indices
<1>5. /\ Half(c) \in Nat /\ Count(c, 3) = 2 * Half(c) /\ \A d \in Directions : Count(c, d) \in Nat
  BY <1>4, CountIs
<1>6. \A d \in Directions : Turned(c, u).stride[d] \in Nat
  <2>1. /\ Count(c, 3) \in Nat /\ Count(c, 3) * Count(c, u[1]) \in Nat
        /\ Count(c, 3) * Count(c, u[1]) * Count(c, u[2]) \in Nat
    <3>1. Count(c, 3) \in Nat /\ Count(c, u[1]) \in Nat /\ Count(c, u[2]) \in Nat
      BY CountsMultiply
    <3> QED BY <3>1
  <2>2. \A d \in Directions : d = u[1] \/ d = u[2] \/ d = u[3]
    BY TurnIs
  <2> QED BY <2>1, <2>2, TurnedStrides
<1>7. u[1] \in Directions
  BY TurnIs
<1>8. e.stride[u[1]] = 2 * Half(c)
  BY <1>3, <1>4, <1>5, <1>7, TurnedStrides
<1> QED BY <1>1, <1>2, <1>3, <1>4, <1>5, <1>6, <1>8

\* The layout of real fields, field by field.
LEMMA RealFields ==
  ASSUME NEW c, Fit(c), NEW u \in Turns, u[1] = c.long, NEW packed \in BOOLEAN,
         NEW e, e = RealOf(c, u, packed)
  PROVE  /\ e.order = <<4, 3, u[1], u[2], u[3]>> /\ e.order[2] = 3 /\ e.order[3] = u[1]
         /\ Slow(e) = <<u[3], u[2], u[1]>>
         /\ e.size[4] = 1 /\ e.size[3] = Half(c)
         /\ e.size[c.long] = RealLength(Count(c, c.long))
         /\ e.size[u[2]] = Count(c, u[2]) /\ e.size[u[3]] = Count(c, u[3])
         /\ e.stride[3] = 1 /\ e.stride[c.long] = Half(c)
         /\ e.stride = [d \in Parts |-> e.stride[d]]
<1>1. e.order = <<4, 3, u[1], u[2], u[3]>> /\ e.stride = [d \in Parts |-> e.stride[d]]
  BY DEF RealOf
<1>2. Slow(e) = <<u[3], u[2], u[1]>>
  BY <1>1 DEF Slow
<1> QED BY <1>1, <1>2, RealStrides

---------------------------------------------------------------------------
(* What reorderings and transforms do to contents.                         *)

\* A set of one.
LEMMA OnlyOne == ASSUME NEW a PROVE Cardinality({a}) = 1 /\ (CHOOSE b \in {a} : TRUE) = a
  BY FS_Singleton

\* Loops that visit the pairs <<A[x], B[x]>>, with no target twice.
Sends(dims, X, A, B) ==
  /\ \A q \in Points(dims) : \E x \in X : q[1] = A[x] /\ q[2] = B[x]
  /\ \A x \in X : <<A[x], B[x]>> \in Points(dims)
  /\ \A x, y \in X : B[x] = B[y] => x = y

\* A reordering that visits each target once takes every value there.
LEMMA ReorderMoves ==
  ASSUME NEW contents, NEW dims, NEW X, NEW A, NEW B, NEW x, Sends(dims, X, A, B),
         x \in X, B[x] \in DOMAIN contents
  PROVE  Reordered(contents, dims)[B[x]] = Look(contents, A[x])
<1> DEFINE points   == Points(dims)
           froms(a) == {p[1] : p \in {q \in points : q[2] = a}}
<1>1. froms(B[x]) = {A[x]}
  <2>1. \A p \in points : p[2] = B[x] => p[1] = A[x]
    BY DEF Sends
  <2>2. <<A[x], B[x]>> \in points /\ <<A[x], B[x]>>[1] = A[x] /\ <<A[x], B[x]>>[2] = B[x]
    BY DEF Sends
  <2> HIDE DEF points
  <2> QED BY <2>1, <2>2
<1>2. Reordered(contents, dims)[B[x]] =
        CASE Cardinality(froms(B[x])) = 1 -> Look(contents, CHOOSE b \in froms(B[x]) : TRUE)
          [] froms(B[x]) = {} /\ B[x] \notin {p[1] : p \in points} -> contents[B[x]]
          [] OTHER -> Junk
  BY DEF Reordered
<1> HIDE DEF froms, points
<1>3. Cardinality(froms(B[x])) = 1 /\ (CHOOSE b \in froms(B[x]) : TRUE) = A[x] /\ froms(B[x]) # {}
  BY <1>1, OnlyOne
<1> QED BY <1>2, <1>3

\* A reordering whose loops go from addresses to themselves changes no contents.
LEMMA ReorderStays ==
  ASSUME NEW contents, NEW dims, \A q \in Points(dims) : q[1] = q[2], NEW a \in DOMAIN contents
  PROVE  Reordered(contents, dims)[a] = contents[a]
<1> DEFINE points   == Points(dims)
           froms(b) == {p[1] : p \in {q \in points : q[2] = b}}
<1>2. Reordered(contents, dims)[a] =
        CASE Cardinality(froms(a)) = 1 -> Look(contents, CHOOSE b \in froms(a) : TRUE)
          [] froms(a) = {} /\ a \notin {p[1] : p \in points} -> contents[a]
          [] OTHER -> Junk
  BY DEF Reordered
<1>3. CASE a \in {p[1] : p \in points}
  <2>1. froms(a) = {a}
    BY <1>3
  <2> HIDE DEF froms, points
  <2>2. Cardinality(froms(a)) = 1 /\ (CHOOSE b \in froms(a) : TRUE) = a /\ froms(a) # {}
    BY <2>1, OnlyOne
  <2> QED BY <1>2, <2>2 DEF Look
<1>4. CASE a \notin {p[1] : p \in points}
  <2>1. froms(a) = {}
    BY <1>4
  <2> HIDE DEF froms, points
  <2>2. Cardinality(froms(a)) = 0
    BY <2>1, FS_EmptySet
  <2> QED BY <1>2, <1>4, <2>1, <2>2
<1> QED BY <1>3, <1>4

\* A reordering keeps the addresses there are.
LEMMA ReorderDomain == ASSUME NEW f, NEW dims PROVE DOMAIN Reordered(f, dims) = DOMAIN f
  BY DEF Reordered

\* Loops visit all sums of steps.
LEMMA LoopReaches ==
  ASSUME NEW ps, NEW d, NEW p \in ps, NEW k \in 0 .. d[1] - 1
  PROVE  <<p[1] + k * d[2], p[2] + k * d[3]>> \in AndLoop(ps, d)
BY DEF AndLoop

\* Three loops.
LEMMA ThreeReach ==
  ASSUME NEW A, NEW B, NEW F, NEW ka \in 0 .. A[1] - 1, NEW kb \in 0 .. B[1] - 1,
         NEW kf \in 0 .. F[1] - 1
  PROVE  <<0 + ka * A[2] + kb * B[2] + kf * F[2], 0 + ka * A[3] + kb * B[3] + kf * F[3]>>
           \in Points(<<A, B, F>>)
<1> DEFINE p1 == <<0, 0>>
           p2 == <<0 + ka * A[2], 0 + ka * A[3]>>
           p3 == <<p2[1] + kb * B[2], p2[2] + kb * B[3]>>
           p4 == <<p3[1] + kf * F[2], p3[2] + kf * F[3]>>
<1>1. p1[1] = 0 /\ p1[2] = 0 /\ p1 \in {<<0, 0>>}
  OBVIOUS
<1>2. p2 \in AndLoop({<<0, 0>>}, A)
  <2> HIDE DEF p1
  <2>1. <<p1[1] + ka * A[2], p1[2] + ka * A[3]>> \in AndLoop({<<0, 0>>}, A)
    BY <1>1, LoopReaches
  <2> QED BY <1>1, <2>1
<1>3. p3 \in AndLoop(AndLoop({<<0, 0>>}, A), B)
  <2> HIDE DEF p2
  <2> QED BY <1>2, LoopReaches
<1>4. p4 \in AndLoop(AndLoop(AndLoop({<<0, 0>>}, A), B), F)
  <2> HIDE DEF p3
  <2> QED BY <1>3, LoopReaches
<1>5. p4 = <<0 + ka * A[2] + kb * B[2] + kf * F[2], 0 + ka * A[3] + kb * B[3] + kf * F[3]>>
  OBVIOUS
<1> HIDE DEF p4
<1> QED BY <1>4, <1>5, PointsThree

\* Five loops.
LEMMA FiveReach ==
  ASSUME NEW A, NEW B, NEW C, NEW D, NEW E,
         NEW ka \in 0 .. A[1] - 1, NEW kb \in 0 .. B[1] - 1, NEW kc \in 0 .. C[1] - 1,
         NEW kd \in 0 .. D[1] - 1, NEW ke \in 0 .. E[1] - 1
  PROVE  <<0 + ka * A[2] + kb * B[2] + kc * C[2] + kd * D[2] + ke * E[2],
           0 + ka * A[3] + kb * B[3] + kc * C[3] + kd * D[3] + ke * E[3]>>
           \in Points(<<A, B, C, D, E>>)
<1> DEFINE p1 == <<0, 0>>
           p2 == <<0 + ka * A[2], 0 + ka * A[3]>>
           p3 == <<p2[1] + kb * B[2], p2[2] + kb * B[3]>>
           p4 == <<p3[1] + kc * C[2], p3[2] + kc * C[3]>>
           p5 == <<p4[1] + kd * D[2], p4[2] + kd * D[3]>>
           p6 == <<p5[1] + ke * E[2], p5[2] + ke * E[3]>>
<1>1. p1[1] = 0 /\ p1[2] = 0 /\ p1 \in {<<0, 0>>}
  OBVIOUS
<1>2. p2 \in AndLoop({<<0, 0>>}, A)
  <2> HIDE DEF p1
  <2>1. <<p1[1] + ka * A[2], p1[2] + ka * A[3]>> \in AndLoop({<<0, 0>>}, A)
    BY <1>1, LoopReaches
  <2> QED BY <1>1, <2>1
<1>3. p3 \in AndLoop(AndLoop({<<0, 0>>}, A), B)
  <2> HIDE DEF p2
  <2> QED BY <1>2, LoopReaches
<1>4. p4 \in AndLoop(AndLoop(AndLoop({<<0, 0>>}, A), B), C)
  <2> HIDE DEF p3
  <2> QED BY <1>3, LoopReaches
<1>5. p5 \in AndLoop(AndLoop(AndLoop(AndLoop({<<0, 0>>}, A), B), C), D)
  <2> HIDE DEF p4
  <2> QED BY <1>4, LoopReaches
<1>6. p6 \in AndLoop(AndLoop(AndLoop(AndLoop(AndLoop({<<0, 0>>}, A), B), C), D), E)
  <2> HIDE DEF p5
  <2> QED BY <1>5, LoopReaches
<1>7. p6 = <<0 + ka * A[2] + kb * B[2] + kc * C[2] + kd * D[2] + ke * E[2],
             0 + ka * A[3] + kb * B[3] + kc * C[3] + kd * D[3] + ke * E[3]>>
  OBVIOUS
<1> HIDE DEF p6
<1> QED BY <1>6, <1>7, PointsFive

\* Lines are pairs.
LEMMA ThreePairs ==
  ASSUME NEW A, NEW B, NEW F, NEW q \in Points(<<A, B, F>>)
  PROVE  q = <<q[1], q[2]>>
<1>1. \A ps, d : \A l \in AndLoop(ps, d) : l = <<l[1], l[2]>>
  BY DEF AndLoop
<1> QED BY <1>1, PointsThree

\* The coordinates at k along the line that begins at x, and the first or the
\* second part of what is there.
Along(x, long, k, first, c) ==
  [x EXCEPT ![long] = k, ![4] = IF c = 1 THEN first ELSE 1 - first]

\* A line holds the values that belong on it, from the one at x on.
LineHolds(fft, long, contents, l, x, space) ==
  \A k \in 0 .. NumberIn(fft) - 1, c \in DOMAIN fft.from :
    Look(contents, ReadAt(fft, l, k, c)) = Value(Along(x, long, k, x[4], c), space)

\* Values are not junk.
LEMMA ValuesAreNoJunk ==
  ASSUME NEW x \in [Parts -> Int], NEW space \in Int
  PROVE  Value(x, space) # Junk /\ Value(x, space).at = x /\ Value(x, space).space = space
<1>1. Value(x, space) \in [at : [Parts -> Int], space : Int]
  BY DEF Value
<1>2. Value(x, space).at = x /\ Value(x, space).space = space
  BY DEF Value
<1> QED BY <1>1, <1>2, JunkAssumption

\* What such a line becomes.
LEMMA LineBecomes ==
  ASSUME NEW fft, NEW long \in Parts, NEW contents, NEW l, NEW space \in Int,
         NEW x \in [Parts -> Int], x[long] = 0, x[4] \in {0, 1}, long # 4,
         x[4] = 0 \/ Len(fft.from) = Len(fft.to),
         0 \in 0 .. NumberIn(fft) - 1, 1 \in DOMAIN fft.from,
         LineHolds(fft, long, contents, l, x, space),
         NEW k \in 0 .. NumberOut(fft) - 1, NEW c \in DOMAIN fft.to
  PROVE  Result(fft, long, contents, l)[<<k, c>>] =
           Value(Along(x, long, k, x[4], c), space + Shift(fft, x[4]))
<1> DEFINE here    == Look(contents, ReadAt(fft, l, 0, 1))
           first   == here.at[4]
           part(d) == IF d = 1 THEN first ELSE 1 - first
           inOrder ==
             /\ here # Junk
             /\ first = 0 \/ Len(fft.from) = Len(fft.to)
             /\ \A j \in 0 .. NumberIn(fft) - 1, d \in DOMAIN fft.from :
                  Look(contents, ReadAt(fft, l, j, d)) =
                    Value([here.at EXCEPT ![long] = j, ![4] = part(d)], here.space)
<1>1. Along(x, long, 0, x[4], 1) = x
  <2>1. Along(x, long, 0, x[4], 1) = [x EXCEPT ![long] = 0, ![4] = x[4]]
    BY DEF Along
  <2>2. 4 \in Parts
    BY DEF Parts
  <2> QED BY <2>1, <2>2
<1>2. here = Value(x, space)
  BY <1>1 DEF LineHolds
<1>3. here # Junk /\ here.at = x /\ here.space = space
  BY <1>2, ValuesAreNoJunk
<1> HIDE DEF here
<1>4. first = x[4]
  BY <1>3
<1>5. inOrder
  <2>1. \A j, d : [here.at EXCEPT ![long] = j, ![4] = part(d)] = Along(x, long, j, x[4], d)
    BY <1>3, <1>4 DEF Along
  <2> HIDE DEF part
  <2> QED BY <1>3, <1>4, <2>1 DEF LineHolds
<1>6. Result(fft, long, contents, l) =
        [kc \in (0 .. NumberOut(fft) - 1) \X DOMAIN fft.to |->
           IF inOrder
           THEN Value([here.at EXCEPT ![long] = kc[1], ![4] = part(kc[2])],
                      here.space + Shift(fft, first))
           ELSE Junk]
  BY Zenon DEF Result, here
<1> HIDE DEF inOrder, part, first
<1>7. Result(fft, long, contents, l)[<<k, c>>] =
        Value([here.at EXCEPT ![long] = k, ![4] = part(c)], here.space + Shift(fft, first))
  <2>1. PICK kc \in (0 .. NumberOut(fft) - 1) \X DOMAIN fft.to :
          kc = <<k, c>> /\ kc[1] = k /\ kc[2] = c
    <3>1. PICK K, C : K = 0 .. NumberOut(fft) - 1 /\ C = DOMAIN fft.to
      OBVIOUS
    <3>2. \E kc \in K \X C : kc = <<k, c>> /\ kc[1] = k /\ kc[2] = c
      <4>1. k \in K /\ c \in C
        BY <3>1
      <4>2. <<k, c>> \in K \X C
        BY <4>1
      <4> QED BY <4>2
    <3> QED BY <3>1, <3>2
  <2>2. Result(fft, long, contents, l)[kc] =
          Value([here.at EXCEPT ![long] = kc[1], ![4] = part(kc[2])], here.space + Shift(fft, first))
    BY <1>5, <1>6
  <2> QED BY <2>1, <2>2
<1>8. [here.at EXCEPT ![long] = k, ![4] = part(c)] = Along(x, long, k, x[4], c)
  BY <1>3, <1>4 DEF Along, part
<1> QED BY <1>3, <1>4, <1>7, <1>8

\* A line has as many values as are written.
LEMMA ResultDomain ==
  ASSUME NEW fft, NEW long, NEW contents, NEW l
  PROVE  DOMAIN Result(fft, long, contents, l) = (0 .. NumberOut(fft) - 1) \X DOMAIN fft.to
  BY DEF Result

\* Two places that lines are written at are different.
WritesApart(fft) ==
  \A l, m \in Points(fft.loops), k, j \in 0 .. NumberOut(fft) - 1, c, d \in DOMAIN fft.to :
    WriteAt(fft, l, k, c) = WriteAt(fft, m, j, d) => l = m /\ k = j /\ c = d

\* No line reads where another is written.
LinesApart(fft) ==
  \A l, m \in Points(fft.loops), k \in 0 .. NumberOut(fft) - 1, c \in DOMAIN fft.to :
    WriteAt(fft, l, k, c) \in Reads(fft, m) => l = m

\* A transform writes what the lines become.
LEMMA TransformWrites ==
  ASSUME NEW fft, NEW long, NEW inPlace, NEW from, NEW to,
         WritesApart(fft), inPlace => LinesApart(fft),
         NEW l \in Points(fft.loops), NEW k \in 0 .. NumberOut(fft) - 1, NEW c \in DOMAIN fft.to,
         WriteAt(fft, l, k, c) \in DOMAIN to
  PROVE  Transformed(fft, long, inPlace, from, to)[WriteAt(fft, l, k, c)] =
           Result(fft, long, from, l)[<<k, c>>]
<1> DEFINE lines   == Points(fft.loops)
           entry(m) == LET r == Result(fft, long, from, m)
                       IN  {<<WriteAt(fft, m, kc[1], kc[2]), m, r[kc]>> : kc \in DOMAIN r}
           written == UNION {entry(m) : m \in lines}
           read    == IF inPlace THEN UNION {{<<b, m>> : b \in Reads(fft, m)} : m \in lines} ELSE {}
           ws(b)   == {w \in written : w[1] = b}
           ls(b)   == {r[2] : r \in {q \in read : q[1] = b}}
<1>0. PICK a : a = WriteAt(fft, l, k, c)
  OBVIOUS
<1>1. PICK res : res = Result(fft, long, from, l)[<<k, c>>]
  OBVIOUS
<1>2. PICK the : the = <<a, l, res>>
  OBVIOUS
<1>3. \A w \in written : w[1] = a => w = the
  <2> SUFFICES ASSUME NEW m \in lines, NEW w \in entry(m), w[1] = a PROVE w = the
    OBVIOUS
  <2>1. PICK kc \in DOMAIN Result(fft, long, from, m) :
          w = <<WriteAt(fft, m, kc[1], kc[2]), m, Result(fft, long, from, m)[kc]>>
    OBVIOUS
  <2>2. kc \in (0 .. NumberOut(fft) - 1) \X DOMAIN fft.to
    BY <2>1, ResultDomain
  <2>3. PICK j \in 0 .. NumberOut(fft) - 1, d \in DOMAIN fft.to : kc = <<j, d>>
    BY <2>2
  <2>4. WriteAt(fft, m, j, d) = a
    BY <2>1, <2>3
  <2>5. l = m /\ k = j /\ c = d
    BY <1>0, <2>4 DEF WritesApart
  <2> QED BY <1>1, <1>2, <2>1, <2>3, <2>4, <2>5
<1>4. the \in written
  <2>1. <<k, c>> \in DOMAIN Result(fft, long, from, l)
    BY ResultDomain
  <2>2. the = <<WriteAt(fft, l, <<k, c>>[1], <<k, c>>[2]), l, Result(fft, long, from, l)[<<k, c>>]>>
    BY <1>0, <1>1, <1>2
  <2>3. the \in entry(l)
    BY <2>1, <2>2
  <2> QED BY <2>3
<1>5. ws(a) = {the}
  <2>1. the[1] = a
    BY <1>2
  <2> HIDE DEF written
  <2> QED BY <1>3, <1>4, <2>1
<1>6. ls(a) \subseteq {w[2] : w \in ws(a)}
  <2>1. \A q \in read : q[1] = a => q[2] = l
    <3> SUFFICES ASSUME inPlace, NEW m \in lines, a \in Reads(fft, m) PROVE m = l
      OBVIOUS
    <3> QED BY <1>0 DEF LinesApart
  <2> HIDE DEF read, ws
  <2>2. \A x \in ls(a) : x = l
    BY <2>1
  <2>3. the[2] = l
    BY <1>2
  <2> QED BY <1>5, <2>2, <2>3
<1>7. Transformed(fft, long, inPlace, from, to) =
        [b \in DOMAIN to |->
           CASE ws(b) = {} /\ ls(b) = {} -> to[b]
             [] Cardinality(ws(b)) = 1 /\ ls(b) \subseteq {w[2] : w \in ws(b)} ->
                  (CHOOSE w \in ws(b) : TRUE)[3]
             [] OTHER -> Junk]
  BY Zenon DEF Transformed
<1> HIDE DEF ws, ls
<1>8. Cardinality(ws(a)) = 1 /\ (CHOOSE w \in ws(a) : TRUE) = the /\ ws(a) # {}
  BY <1>5, OnlyOne
<1>9. Transformed(fft, long, inPlace, from, to)[a] = the[3]
  BY <1>0, <1>6, <1>7, <1>8
<1> QED BY <1>0, <1>1, <1>2, <1>9

\* A transform keeps the addresses there are.
LEMMA TransformDomain ==
  ASSUME NEW fft, NEW long, NEW inPlace, NEW from, NEW to
  PROVE  DOMAIN Transformed(fft, long, inPlace, from, to) = DOMAIN to
  BY DEF Transformed

---------------------------------------------------------------------------
(* Coordinates.                                                            *)

\* The coordinates k1, k2, k3 in the directions of w, of part v of field f.
Spot(w, k1, k2, k3, f, v) ==
  [d \in Parts |-> IF d = 4 THEN v ELSE IF d = 3 THEN f
                   ELSE IF d = w[1] THEN k1 ELSE IF d = w[2] THEN k2 ELSE k3]

\* The coordinates X are everything below n1, n2, n3 in the directions of w, h
\* fields of p parts.
Spans(X, w, n1, n2, n3, h, p) ==
  /\ X \subseteq [Parts -> Int]
  /\ \A x \in X :
       /\ x[w[1]] \in 0 .. n1 - 1 /\ x[w[2]] \in 0 .. n2 - 1 /\ x[w[3]] \in 0 .. n3 - 1
       /\ x[3] \in 0 .. h - 1 /\ x[4] \in 0 .. p - 1
  /\ \A k1 \in 0 .. n1 - 1, k2 \in 0 .. n2 - 1, k3 \in 0 .. n3 - 1,
        f \in 0 .. h - 1, v \in 0 .. p - 1 :
       Spot(w, k1, k2, k3, f, v) \in X

\* Indices told apart by a turn.
LEMMA IndicesApart ==
  ASSUME NEW w \in Turns
  PROVE  /\ w[1] \in Parts /\ w[2] \in Parts /\ w[3] \in Parts /\ 3 \in Parts /\ 4 \in Parts
         /\ \A d \in Parts : d = 4 \/ d = 3 \/ d = w[1] \/ d = w[2] \/ d = w[3]
         /\ w[1] # w[2] /\ w[1] # w[3] /\ w[2] # w[3]
         /\ w[1] # 3 /\ w[2] # 3 /\ w[3] # 3 /\ w[1] # 4 /\ w[2] # 4 /\ w[3] # 4
  BY TurnIs DEF Parts

\* The coordinates of a spot.
LEMMA SpotIs ==
  ASSUME NEW w \in Turns, NEW k1, NEW k2, NEW k3, NEW f, NEW v,
         NEW x, x = Spot(w, k1, k2, k3, f, v)
  PROVE  /\ x[w[1]] = k1 /\ x[w[2]] = k2 /\ x[w[3]] = k3 /\ x[3] = f /\ x[4] = v
         /\ x = [d \in Parts |-> x[d]]
  BY IndicesApart DEF Spot

\* Every point is a spot.
LEMMA PointIsSpot ==
  ASSUME NEW w \in Turns, NEW x \in [Parts -> Int]
  PROVE  x = Spot(w, x[w[1]], x[w[2]], x[w[3]], x[3], x[4])
<1>1. PICK y : y = Spot(w, x[w[1]], x[w[2]], x[w[3]], x[3], x[4])
  OBVIOUS
<1>2. y[w[1]] = x[w[1]] /\ y[w[2]] = x[w[2]] /\ y[w[3]] = x[w[3]] /\ y[3] = x[3] /\ y[4] = x[4]
      /\ y = [d \in Parts |-> y[d]]
  BY <1>1, SpotIs
<1>3. \A d \in Parts : y[d] = x[d]
  BY <1>2, IndicesApart
<1>4. x = [d \in Parts |-> x[d]]
  OBVIOUS
<1> QED BY <1>1, <1>2, <1>3, <1>4

\* Along a line.
LEMMA AlongIs ==
  ASSUME NEW w \in Turns, NEW k2, NEW k3, NEW f, NEW first, NEW k, NEW c
  PROVE  Along(Spot(w, 0, k2, k3, f, first), w[1], k, first, c) =
           Spot(w, k, k2, k3, f, IF c = 1 THEN first ELSE 1 - first)
<1>1. PICK x, y, z : /\ x = Spot(w, 0, k2, k3, f, first)
                     /\ y = Along(x, w[1], k, first, c)
                     /\ z = Spot(w, k, k2, k3, f, IF c = 1 THEN first ELSE 1 - first)
  OBVIOUS
<1>2. x = [d \in Parts |-> x[d]] /\ x[w[2]] = k2 /\ x[w[3]] = k3 /\ x[3] = f
  BY <1>1, SpotIs
<1>3. z = [d \in Parts |-> z[d]] /\ z[w[1]] = k /\ z[w[2]] = k2 /\ z[w[3]] = k3 /\ z[3] = f
      /\ z[4] = IF c = 1 THEN first ELSE 1 - first
  BY <1>1, SpotIs
<1>4. y = [x EXCEPT ![w[1]] = k, ![4] = IF c = 1 THEN first ELSE 1 - first]
  BY <1>1 DEF Along
<1>5. /\ y = [d \in Parts |-> y[d]]
      /\ y[w[1]] = k /\ y[w[2]] = k2 /\ y[w[3]] = k3 /\ y[3] = f
      /\ y[4] = IF c = 1 THEN first ELSE 1 - first
  <2>1. PICK a, b, d, v : a = w[1] /\ b = w[2] /\ d = w[3] /\ v = IF c = 1 THEN first ELSE 1 - first
    OBVIOUS
  <2>2. /\ a \in Parts /\ b \in Parts /\ d \in Parts /\ 3 \in Parts /\ 4 \in Parts
        /\ a # b /\ a # d /\ a # 3 /\ a # 4 /\ b # 4 /\ d # 4 /\ 3 # 4
    BY <2>1, IndicesApart
  <2>3. DOMAIN x = Parts
    BY <1>2
  <2>4. PICK m : m = [x EXCEPT ![a] = k]
    OBVIOUS
  <2>5. /\ DOMAIN m = Parts /\ m[a] = k /\ m[b] = x[b] /\ m[d] = x[d] /\ m[3] = x[3]
    BY <2>2, <2>3, <2>4
  <2>6. y = [m EXCEPT ![4] = v]
    BY <1>4, <2>1, <2>4
  <2>7. y[4] = v /\ y[a] = m[a] /\ y[b] = m[b] /\ y[d] = m[d] /\ y[3] = m[3]
    BY <2>2, <2>5, <2>6
  <2>8. y = [j \in Parts |-> y[j]]
    BY <2>5, <2>6
  <2> QED BY <1>2, <2>1, <2>5, <2>7, <2>8
<1>6. \A d \in Parts : y[d] = z[d]
  BY <1>3, <1>5, IndicesApart
<1>7. y = z
  BY <1>3, <1>5, <1>6
<1> QED BY <1>1, <1>7

\* The coordinates of a layout.
LEMMA LayoutSpans ==
  ASSUME NEW e, \A d \in Parts : e.size[d] \in Nat, NEW w \in Turns
  PROVE  Spans(Coordinates(e), w, e.size[w[1]], e.size[w[2]], e.size[w[3]], e.size[3], e.size[4])
<1>1. PICK sz : sz = e.size
  OBVIOUS
<1>2. Coordinates(e) =
        {[d \in Parts |-> y[d + 1]] :
           y \in (0 .. sz[0] - 1) \X (0 .. sz[1] - 1) \X (0 .. sz[2] - 1)
                   \X (0 .. sz[3] - 1) \X (0 .. sz[4] - 1)}
  BY <1>1 DEF Coordinates
<1>3. ASSUME NEW x \in Coordinates(e)
      PROVE  x = [d \in Parts |-> x[d]] /\ \A d \in Parts : x[d] \in 0 .. sz[d] - 1
  <2>1. PICK y \in (0 .. sz[0] - 1) \X (0 .. sz[1] - 1) \X (0 .. sz[2] - 1)
                     \X (0 .. sz[3] - 1) \X (0 .. sz[4] - 1) :
          x = [b \in Parts |-> y[b + 1]]
    BY <1>2
  <2>2. /\ y[1] \in 0 .. sz[0] - 1 /\ y[2] \in 0 .. sz[1] - 1 /\ y[3] \in 0 .. sz[2] - 1
        /\ y[4] \in 0 .. sz[3] - 1 /\ y[5] \in 0 .. sz[4] - 1
    OBVIOUS
  <2>3. x[0] = y[1] /\ x[1] = y[2] /\ x[2] = y[3] /\ x[3] = y[4] /\ x[4] = y[5]
    BY <2>1 DEF Parts
  <2>4. \A d \in Parts : d = 0 \/ d = 1 \/ d = 2 \/ d = 3 \/ d = 4
    BY DEF Parts
  <2>5. \A d \in Parts : x[d] \in 0 .. sz[d] - 1
    BY <2>2, <2>3, <2>4
  <2> QED BY <2>1, <2>5
<1>4. \A x \in Coordinates(e) : x \in [Parts -> Int]
  <2> SUFFICES ASSUME NEW x \in Coordinates(e) PROVE x \in [Parts -> Int]
    OBVIOUS
  <2>1. x = [d \in Parts |-> x[d]] /\ \A d \in Parts : x[d] \in 0 .. sz[d] - 1
    BY <1>3
  <2>2. \A d \in Parts : x[d] \in Int
    BY <2>1
  <2> QED BY <2>1, <2>2
<1>5. ASSUME NEW x, x = [d \in Parts |-> x[d]], \A d \in Parts : x[d] \in 0 .. sz[d] - 1
      PROVE  x \in Coordinates(e)
  <2> DEFINE y == <<x[0], x[1], x[2], x[3], x[4]>>
  <2>1. y \in (0 .. sz[0] - 1) \X (0 .. sz[1] - 1) \X (0 .. sz[2] - 1)
                \X (0 .. sz[3] - 1) \X (0 .. sz[4] - 1)
    <3>1. 0 \in Parts /\ 1 \in Parts /\ 2 \in Parts /\ 3 \in Parts /\ 4 \in Parts
      BY DEF Parts
    <3>2. /\ x[0] \in 0 .. sz[0] - 1 /\ x[1] \in 0 .. sz[1] - 1 /\ x[2] \in 0 .. sz[2] - 1
          /\ x[3] \in 0 .. sz[3] - 1 /\ x[4] \in 0 .. sz[4] - 1
      BY <1>5, <3>1
    <3> QED BY <3>2
  <2>2. \A d \in Parts : x[d] = y[d + 1]
    <3>1. \A d \in Parts : d = 0 \/ d = 1 \/ d = 2 \/ d = 3 \/ d = 4
      BY DEF Parts
    <3>2. y[0 + 1] = x[0] /\ y[1 + 1] = x[1] /\ y[2 + 1] = x[2] /\ y[3 + 1] = x[3] /\ y[4 + 1] = x[4]
      OBVIOUS
    <3> QED BY <3>1, <3>2
  <2> HIDE DEF y
  <2>3. x = [d \in Parts |-> y[d + 1]]
    BY <1>5, <2>2
  <2> QED BY <1>2, <2>1, <2>3
<1>6. ASSUME NEW k1 \in 0 .. sz[w[1]] - 1, NEW k2 \in 0 .. sz[w[2]] - 1,
             NEW k3 \in 0 .. sz[w[3]] - 1, NEW f \in 0 .. sz[3] - 1, NEW v \in 0 .. sz[4] - 1
      PROVE  Spot(w, k1, k2, k3, f, v) \in Coordinates(e)
  <2>1. PICK x : x = Spot(w, k1, k2, k3, f, v)
    OBVIOUS
  <2>2. /\ x[w[1]] = k1 /\ x[w[2]] = k2 /\ x[w[3]] = k3 /\ x[3] = f /\ x[4] = v
        /\ x = [d \in Parts |-> x[d]]
    BY <2>1, SpotIs
  <2>3. \A d \in Parts : x[d] \in 0 .. sz[d] - 1
    BY <2>2, IndicesApart
  <2> QED BY <1>5, <2>1, <2>2, <2>3
<1>7. \A x \in Coordinates(e) :
        /\ x[w[1]] \in 0 .. sz[w[1]] - 1 /\ x[w[2]] \in 0 .. sz[w[2]] - 1
        /\ x[w[3]] \in 0 .. sz[w[3]] - 1
        /\ x[3] \in 0 .. sz[3] - 1 /\ x[4] \in 0 .. sz[4] - 1
  BY <1>3, IndicesApart
<1> QED BY <1>1, <1>4, <1>6, <1>7 DEF Spans

---------------------------------------------------------------------------
(* Addresses, and the lines of a transform.                                *)

\* Lengths and steps.
Measured(e) == \A d \in Parts : e.size[d] \in Nat /\ e.stride[d] \in Nat

\* The values of a space are where a layout says.
StoredAs(contents, e, space) ==
  \A x \in Coordinates(e) : Look(contents, Address(e, x)) = Value(x, space)

\* No two coordinates have one address.
Distinct(e) == \A x, y \in Coordinates(e) : Address(e, x) = Address(e, y) => x = y

\* An address is a sum of steps, in whatever order the directions are taken.
LEMMA AddressIs ==
  ASSUME NEW e, Measured(e), NEW w \in Turns,
         NEW x, x[w[1]] \in Int, x[w[2]] \in Int, x[w[3]] \in Int, x[3] \in Int, x[4] \in Int
  PROVE  /\ Address(e, x) = x[w[3]] * e.stride[w[3]] + x[w[2]] * e.stride[w[2]]
                              + x[w[1]] * e.stride[w[1]] + x[3] * e.stride[3] + x[4] * e.stride[4]
         /\ x[w[3]] * e.stride[w[3]] \in Int /\ x[w[2]] * e.stride[w[2]] \in Int
         /\ x[w[1]] * e.stride[w[1]] \in Int /\ x[3] * e.stride[3] \in Int
         /\ x[4] * e.stride[4] \in Int
<1>0. PICK k1 \in Int, k2 \in Int, k3 \in Int, f \in Int, v \in Int :
        k1 = x[w[1]] /\ k2 = x[w[2]] /\ k3 = x[w[3]] /\ f = x[3] /\ v = x[4]
  OBVIOUS
<1>1. PICK st : st = e.stride
  OBVIOUS
<1>2. PICK s1 \in Nat, s2 \in Nat, s3 \in Nat, sf \in Nat, sv \in Nat :
        s1 = st[w[1]] /\ s2 = st[w[2]] /\ s3 = st[w[3]] /\ sf = st[3] /\ sv = st[4]
  <2>1. w[1] \in Parts /\ w[2] \in Parts /\ w[3] \in Parts /\ 3 \in Parts /\ 4 \in Parts
    BY IndicesApart
  <2> QED BY <1>1, <2>1 DEF Measured
<1>3. s1 * k1 \in Int /\ s2 * k2 \in Int /\ s3 * k3 \in Int /\ sf * f \in Int /\ sv * v \in Int
  OBVIOUS
<1>4. PICK t \in [0 .. 2 -> Int] : \A d \in 0 .. 2 : t[d] = st[d] * x[d]
  <2>1. \A d \in 0 .. 2 : st[d] * x[d] \in Int
    <3>1. \A d \in 0 .. 2 : d = w[1] \/ d = w[2] \/ d = w[3]
      BY TurnIs DEF Directions
    <3>2. st[w[1]] * x[w[1]] \in Int /\ st[w[2]] * x[w[2]] \in Int /\ st[w[3]] * x[w[3]] \in Int
      BY <1>0, <1>2, <1>3
    <3> QED BY <3>1, <3>2
  <2> DEFINE z == [d \in 0 .. 2 |-> st[d] * x[d]]
  <2>2. z \in [0 .. 2 -> Int] /\ \A d \in 0 .. 2 : z[d] = st[d] * x[d]
    BY <2>1
  <2> HIDE DEF z
  <2> QED BY <2>2
<1>5. t[0] + t[1] + t[2] = t[w[1]] + t[w[2]] + t[w[3]]
  <2>1. PICK a \in 0 .. 2, b \in 0 .. 2, d \in 0 .. 2 :
          a = w[1] /\ b = w[2] /\ d = w[3] /\ a # b /\ a # d /\ b # d
    BY TurnIs DEF Directions
  <2>2. t[0] \in Int /\ t[1] \in Int /\ t[2] \in Int
    OBVIOUS
  <2>3. t[0] + t[1] + t[2] = t[a] + t[b] + t[d]
    BY <2>1, <2>2
  <2> QED BY <2>1, <2>3
<1>6. t[w[1]] = s1 * k1 /\ t[w[2]] = s2 * k2 /\ t[w[3]] = s3 * k3
  <2>1. w[1] \in 0 .. 2 /\ w[2] \in 0 .. 2 /\ w[3] \in 0 .. 2
    BY TurnIs DEF Directions
  <2> QED BY <1>0, <1>2, <1>4, <2>1
<1>7. Address(e, x) = t[0] + t[1] + t[2] + sf * f + sv * v
  <2>1. Address(e, x) = st[0] * x[0] + st[1] * x[1] + st[2] * x[2] + st[3] * x[3] + st[4] * x[4]
    BY <1>1 DEF Address
  <2>2. 0 \in 0 .. 2 /\ 1 \in 0 .. 2 /\ 2 \in 0 .. 2
    OBVIOUS
  <2> QED BY <1>0, <1>2, <1>4, <2>1, <2>2
<1>8. /\ s1 * k1 = k1 * s1 /\ s2 * k2 = k2 * s2 /\ s3 * k3 = k3 * s3
      /\ sf * f = f * sf /\ sv * v = v * sv
  OBVIOUS
<1>9. Address(e, x) = s1 * k1 + s2 * k2 + s3 * k3 + sf * f + sv * v
  BY <1>5, <1>6, <1>7
<1>10. PICK p1 \in Int, p2 \in Int, p3 \in Int, pf \in Int, pv \in Int :
         /\ p1 = k1 * s1 /\ p2 = k2 * s2 /\ p3 = k3 * s3 /\ pf = f * sf /\ pv = v * sv
         /\ Address(e, x) = p1 + p2 + p3 + pf + pv
  BY <1>3, <1>8, <1>9
<1>11. p1 + p2 + p3 + pf + pv = p3 + p2 + p1 + pf + pv
  OBVIOUS
<1> QED BY <1>0, <1>1, <1>2, <1>10, <1>11

\* The first or the second part of a value.
PartAt(first, c) == IF c = 1 THEN first ELSE 1 - first

\* The transform fft takes lines in the direction w[1] of the layout e to
\* those of the layout g, and begins with the part first.
Carries(fft, w, e, g, first) ==
  /\ fft.loops = << <<e.size[w[3]], e.stride[w[3]], g.stride[w[3]]>>,
                    <<e.size[w[2]], e.stride[w[2]], g.stride[w[2]]>>,
                    <<e.size[3], e.stride[3], g.stride[3]>> >>
  /\ g.size[w[3]] = e.size[w[3]] /\ g.size[w[2]] = e.size[w[2]] /\ g.size[3] = e.size[3]
  /\ fft.dim[2] = e.stride[w[1]] /\ fft.dim[3] = g.stride[w[1]]
  /\ NumberIn(fft) = e.size[w[1]] /\ NumberOut(fft) = g.size[w[1]]
  /\ NumberIn(fft) > 0
  /\ Len(fft.from) = e.size[4] /\ DOMAIN fft.from = 1 .. e.size[4]
  /\ Len(fft.to) = g.size[4] /\ DOMAIN fft.to = 1 .. g.size[4]
  /\ e.size[4] \in {1, 2} /\ g.size[4] \in {1, 2}
  /\ first = 0 \/ (first = 1 /\ e.size[4] = 2 /\ g.size[4] = 2)
  /\ \A c \in DOMAIN fft.from : fft.from[c] = PartAt(first, c) * e.stride[4]
  /\ \A c \in DOMAIN fft.to : fft.to[c] = PartAt(first, c) * g.stride[4]

\* The line at some coordinates.
LineOf(w, e, g, k3, k2, f) ==
  <<0 + k3 * e.stride[w[3]] + k2 * e.stride[w[2]] + f * e.stride[3],
    0 + k3 * g.stride[w[3]] + k2 * g.stride[w[2]] + f * g.stride[3]>>

\* The loops lead to these lines and to no others.
LEMMA LinesAre ==
  ASSUME NEW fft, NEW w, NEW e, NEW g, NEW first, w \in Turns, Carries(fft, w, e, g, first)
  PROVE  /\ \A l \in Points(fft.loops) :
              \E k3 \in 0 .. e.size[w[3]] - 1, k2 \in 0 .. e.size[w[2]] - 1, f \in 0 .. e.size[3] - 1 :
                l = LineOf(w, e, g, k3, k2, f)
         /\ \A k3 \in 0 .. e.size[w[3]] - 1, k2 \in 0 .. e.size[w[2]] - 1, f \in 0 .. e.size[3] - 1 :
              LineOf(w, e, g, k3, k2, f) \in Points(fft.loops)
<1>1. PICK A, B, F : /\ A = <<e.size[w[3]], e.stride[w[3]], g.stride[w[3]]>>
                     /\ B = <<e.size[w[2]], e.stride[w[2]], g.stride[w[2]]>>
                     /\ F = <<e.size[3], e.stride[3], g.stride[3]>>
  OBVIOUS
<1>2. fft.loops = <<A, B, F>>
  BY <1>1 DEF Carries
<1>3. /\ A[1] = e.size[w[3]] /\ A[2] = e.stride[w[3]] /\ A[3] = g.stride[w[3]]
      /\ B[1] = e.size[w[2]] /\ B[2] = e.stride[w[2]] /\ B[3] = g.stride[w[2]]
      /\ F[1] = e.size[3] /\ F[2] = e.stride[3] /\ F[3] = g.stride[3]
  BY <1>1
<1>4. ASSUME NEW l \in Points(fft.loops)
      PROVE  \E k3 \in 0 .. e.size[w[3]] - 1, k2 \in 0 .. e.size[w[2]] - 1, f \in 0 .. e.size[3] - 1 :
               l = LineOf(w, e, g, k3, k2, f)
  <2>1. PICK ka \in 0 .. A[1] - 1, kb \in 0 .. B[1] - 1, kf \in 0 .. F[1] - 1 :
           /\ l[1] = 0 + ka * A[2] + kb * B[2] + kf * F[2]
           /\ l[2] = 0 + ka * A[3] + kb * B[3] + kf * F[3]
    BY <1>2, ThreeVisit
  <2>2. l = <<l[1], l[2]>>
    BY <1>2, ThreePairs
  <2>3. l = LineOf(w, e, g, ka, kb, kf)
    BY <1>3, <2>1, <2>2 DEF LineOf
  <2> QED BY <1>3, <2>3
<1>5. ASSUME NEW k3 \in 0 .. e.size[w[3]] - 1, NEW k2 \in 0 .. e.size[w[2]] - 1,
             NEW f \in 0 .. e.size[3] - 1
      PROVE  LineOf(w, e, g, k3, k2, f) \in Points(fft.loops)
  <2>1. <<0 + k3 * A[2] + k2 * B[2] + f * F[2], 0 + k3 * A[3] + k2 * B[3] + f * F[3]>>
           \in Points(<<A, B, F>>)
    BY <1>3, ThreeReach
  <2> QED BY <1>2, <1>3, <2>1 DEF LineOf
<1> QED BY <1>4, <1>5

\* What is read at a place of a line has the address of the layout it is read
\* from.
ReadsRight(fft, w, e, g, first, k3, k2, f, k, c) ==
  ReadAt(fft, LineOf(w, e, g, k3, k2, f), k, c) =
    Address(e, Spot(w, k, k2, k3, f, PartAt(first, c)))

\* The same of what is written.
WritesRight(fft, w, e, g, first, k3, k2, f, k, c) ==
  WriteAt(fft, LineOf(w, e, g, k3, k2, f), k, c) =
    Address(g, Spot(w, k, k2, k3, f, PartAt(first, c)))

\* What is read on a line has the addresses of the one layout.
LEMMA LineReads ==
  ASSUME NEW fft, NEW w, w \in Turns, NEW e, NEW g, NEW first, Carries(fft, w, e, g, first),
         Measured(e), Measured(g), NEW k3, NEW k2, NEW f, NEW k, NEW c,
         k3 \in Int, k2 \in Int, f \in Int, k \in Int, c \in DOMAIN fft.from
  PROVE  ReadsRight(fft, w, e, g, first, k3, k2, f, k, c)
<1>0. PICK l : l = LineOf(w, e, g, k3, k2, f)
  OBVIOUS
<1>1. PartAt(first, c) \in Int
  BY DEF Carries, PartAt
<1>2. PICK v \in Int : v = PartAt(first, c)
  BY <1>1
<1>3. PICK x : x = Spot(w, k, k2, k3, f, v)
  OBVIOUS
<1>4. x[w[1]] = k /\ x[w[2]] = k2 /\ x[w[3]] = k3 /\ x[3] = f /\ x[4] = v
  BY <1>3, SpotIs
<1>5. /\ Address(e, x) = k3 * e.stride[w[3]] + k2 * e.stride[w[2]] + k * e.stride[w[1]]
                            + f * e.stride[3] + v * e.stride[4]
      /\ k3 * e.stride[w[3]] \in Int /\ k2 * e.stride[w[2]] \in Int
      /\ k * e.stride[w[1]] \in Int /\ f * e.stride[3] \in Int /\ v * e.stride[4] \in Int
  BY <1>4, AddressIs
<1>6. ReadAt(fft, l, k, c) =
        (0 + k3 * e.stride[w[3]] + k2 * e.stride[w[2]] + f * e.stride[3])
          + k * e.stride[w[1]] + v * e.stride[4]
  <2>1. l[1] = 0 + k3 * e.stride[w[3]] + k2 * e.stride[w[2]] + f * e.stride[3]
    BY <1>0 DEF LineOf
  <2>2. fft.dim[2] = e.stride[w[1]] /\ fft.from[c] = v * e.stride[4]
    BY <1>2 DEF Carries
  <2> QED BY <2>1, <2>2 DEF ReadAt
<1>7. PICK p1 \in Int, p2 \in Int, p3 \in Int, pf \in Int, pv \in Int :
        /\ p3 = k3 * e.stride[w[3]] /\ p2 = k2 * e.stride[w[2]] /\ p1 = k * e.stride[w[1]]
        /\ pf = f * e.stride[3] /\ pv = v * e.stride[4]
  BY <1>5
<1>8. (0 + p3 + p2 + pf) + p1 + pv = p3 + p2 + p1 + pf + pv
  OBVIOUS
<1> QED BY <1>0, <1>2, <1>3, <1>5, <1>6, <1>7, <1>8 DEF ReadsRight

\* What is written on it has those of the other.
LEMMA LineWrites ==
  ASSUME NEW fft, NEW w, w \in Turns, NEW e, NEW g, NEW first, Carries(fft, w, e, g, first),
         Measured(e), Measured(g), NEW k3, NEW k2, NEW f, NEW k, NEW c,
         k3 \in Int, k2 \in Int, f \in Int, k \in Int, c \in DOMAIN fft.to
  PROVE  WritesRight(fft, w, e, g, first, k3, k2, f, k, c)
<1>0. PICK l : l = LineOf(w, e, g, k3, k2, f)
  OBVIOUS
<1>1. PartAt(first, c) \in Int
  BY DEF Carries, PartAt
<1>2. PICK v \in Int : v = PartAt(first, c)
  BY <1>1
<1>3. PICK x : x = Spot(w, k, k2, k3, f, v)
  OBVIOUS
<1>4. x[w[1]] = k /\ x[w[2]] = k2 /\ x[w[3]] = k3 /\ x[3] = f /\ x[4] = v
  BY <1>3, SpotIs
<1>5. /\ Address(g, x) = k3 * g.stride[w[3]] + k2 * g.stride[w[2]] + k * g.stride[w[1]]
                            + f * g.stride[3] + v * g.stride[4]
      /\ k3 * g.stride[w[3]] \in Int /\ k2 * g.stride[w[2]] \in Int
      /\ k * g.stride[w[1]] \in Int /\ f * g.stride[3] \in Int /\ v * g.stride[4] \in Int
  BY <1>4, AddressIs
<1>6. WriteAt(fft, l, k, c) =
        (0 + k3 * g.stride[w[3]] + k2 * g.stride[w[2]] + f * g.stride[3])
          + k * g.stride[w[1]] + v * g.stride[4]
  <2>1. l[2] = 0 + k3 * g.stride[w[3]] + k2 * g.stride[w[2]] + f * g.stride[3]
    BY <1>0 DEF LineOf
  <2>2. fft.dim[3] = g.stride[w[1]] /\ fft.to[c] = v * g.stride[4]
    BY <1>2 DEF Carries
  <2> QED BY <2>1, <2>2 DEF WriteAt
<1>7. PICK p1 \in Int, p2 \in Int, p3 \in Int, pf \in Int, pv \in Int :
        /\ p3 = k3 * g.stride[w[3]] /\ p2 = k2 * g.stride[w[2]] /\ p1 = k * g.stride[w[1]]
        /\ pf = f * g.stride[3] /\ pv = v * g.stride[4]
  BY <1>5
<1>8. (0 + p3 + p2 + pf) + p1 + pv = p3 + p2 + p1 + pf + pv
  OBVIOUS
<1> QED BY <1>0, <1>2, <1>3, <1>5, <1>6, <1>7, <1>8 DEF WritesRight

---------------------------------------------------------------------------
(* A transform, and a reordering, from one layout to another.              *)

\* The parts of a value are told apart by where they are in the order.
LEMMA PartsAre ==
  ASSUME NEW fft, NEW w, NEW e, NEW g, NEW first, Carries(fft, w, e, g, first)
  PROVE  /\ first \in {0, 1}
         /\ \A c \in DOMAIN fft.from : PartAt(first, c) \in 0 .. e.size[4] - 1
         /\ \A c \in DOMAIN fft.to : PartAt(first, c) \in 0 .. g.size[4] - 1
         /\ \A c, d \in DOMAIN fft.to : PartAt(first, c) = PartAt(first, d) => c = d
         /\ \A v \in 0 .. g.size[4] - 1 : \E c \in DOMAIN fft.to : v = PartAt(first, c)
<1>1. PICK p \in {1, 2}, q \in {1, 2} :
        /\ p = e.size[4] /\ q = g.size[4] /\ DOMAIN fft.from = 1 .. p /\ DOMAIN fft.to = 1 .. q
        /\ first = 0 \/ (first = 1 /\ p = 2 /\ q = 2)
  BY DEF Carries
<1>2. first \in {0, 1}
  BY <1>1
<1>3. \A c \in 1 .. p : PartAt(first, c) \in 0 .. p - 1
  BY <1>1 DEF PartAt
<1>4. \A c \in 1 .. q : PartAt(first, c) \in 0 .. q - 1
  BY <1>1 DEF PartAt
<1>5. \A c, d \in 1 .. q : PartAt(first, c) = PartAt(first, d) => c = d
  BY <1>1 DEF PartAt
<1>6. ASSUME NEW v \in 0 .. q - 1 PROVE \E c \in 1 .. q : v = PartAt(first, c)
  <2>1. CASE v = first
    <3>1. 1 \in 1 .. q /\ v = PartAt(first, 1)
      BY <1>1, <2>1 DEF PartAt
    <3> QED BY <3>1
  <2>2. CASE v # first
    <3>1. q = 2 /\ 2 \in 1 .. q /\ v = PartAt(first, 2)
      BY <1>1, <2>2 DEF PartAt
    <3> QED BY <3>1
  <2> QED BY <2>1, <2>2
<1> QED BY <1>1, <1>2, <1>3, <1>4, <1>5, <1>6

\* Where a line of one layout is in memory there is none but the same line of
\* the other.
OneLine(w, e, g) ==
  \A x \in Coordinates(e), y \in Coordinates(g) :
    Address(e, x) = Address(g, y) => x[w[2]] = y[w[2]] /\ x[w[3]] = y[w[3]] /\ x[3] = y[3]

\* Transforms take the values from the addresses of one layout to those of
\* the other.
LEMMA TransformMoves ==
  ASSUME NEW fft, NEW w \in Turns, NEW e, NEW g, NEW first, Carries(fft, w, e, g, first),
         Measured(e), Measured(g), Distinct(g),
         NEW inPlace \in BOOLEAN, inPlace => OneLine(w, e, g),
         NEW from, NEW to, \A y \in Coordinates(g) : Address(g, y) \in DOMAIN to,
         NEW space \in Int, StoredAs(from, e, space)
  PROVE  StoredAs(Transformed(fft, w[1], inPlace, from, to), g, space + Shift(fft, first))
<1>1. PICK n1, n2, n3, h, p, m, q :
        /\ n1 = e.size[w[1]] /\ n2 = e.size[w[2]] /\ n3 = e.size[w[3]] /\ h = e.size[3]
        /\ p = e.size[4] /\ m = g.size[w[1]] /\ q = g.size[4]
  OBVIOUS
<1>2. /\ NumberIn(fft) = n1 /\ NumberOut(fft) = m /\ n1 > 0 /\ n1 \in Nat
      /\ g.size[w[2]] = n2 /\ g.size[w[3]] = n3 /\ g.size[3] = h
  <2>1. e.size[w[1]] \in Nat
    BY IndicesApart DEF Measured
  <2> QED BY <1>1, <2>1 DEF Carries
<1>3. Spans(Coordinates(e), w, n1, n2, n3, h, p) /\ Spans(Coordinates(g), w, m, n2, n3, h, q)
  <2>1. (\A d \in Parts : e.size[d] \in Nat) /\ (\A d \in Parts : g.size[d] \in Nat)
    BY DEF Measured
  <2>2. Spans(Coordinates(e), w, e.size[w[1]], e.size[w[2]], e.size[w[3]], e.size[3], e.size[4])
    BY <2>1, LayoutSpans
  <2>3. Spans(Coordinates(g), w, g.size[w[1]], g.size[w[2]], g.size[w[3]], g.size[3], g.size[4])
    BY <2>1, LayoutSpans
  <2> QED BY <1>1, <1>2, <2>2, <2>3
<1>4. /\ first \in {0, 1}
      /\ \A c \in DOMAIN fft.from : PartAt(first, c) \in 0 .. p - 1
      /\ \A c \in DOMAIN fft.to : PartAt(first, c) \in 0 .. q - 1
      /\ \A c, d \in DOMAIN fft.to : PartAt(first, c) = PartAt(first, d) => c = d
      /\ \A v \in 0 .. q - 1 : \E c \in DOMAIN fft.to : v = PartAt(first, c)
  BY <1>1, PartsAre
<1>5. ASSUME NEW k3 \in 0 .. n3 - 1, NEW k2 \in 0 .. n2 - 1, NEW f \in 0 .. h - 1,
             NEW l, l = LineOf(w, e, g, k3, k2, f)
      PROVE  l \in Points(fft.loops)
  BY <1>1, <1>5, LinesAre
<1>10. ASSUME NEW k3 \in 0 .. n3 - 1, NEW k2 \in 0 .. n2 - 1, NEW f \in 0 .. h - 1,
              NEW l, l = LineOf(w, e, g, k3, k2, f),
              NEW k \in 0 .. n1 - 1, NEW c \in DOMAIN fft.from,
              NEW x, x = Spot(w, k, k2, k3, f, PartAt(first, c))
       PROVE  x \in Coordinates(e) /\ ReadAt(fft, l, k, c) = Address(e, x)
  <2>1. k \in Int /\ k3 \in Int /\ k2 \in Int /\ f \in Int
    OBVIOUS
  <2>2. PICK v \in 0 .. p - 1 : v = PartAt(first, c)
    BY <1>4
  <2>3. Spot(w, k, k2, k3, f, v) \in Coordinates(e)
    BY <1>3 DEF Spans
  <2>4. ReadAt(fft, LineOf(w, e, g, k3, k2, f), k, c) =
          Address(e, Spot(w, k, k2, k3, f, PartAt(first, c)))
    <3>1. ReadsRight(fft, w, e, g, first, k3, k2, f, k, c)
      BY <2>1, LineReads
    <3> QED BY <3>1 DEF ReadsRight
  <2> QED BY <1>10, <2>2, <2>3, <2>4
<1>11. ASSUME NEW k3 \in 0 .. n3 - 1, NEW k2 \in 0 .. n2 - 1, NEW f \in 0 .. h - 1,
              NEW l, l = LineOf(w, e, g, k3, k2, f),
              NEW k \in 0 .. m - 1, NEW c \in DOMAIN fft.to,
              NEW x, x = Spot(w, k, k2, k3, f, PartAt(first, c))
       PROVE  x \in Coordinates(g) /\ WriteAt(fft, l, k, c) = Address(g, x)
  <2>1. k \in Int /\ k3 \in Int /\ k2 \in Int /\ f \in Int
    OBVIOUS
  <2>2. PICK v \in 0 .. q - 1 : v = PartAt(first, c)
    BY <1>4
  <2>3. Spot(w, k, k2, k3, f, v) \in Coordinates(g)
    BY <1>3 DEF Spans
  <2>4. WriteAt(fft, LineOf(w, e, g, k3, k2, f), k, c) =
          Address(g, Spot(w, k, k2, k3, f, PartAt(first, c)))
    <3>1. WritesRight(fft, w, e, g, first, k3, k2, f, k, c)
      BY <2>1, LineWrites
    <3> QED BY <3>1 DEF WritesRight
  <2> QED BY <1>11, <2>2, <2>3, <2>4
<1>6. \A l \in Points(fft.loops) :
        \E k3 \in 0 .. n3 - 1, k2 \in 0 .. n2 - 1, f \in 0 .. h - 1 : l = LineOf(w, e, g, k3, k2, f)
  <2>1. \A l \in Points(fft.loops) :
          \E k3 \in 0 .. e.size[w[3]] - 1, k2 \in 0 .. e.size[w[2]] - 1, f \in 0 .. e.size[3] - 1 :
            l = LineOf(w, e, g, k3, k2, f)
    BY LinesAre
  <2> QED BY <1>1, <2>1
<1>7. WritesApart(fft)
  <2> SUFFICES ASSUME NEW l \in Points(fft.loops), NEW o \in Points(fft.loops),
                      NEW k \in 0 .. m - 1, NEW j \in 0 .. m - 1,
                      NEW c \in DOMAIN fft.to, NEW d \in DOMAIN fft.to,
                      WriteAt(fft, l, k, c) = WriteAt(fft, o, j, d)
               PROVE  l = o /\ k = j /\ c = d
    BY <1>2 DEF WritesApart
  <2>1. PICK k3 \in 0 .. n3 - 1, k2 \in 0 .. n2 - 1, f \in 0 .. h - 1 : l = LineOf(w, e, g, k3, k2, f)
    BY <1>6
  <2>2. PICK j3 \in 0 .. n3 - 1, j2 \in 0 .. n2 - 1, r \in 0 .. h - 1 : o = LineOf(w, e, g, j3, j2, r)
    BY <1>6
  <2>3. PICK x, y : /\ x = Spot(w, k, k2, k3, f, PartAt(first, c))
                    /\ y = Spot(w, j, j2, j3, r, PartAt(first, d))
    OBVIOUS
  <2>4. x \in Coordinates(g) /\ WriteAt(fft, l, k, c) = Address(g, x)
    BY <1>11, <2>1, <2>3
  <2>5. y \in Coordinates(g) /\ WriteAt(fft, o, j, d) = Address(g, y)
    BY <1>11, <2>2, <2>3
  <2>6. x = y
    BY <2>4, <2>5 DEF Distinct
  <2>7. x[w[1]] = k /\ x[w[2]] = k2 /\ x[w[3]] = k3 /\ x[3] = f /\ x[4] = PartAt(first, c)
    BY <2>3, SpotIs
  <2>8. y[w[1]] = j /\ y[w[2]] = j2 /\ y[w[3]] = j3 /\ y[3] = r /\ y[4] = PartAt(first, d)
    BY <2>3, SpotIs
  <2> QED BY <1>4, <2>1, <2>2, <2>6, <2>7, <2>8
<1>8. inPlace => LinesApart(fft)
  <2> SUFFICES ASSUME inPlace, NEW l \in Points(fft.loops), NEW o \in Points(fft.loops),
                      NEW k \in 0 .. m - 1, NEW c \in DOMAIN fft.to,
                      WriteAt(fft, l, k, c) \in Reads(fft, o)
               PROVE  l = o
    BY <1>2 DEF LinesApart
  <2>0. PICK j \in 0 .. n1 - 1, d \in DOMAIN fft.from : WriteAt(fft, l, k, c) = ReadAt(fft, o, j, d)
    BY <1>2 DEF Reads
  <2>1. PICK k3 \in 0 .. n3 - 1, k2 \in 0 .. n2 - 1, f \in 0 .. h - 1 : l = LineOf(w, e, g, k3, k2, f)
    BY <1>6
  <2>2. PICK j3 \in 0 .. n3 - 1, j2 \in 0 .. n2 - 1, r \in 0 .. h - 1 : o = LineOf(w, e, g, j3, j2, r)
    BY <1>6
  <2>3. PICK x, y : /\ x = Spot(w, k, k2, k3, f, PartAt(first, c))
                    /\ y = Spot(w, j, j2, j3, r, PartAt(first, d))
    OBVIOUS
  <2>4. x \in Coordinates(g) /\ WriteAt(fft, l, k, c) = Address(g, x)
    BY <1>11, <2>1, <2>3
  <2>5. y \in Coordinates(e) /\ ReadAt(fft, o, j, d) = Address(e, y)
    BY <1>10, <2>2, <2>3
  <2>6. y[w[2]] = x[w[2]] /\ y[w[3]] = x[w[3]] /\ y[3] = x[3]
    BY <2>0, <2>4, <2>5 DEF OneLine
  <2>7. x[w[1]] = k /\ x[w[2]] = k2 /\ x[w[3]] = k3 /\ x[3] = f
    BY <2>3, SpotIs
  <2>8. y[w[1]] = j /\ y[w[2]] = j2 /\ y[w[3]] = j3 /\ y[3] = r
    BY <2>3, SpotIs
  <2> QED BY <2>1, <2>2, <2>6, <2>7, <2>8
<1>9. ASSUME NEW y \in Coordinates(g)
      PROVE  Look(Transformed(fft, w[1], inPlace, from, to), Address(g, y)) =
               Value(y, space + Shift(fft, first))
  <2>1. PICK k \in 0 .. m - 1, k2 \in 0 .. n2 - 1, k3 \in 0 .. n3 - 1, f \in 0 .. h - 1,
             v \in 0 .. q - 1 : k = y[w[1]] /\ k2 = y[w[2]] /\ k3 = y[w[3]] /\ f = y[3] /\ v = y[4]
    BY <1>3 DEF Spans
  <2>2. y = Spot(w, k, k2, k3, f, v)
    <3>1. y \in [Parts -> Int]
      BY <1>3 DEF Spans
    <3> QED BY <2>1, <3>1, PointIsSpot
  <2>3. PICK c \in DOMAIN fft.to : v = PartAt(first, c)
    BY <1>4
  <2>4. PICK l : l = LineOf(w, e, g, k3, k2, f)
    OBVIOUS
  <2>5. l \in Points(fft.loops) /\ WriteAt(fft, l, k, c) = Address(g, y)
    BY <1>5, <1>11, <2>2, <2>3, <2>4
  <2>6. PICK x : x = Spot(w, 0, k2, k3, f, first)
    OBVIOUS
  <2>7. /\ 0 \in 0 .. NumberIn(fft) - 1 /\ 1 \in DOMAIN fft.from
        /\ (first = 0 \/ Len(fft.from) = Len(fft.to))
        /\ k \in 0 .. NumberOut(fft) - 1
    <3>1. 0 \in 0 .. n1 - 1
      BY <1>2
    <3>2. 1 \in DOMAIN fft.from /\ (first = 0 \/ Len(fft.from) = Len(fft.to))
      BY DEF Carries
    <3> QED BY <1>2, <3>1, <3>2
  <2>8. x \in Coordinates(e) /\ x \in [Parts -> Int] /\ x[w[1]] = 0 /\ x[4] = first
    <3>1. PartAt(first, 1) = first
      BY DEF PartAt
    <3>2. x \in Coordinates(e)
      BY <1>2, <1>10, <2>4, <2>6, <2>7, <3>1
    <3> QED BY <1>3, <2>6, <3>2, SpotIs DEF Spans
  <2>9. \A j, d : Along(x, w[1], j, x[4], d) = Spot(w, j, k2, k3, f, PartAt(first, d))
    BY <2>6, <2>8, AlongIs DEF PartAt
  <2>10. LineHolds(fft, w[1], from, l, x, space)
    <3> SUFFICES ASSUME NEW j \in 0 .. n1 - 1, NEW d \in DOMAIN fft.from
                 PROVE  Look(from, ReadAt(fft, l, j, d)) = Value(Along(x, w[1], j, x[4], d), space)
      BY <1>2 DEF LineHolds
    <3>1. PICK z : z = Spot(w, j, k2, k3, f, PartAt(first, d))
      OBVIOUS
    <3>2. z \in Coordinates(e) /\ ReadAt(fft, l, j, d) = Address(e, z)
      BY <1>10, <2>4, <3>1
    <3> QED BY <2>9, <3>1, <3>2 DEF StoredAs
  <2>11. Result(fft, w[1], from, l)[<<k, c>>] = Value(Along(x, w[1], k, x[4], c), space + Shift(fft, x[4]))
    <3>1. w[1] \in Parts /\ w[1] # 4
      BY IndicesApart
    <3> QED BY <1>4, <2>7, <2>8, <2>10, <3>1, LineBecomes
  <2>12. WriteAt(fft, l, k, c) \in DOMAIN to
    BY <2>5
  <2>13. Transformed(fft, w[1], inPlace, from, to)[WriteAt(fft, l, k, c)] =
           Result(fft, w[1], from, l)[<<k, c>>]
    BY <1>7, <1>8, <2>5, <2>7, <2>12, TransformWrites
  <2>14. Look(Transformed(fft, w[1], inPlace, from, to), Address(g, y)) =
           Transformed(fft, w[1], inPlace, from, to)[WriteAt(fft, l, k, c)]
    BY <2>5, <2>12, TransformDomain DEF Look
  <2>15. Along(x, w[1], k, x[4], c) = y
    BY <2>2, <2>3, <2>9
  <2> QED BY <2>8, <2>11, <2>13, <2>14, <2>15
<1> QED BY <1>9 DEF StoredAs

\* The reordering dims takes the layout e to the layout g.
Reorders(dims, w, e, g) ==
  /\ dims = << <<e.size[w[3]], e.stride[w[3]], g.stride[w[3]]>>,
               <<e.size[w[2]], e.stride[w[2]], g.stride[w[2]]>>,
               <<e.size[w[1]], e.stride[w[1]], g.stride[w[1]]>>,
               <<e.size[3], e.stride[3], g.stride[3]>>,
               <<e.size[4], e.stride[4], g.stride[4]>> >>
  /\ \A d \in Parts : g.size[d] = e.size[d]

\* Coordinates depend on the sizes alone.
LEMMA SameCoordinates ==
  ASSUME NEW e, NEW g, \A d \in Parts : g.size[d] = e.size[d]
  PROVE  Coordinates(e) = Coordinates(g)
<1>1. /\ e.size[0] = g.size[0] /\ e.size[1] = g.size[1] /\ e.size[2] = g.size[2]
      /\ e.size[3] = g.size[3] /\ e.size[4] = g.size[4]
  BY DEF Parts
<1> QED BY <1>1 DEF Coordinates

\* Reorderings take the values from the addresses of one layout to those of
\* the other.
LEMMA ReorderingMoves ==
  ASSUME NEW dims, NEW w, NEW e, NEW g, w \in Turns, Reorders(dims, w, e, g),
         Measured(e), Measured(g), Distinct(g),
         NEW contents, \A y \in Coordinates(g) : Address(g, y) \in DOMAIN contents,
         NEW space, StoredAs(contents, e, space)
  PROVE  StoredAs(Reordered(contents, dims), g, space)
<1>1. Coordinates(e) = Coordinates(g)
  BY SameCoordinates DEF Reorders
<1>2. PICK n1, n2, n3, h, p :
        /\ n1 = e.size[w[1]] /\ n2 = e.size[w[2]] /\ n3 = e.size[w[3]] /\ h = e.size[3]
        /\ p = e.size[4]
  OBVIOUS
<1>3. PICK X : X = Coordinates(e)
  OBVIOUS
<1>4. Spans(X, w, n1, n2, n3, h, p)
  BY <1>2, <1>3, LayoutSpans DEF Measured
<1>5. PICK A, B, C, D, E :
        /\ A = <<e.size[w[3]], e.stride[w[3]], g.stride[w[3]]>>
        /\ B = <<e.size[w[2]], e.stride[w[2]], g.stride[w[2]]>>
        /\ C = <<e.size[w[1]], e.stride[w[1]], g.stride[w[1]]>>
        /\ D = <<e.size[3], e.stride[3], g.stride[3]>>
        /\ E = <<e.size[4], e.stride[4], g.stride[4]>>
  OBVIOUS
<1>6. dims = <<A, B, C, D, E>>
  BY <1>5 DEF Reorders
<1>7. /\ A[1] = n3 /\ A[2] = e.stride[w[3]] /\ A[3] = g.stride[w[3]]
      /\ B[1] = n2 /\ B[2] = e.stride[w[2]] /\ B[3] = g.stride[w[2]]
      /\ C[1] = n1 /\ C[2] = e.stride[w[1]] /\ C[3] = g.stride[w[1]]
      /\ D[1] = h /\ D[2] = e.stride[3] /\ D[3] = g.stride[3]
      /\ E[1] = p /\ E[2] = e.stride[4] /\ E[3] = g.stride[4]
  BY <1>2, <1>5
<1>8. ASSUME NEW x \in X
      PROVE  /\ x[w[1]] \in 0 .. n1 - 1 /\ x[w[2]] \in 0 .. n2 - 1 /\ x[w[3]] \in 0 .. n3 - 1
             /\ x[3] \in 0 .. h - 1 /\ x[4] \in 0 .. p - 1
             /\ Address(e, x) = 0 + x[w[3]] * A[2] + x[w[2]] * B[2] + x[w[1]] * C[2]
                                  + x[3] * D[2] + x[4] * E[2]
             /\ Address(g, x) = 0 + x[w[3]] * A[3] + x[w[2]] * B[3] + x[w[1]] * C[3]
                                  + x[3] * D[3] + x[4] * E[3]
  <2>1. /\ x[w[1]] \in 0 .. n1 - 1 /\ x[w[2]] \in 0 .. n2 - 1 /\ x[w[3]] \in 0 .. n3 - 1
        /\ x[3] \in 0 .. h - 1 /\ x[4] \in 0 .. p - 1
    BY <1>4 DEF Spans
  <2>2. x[w[1]] \in Int /\ x[w[2]] \in Int /\ x[w[3]] \in Int /\ x[3] \in Int /\ x[4] \in Int
    BY <2>1
  <2>3. /\ Address(e, x) = x[w[3]] * e.stride[w[3]] + x[w[2]] * e.stride[w[2]]
                              + x[w[1]] * e.stride[w[1]] + x[3] * e.stride[3] + x[4] * e.stride[4]
        /\ x[w[3]] * e.stride[w[3]] \in Int
    BY <2>2, AddressIs
  <2>4. /\ Address(g, x) = x[w[3]] * g.stride[w[3]] + x[w[2]] * g.stride[w[2]]
                              + x[w[1]] * g.stride[w[1]] + x[3] * g.stride[3] + x[4] * g.stride[4]
        /\ x[w[3]] * g.stride[w[3]] \in Int
    BY <2>2, AddressIs
  <2>5. /\ 0 + x[w[3]] * e.stride[w[3]] = x[w[3]] * e.stride[w[3]]
        /\ 0 + x[w[3]] * g.stride[w[3]] = x[w[3]] * g.stride[w[3]]
    BY <2>3, <2>4
  <2> QED BY <1>7, <2>1, <2>3, <2>4, <2>5
<1> DEFINE P == [x \in X |-> Address(e, x)]
           Q == [x \in X |-> Address(g, x)]
<1>9. \A x \in X : P[x] = Address(e, x) /\ Q[x] = Address(g, x)
  OBVIOUS
<1> HIDE DEF P, Q
<1>10. ASSUME NEW q \in Points(dims) PROVE \E x \in X : q[1] = P[x] /\ q[2] = Q[x]
  <2>1. PICK ka \in 0 .. A[1] - 1, kb \in 0 .. B[1] - 1, kc \in 0 .. C[1] - 1,
             kd \in 0 .. D[1] - 1, ke \in 0 .. E[1] - 1 :
           /\ q[1] = 0 + ka * A[2] + kb * B[2] + kc * C[2] + kd * D[2] + ke * E[2]
           /\ q[2] = 0 + ka * A[3] + kb * B[3] + kc * C[3] + kd * D[3] + ke * E[3]
    BY <1>6, FiveVisit
  <2>2. PICK x : x = Spot(w, kc, kb, ka, kd, ke)
    OBVIOUS
  <2>3. x \in X
    BY <1>4, <1>7, <2>1, <2>2 DEF Spans
  <2>4. x[w[1]] = kc /\ x[w[2]] = kb /\ x[w[3]] = ka /\ x[3] = kd /\ x[4] = ke
    BY <2>2, SpotIs
  <2>5. q[1] = Address(e, x) /\ q[2] = Address(g, x)
    BY <1>8, <2>1, <2>3, <2>4
  <2> QED BY <1>9, <2>3, <2>5
<1>11. ASSUME NEW x \in X PROVE <<P[x], Q[x]>> \in Points(dims)
  <2>1. PICK ka \in 0 .. A[1] - 1, kb \in 0 .. B[1] - 1, kc \in 0 .. C[1] - 1,
             kd \in 0 .. D[1] - 1, ke \in 0 .. E[1] - 1 :
          ka = x[w[3]] /\ kb = x[w[2]] /\ kc = x[w[1]] /\ kd = x[3] /\ ke = x[4]
    BY <1>7, <1>8
  <2>2. <<0 + ka * A[2] + kb * B[2] + kc * C[2] + kd * D[2] + ke * E[2],
          0 + ka * A[3] + kb * B[3] + kc * C[3] + kd * D[3] + ke * E[3]>> \in Points(dims)
    BY <1>6, FiveReach
  <2>3. /\ P[x] = 0 + ka * A[2] + kb * B[2] + kc * C[2] + kd * D[2] + ke * E[2]
        /\ Q[x] = 0 + ka * A[3] + kb * B[3] + kc * C[3] + kd * D[3] + ke * E[3]
    BY <1>8, <1>9, <2>1
  <2> QED BY <2>2, <2>3
<1>12. \A x, y \in X : Q[x] = Q[y] => x = y
  BY <1>1, <1>3, <1>9 DEF Distinct
<1>13. ASSUME NEW x \in X
       PROVE  Look(Reordered(contents, dims), Address(g, x)) = Value(x, space)
  <2>1. Q[x] \in DOMAIN contents
    BY <1>1, <1>3, <1>9
  <2>2. Reordered(contents, dims)[Q[x]] = Look(contents, P[x])
    <3>1. Sends(dims, X, P, Q)
      BY <1>10, <1>11, <1>12 DEF Sends
    <3> QED BY <2>1, <3>1, ReorderMoves
  <2>3. Look(contents, P[x]) = Value(x, space)
    BY <1>3, <1>9 DEF StoredAs
  <2> QED BY <1>9, <2>1, <2>2, <2>3, ReorderDomain DEF Look
<1> QED BY <1>1, <1>3, <1>13 DEF StoredAs

\* So it leaves the values where they are.
LEMMA ReorderingStaysPut ==
  ASSUME NEW dims, NEW contents, NEW e, NEW space, StoredAs(contents, e, space),
         \A q \in Points(dims) : q[1] = q[2]
  PROVE  StoredAs(Reordered(contents, dims), e, space)
<1>1. ASSUME NEW a PROVE Look(Reordered(contents, dims), a) = Look(contents, a)
  BY ReorderStays, ReorderDomain DEF Look
<1> QED BY <1>1 DEF StoredAs

---------------------------------------------------------------------------
(* Layouts that have a place in memory for each value.                     *)

\* Numbers of two digits are told apart by their digits.
LEMMA TwoDigits ==
  ASSUME NEW b, NEW q, NEW r, NEW m, NEW j, b \in Nat, q \in Nat, m \in Nat,
         r \in 0 .. b - 1, j \in 0 .. b - 1, q * b + r = m * b + j
  PROVE  q = m /\ r = j
<1>1. (q * b + r) \div b = q /\ (q * b + r) % b = r
  <2>1. q + 1 \in Nat /\ q \in 0 .. (q + 1) - 1
    OBVIOUS
  <2> QED BY <2>1, PlaceHasCell
<1>2. (m * b + j) \div b = m /\ (m * b + j) % b = j
  <2>1. m + 1 \in Nat /\ m \in 0 .. (m + 1) - 1
    OBVIOUS
  <2> QED BY <2>1, PlaceHasCell
<1> QED BY <1>1, <1>2

\* Where a part of a field is among the fields of one place.
Inner(e, x) == x[3] * e.stride[3] + x[4] * e.stride[4]

\* Lines of places of H reals each, stored in L reals, n2 of them one after
\* the other.
Rows(e, u, n2, L, H) ==
  /\ u \in Turns /\ Measured(e)
  /\ n2 \in Nat /\ L \in Nat /\ H \in Nat
  /\ e.size[u[2]] = n2 /\ e.size[u[1]] * H <= L
  /\ e.stride[u[1]] = H /\ e.stride[u[2]] = L /\ e.stride[u[3]] = L * n2
  /\ \A x \in Coordinates(e) : Inner(e, x) \in 0 .. H - 1

\* The coordinates of rows.
InRow(e, u, n2, L, H, x) ==
  /\ x[u[1]] \in Nat /\ x[u[2]] \in 0 .. n2 - 1 /\ x[u[3]] \in Nat /\ x[3] \in Nat /\ x[4] \in Nat
  /\ x = Spot(u, x[u[1]], x[u[2]], x[u[3]], x[3], x[4])
  /\ x[3] \in 0 .. e.size[3] - 1 /\ x[4] \in 0 .. e.size[4] - 1
  /\ Inner(e, x) \in 0 .. H - 1
  /\ x[u[1]] * H + Inner(e, x) \in 0 .. L - 1
  /\ Address(e, x) = (x[u[3]] * n2 + x[u[2]]) * L + (x[u[1]] * H + Inner(e, x))

\* An address is a row, a place on it and a part of it.
LEMMA RowsAddress ==
  ASSUME NEW e, NEW u, NEW n2, NEW L, NEW H, NEW x, Rows(e, u, n2, L, H), x \in Coordinates(e)
  PROVE  InRow(e, u, n2, L, H, x)
<1>1. /\ u \in Turns /\ Measured(e) /\ n2 \in Nat /\ L \in Nat /\ H \in Nat
      /\ e.size[u[2]] = n2 /\ e.size[u[1]] * H <= L
      /\ e.stride[u[1]] = H /\ e.stride[u[2]] = L /\ e.stride[u[3]] = L * n2
      /\ Inner(e, x) \in 0 .. H - 1
  BY DEF Rows
<1>2. PICK n1 \in Nat, n3 \in Nat, h \in Nat, p \in Nat :
        n1 = e.size[u[1]] /\ n3 = e.size[u[3]] /\ h = e.size[3] /\ p = e.size[4]
  <2>1. u[1] \in Parts /\ u[3] \in Parts /\ 3 \in Parts /\ 4 \in Parts
    BY <1>1, IndicesApart
  <2> QED BY <1>1, <2>1 DEF Measured
<1>3. PICK k1 \in 0 .. n1 - 1, k2 \in 0 .. n2 - 1, k3 \in 0 .. n3 - 1, f \in 0 .. h - 1,
           v \in 0 .. p - 1 :
        k1 = x[u[1]] /\ k2 = x[u[2]] /\ k3 = x[u[3]] /\ f = x[3] /\ v = x[4]
  <2>1. Spans(Coordinates(e), u, e.size[u[1]], e.size[u[2]], e.size[u[3]], e.size[3], e.size[4])
    BY <1>1, LayoutSpans DEF Measured
  <2> QED BY <1>1, <1>2, <2>1 DEF Spans
<1>4. x = Spot(u, x[u[1]], x[u[2]], x[u[3]], x[3], x[4])
  <2>1. Spans(Coordinates(e), u, e.size[u[1]], e.size[u[2]], e.size[u[3]], e.size[3], e.size[4])
    BY <1>1, LayoutSpans DEF Measured
  <2>2. x \in [Parts -> Int]
    BY <2>1 DEF Spans
  <2> QED BY <1>1, <2>2, PointIsSpot
<1>5. PICK i \in 0 .. H - 1 : i = Inner(e, x)
  BY <1>1
<1>6. k1 * H + i \in 0 .. L - 1
  <2>1. k1 * H + i \in 0 .. n1 * H - 1
    BY <1>1, PlaceHasCell
  <2>2. n1 * H \in Int /\ n1 * H <= L
    BY <1>1, <1>2
  <2> QED BY <1>1, <2>1, <2>2
<1>7. Address(e, x) = k3 * (L * n2) + k2 * L + k1 * H + f * e.stride[3] + v * e.stride[4]
      /\ f * e.stride[3] \in Int /\ v * e.stride[4] \in Int
  <2>1. x[u[1]] \in Int /\ x[u[2]] \in Int /\ x[u[3]] \in Int /\ x[3] \in Int /\ x[4] \in Int
    BY <1>3
  <2>2. /\ Address(e, x) = x[u[3]] * e.stride[u[3]] + x[u[2]] * e.stride[u[2]]
                              + x[u[1]] * e.stride[u[1]] + x[3] * e.stride[3] + x[4] * e.stride[4]
        /\ x[3] * e.stride[3] \in Int /\ x[4] * e.stride[4] \in Int
    BY <1>1, <2>1, AddressIs
  <2> QED BY <1>1, <1>3, <2>2
<1>8. PICK a \in Int, b \in Int : a = f * e.stride[3] /\ b = v * e.stride[4] /\ i = a + b
  BY <1>3, <1>5, <1>7 DEF Inner
<1>9. k3 * (L * n2) + k2 * L + k1 * H + a + b = (k3 * n2 + k2) * L + (k1 * H + (a + b))
  <2>1. k3 * (L * n2) + k2 * L = (k3 * n2 + k2) * L
    BY <1>1
  <2>2. k3 * (L * n2) \in Int /\ k2 * L \in Int /\ k1 * H \in Int /\ (k3 * n2 + k2) * L \in Int
    BY <1>1
  <2> QED BY <2>1, <2>2
<1>10. Address(e, x) = (k3 * n2 + k2) * L + (k1 * H + i)
  BY <1>7, <1>8, <1>9
<1> QED BY <1>1, <1>2, <1>3, <1>4, <1>5, <1>6, <1>10 DEF InRow

\* One address is on one row, at one place.
LEMMA RowsApart ==
  ASSUME NEW e, NEW g, NEW u, NEW n2, NEW L, NEW H, NEW K, NEW x, NEW y,
         Rows(e, u, n2, L, H), Rows(g, u, n2, L, K), x \in Coordinates(e), y \in Coordinates(g),
         Address(e, x) = Address(g, y)
  PROVE  /\ x[u[2]] = y[u[2]] /\ x[u[3]] = y[u[3]]
         /\ x[u[1]] * H + Inner(e, x) = y[u[1]] * K + Inner(g, y)
<1>1. InRow(e, u, n2, L, H, x) /\ InRow(g, u, n2, L, K, y)
  BY RowsAddress
<1>2. n2 \in Nat /\ L \in Nat
  BY DEF Rows
<1>3. PICK k3 \in Nat, k2 \in 0 .. n2 - 1, i \in 0 .. L - 1 :
        /\ k3 = x[u[3]] /\ k2 = x[u[2]] /\ i = x[u[1]] * H + Inner(e, x)
        /\ Address(e, x) = (k3 * n2 + k2) * L + i
  BY <1>1 DEF InRow
<1>4. PICK j3 \in Nat, j2 \in 0 .. n2 - 1, j \in 0 .. L - 1 :
        /\ j3 = y[u[3]] /\ j2 = y[u[2]] /\ j = y[u[1]] * K + Inner(g, y)
        /\ Address(g, y) = (j3 * n2 + j2) * L + j
  BY <1>1 DEF InRow
<1>5. PICK q \in Nat, m \in Nat : q = k3 * n2 + k2 /\ m = j3 * n2 + j2
  BY <1>2
<1>6. q * L + i = m * L + j
  BY <1>3, <1>4, <1>5
<1>7. q = m /\ i = j
  BY <1>2, <1>6, TwoDigits
<1>8. k3 * n2 + k2 = j3 * n2 + j2
  BY <1>5, <1>7
<1>9. k3 = j3 /\ k2 = j2
  BY <1>2, <1>8, TwoDigits
<1> QED BY <1>3, <1>4, <1>7, <1>9

\* No two coordinates of rows have one address, if the fields of a place have not.
LEMMA RowsDistinct ==
  ASSUME NEW e, NEW u, NEW n2, NEW L, NEW H, Rows(e, u, n2, L, H),
         \A x, y \in Coordinates(e) : Inner(e, x) = Inner(e, y) => x[3] = y[3] /\ x[4] = y[4]
  PROVE  Distinct(e)
<1> SUFFICES ASSUME NEW x \in Coordinates(e), NEW y \in Coordinates(e), Address(e, x) = Address(e, y)
             PROVE  x = y
  BY DEF Distinct
<1>1. InRow(e, u, n2, L, H, x) /\ InRow(e, u, n2, L, H, y)
  BY RowsAddress
<1>2. /\ x[u[2]] = y[u[2]] /\ x[u[3]] = y[u[3]]
      /\ x[u[1]] * H + Inner(e, x) = y[u[1]] * H + Inner(e, y)
  BY RowsApart
<1>3. PICK k, j, i, m : /\ k = x[u[1]] /\ j = y[u[1]] /\ i = Inner(e, x) /\ m = Inner(e, y)
                        /\ k \in Nat /\ j \in Nat /\ i \in 0 .. H - 1 /\ m \in 0 .. H - 1
                        /\ k * H + i = j * H + m
  BY <1>1, <1>2 DEF InRow
<1>4. H \in Nat
  BY DEF Rows
<1>5. k = j /\ i = m
  BY <1>3, <1>4, TwoDigits
<1>6. x[3] = y[3] /\ x[4] = y[4]
  BY <1>3, <1>5
<1> QED BY <1>1, <1>2, <1>3, <1>5, <1>6 DEF InRow

\* Rows of a pencil lie in the local memory.
LEMMA RowsWithin ==
  ASSUME NEW c, NEW e, NEW u, NEW n2, NEW L, NEW H, NEW x, Fit(c),
         Rows(e, u, n2, L, H), n2 = Count(c, u[2]), e.size[u[3]] = Count(c, u[3]),
         L <= Count(c, 3) * Count(c, u[1]), x \in Coordinates(e)
  PROVE  Address(e, x) \in Within(c)
<1>1. InRow(e, u, n2, L, H, x) /\ u \in Turns /\ L \in Nat /\ n2 \in Nat
  BY RowsAddress DEF Rows
<1>2. x[u[3]] \in 0 .. Count(c, u[3]) - 1
  <2>1. Spans(Coordinates(e), u, e.size[u[1]], e.size[u[2]], e.size[u[3]], e.size[3], e.size[4])
    BY <1>1, LayoutSpans DEF Rows, Measured
  <2> QED BY <2>1 DEF Spans
<1>3. PICK k3, k2, i : /\ k3 = x[u[3]] /\ k2 = x[u[2]] /\ i = x[u[1]] * H + Inner(e, x)
                       /\ k3 \in 0 .. Count(c, u[3]) - 1 /\ k2 \in 0 .. Count(c, u[2]) - 1
                       /\ i \in 0 .. L - 1
                       /\ Address(e, x) = (k3 * n2 + k2) * L + i
  BY <1>1, <1>2 DEF InRow
<1>4. k2 * L + k3 * (L * Count(c, u[2])) + i \in Within(c)
  BY <1>1, <1>3, Tight
<1>5. PICK n3 \in Nat : n3 = Count(c, u[3])
  BY <1>1, CountsMultiply
<1>6. PICK a \in 0 .. n3 - 1, b \in 0 .. n2 - 1, d \in 0 .. L - 1 : a = k3 /\ b = k2 /\ d = i
  BY <1>3, <1>5
<1>7. b * L + a * (L * n2) + d = (a * n2 + b) * L + d
  BY <1>1
<1> QED BY <1>3, <1>4, <1>6, <1>7

\* The layout in place of lines with the parts of all fields of a place apart.
ApartOf(c, u) ==
  [start  |-> ComplexOf(c, u).start,
   size   |-> ComplexOf(c, u).size,
   stride |-> [d \in Parts |-> IF d = 4 THEN Half(c) ELSE IF d = 3 THEN 1
                               ELSE Turned(c, u).stride[d]],
   order  |-> ComplexOf(c, u).order]

\* A layout that has a place in memory for each value.
Laid(c, e) ==
  /\ Measured(e) /\ Distinct(e)
  /\ \A x \in Coordinates(e) : Address(e, x) \in Within(c)

\* The sizes and steps of complex layouts.
LEMMA ComplexSizes ==
  ASSUME NEW c, NEW u, Fit(c), u \in Turns
  PROVE  /\ \A d \in Parts : ComplexOf(c, u).size[d] \in Nat
         /\ ComplexOf(c, u).size[u[1]] = Count(c, u[1])
         /\ ComplexOf(c, u).size[u[2]] = Count(c, u[2])
         /\ ComplexOf(c, u).size[u[3]] = Count(c, u[3])
         /\ ComplexOf(c, u).size[3] = Half(c) /\ ComplexOf(c, u).size[4] = 2
<1>1. PICK e : e = ComplexOf(c, u)
  OBVIOUS
<1>2. /\ e.size[4] = 2 /\ e.size[3] = Half(c) /\ Half(c) \in Nat
      /\ \A d \in Directions : e.size[d] = Count(c, d) /\ Count(c, d) \in Nat
  BY <1>1, ComplexFields
<1>3. u[1] \in Directions /\ u[2] \in Directions /\ u[3] \in Directions
      /\ \A d \in Parts : d = 4 \/ d = 3 \/ d = u[1] \/ d = u[2] \/ d = u[3]
  BY TurnIs
<1> QED BY <1>1, <1>2, <1>3

\* Steps of complex layouts, with the parts of a value together or apart.
LEMMA ComplexSteps ==
  ASSUME NEW c, NEW u, NEW e, Fit(c), u \in Turns, e \in {ComplexOf(c, u), ApartOf(c, u)}
  PROVE  /\ \A d \in Parts : e.stride[d] \in Nat
         /\ e.stride[u[1]] = 2 * Half(c)
         /\ e.stride[u[2]] = (2 * Half(c)) * Count(c, u[1])
         /\ e.stride[u[3]] = ((2 * Half(c)) * Count(c, u[1])) * Count(c, u[2])
         /\ e = ComplexOf(c, u) => e.stride[3] = 2 /\ e.stride[4] = 1
         /\ e = ApartOf(c, u) => e.stride[3] = 1 /\ e.stride[4] = Half(c)
         /\ e.size = ComplexOf(c, u).size
<1>1. /\ u[1] \in Parts /\ u[2] \in Parts /\ u[3] \in Parts /\ 3 \in Parts /\ 4 \in Parts
      /\ \A d \in Parts : d = 4 \/ d = 3 \/ d = u[1] \/ d = u[2] \/ d = u[3]
      /\ u[1] # 3 /\ u[2] # 3 /\ u[3] # 3 /\ u[1] # 4 /\ u[2] # 4 /\ u[3] # 4
  BY IndicesApart
<1>2. PICK h \in Nat, n1 \in Nat, n2 \in Nat :
        h = Half(c) /\ n1 = Count(c, u[1]) /\ n2 = Count(c, u[2]) /\ Count(c, 3) = 2 * h
  BY CountsMultiply, CountIs
<1>3. PICK st : st = Turned(c, u).stride
  OBVIOUS
<1>4. st[u[1]] = 2 * h /\ st[u[2]] = (2 * h) * n1 /\ st[u[3]] = ((2 * h) * n1) * n2
  BY <1>2, <1>3, TurnedStrides
<1>5. 2 * h \in Nat /\ (2 * h) * n1 \in Nat /\ ((2 * h) * n1) * n2 \in Nat
  OBVIOUS
<1>6. /\ e.stride[u[1]] = st[u[1]] /\ e.stride[u[2]] = st[u[2]] /\ e.stride[u[3]] = st[u[3]]
      /\ e = ComplexOf(c, u) => e.stride[3] = 2 /\ e.stride[4] = 1
      /\ e = ApartOf(c, u) => e.stride[3] = 1 /\ e.stride[4] = h
      /\ e.size = ComplexOf(c, u).size
  <2>1. CASE e = ComplexOf(c, u)
    <3>1. e.stride = [d \in Parts |-> IF d = 4 THEN 1 ELSE IF d = 3 THEN 2 ELSE st[d]]
      BY <1>3, <2>1 DEF ComplexOf
    <3>2. e.stride[3] = 2 /\ e.stride[4] = 1
      BY <1>1, <3>1
    <3>3. e = ApartOf(c, u) => e.stride[3] = 1 /\ e.stride[4] = h
      BY <1>1, <1>2 DEF ApartOf
    <3> QED BY <1>1, <2>1, <3>1, <3>2, <3>3
  <2>2. CASE e = ApartOf(c, u)
    <3>1. e.stride = [d \in Parts |-> IF d = 4 THEN h ELSE IF d = 3 THEN 1 ELSE st[d]]
          /\ e.size = ComplexOf(c, u).size
      BY <1>2, <1>3, <2>2 DEF ApartOf
    <3>2. e.stride[3] = 1 /\ e.stride[4] = h
      BY <1>1, <3>1
    <3>3. e = ComplexOf(c, u) => e.stride[3] = 2 /\ e.stride[4] = 1
      BY <1>1 DEF ComplexOf
    <3> QED BY <1>1, <3>1, <3>2, <3>3
  <2> QED BY <2>1, <2>2
<1>7. \A d \in Parts : e.stride[d] \in Nat
  <2>1. e.stride[3] \in Nat /\ e.stride[4] \in Nat
    BY <1>6
  <2> QED BY <1>1, <1>4, <1>5, <1>6, <2>1
<1> QED BY <1>2, <1>4, <1>6, <1>7

\* Complex layouts, with the parts of a value together or apart.
LEMMA ComplexLaid ==
  ASSUME NEW c, NEW u, NEW e, Fit(c), u \in Turns, e \in {ComplexOf(c, u), ApartOf(c, u)}
  PROVE  /\ Laid(c, e)
         /\ Rows(e, u, Count(c, u[2]), (2 * Half(c)) * Count(c, u[1]), 2 * Half(c))
<1>1. PICK h \in Nat, n1 \in Nat, n2 \in Nat :
        h = Half(c) /\ n1 = Count(c, u[1]) /\ n2 = Count(c, u[2]) /\ Count(c, 3) = 2 * h
  BY CountsMultiply, CountIs
<1>2. /\ \A d \in Parts : e.stride[d] \in Nat
      /\ e.stride[u[1]] = 2 * h /\ e.stride[u[2]] = (2 * h) * n1
      /\ e.stride[u[3]] = ((2 * h) * n1) * n2
      /\ e = ComplexOf(c, u) => e.stride[3] = 2 /\ e.stride[4] = 1
      /\ e = ApartOf(c, u) => e.stride[3] = 1 /\ e.stride[4] = h
      /\ e.size = ComplexOf(c, u).size
  <2>1. /\ \A d \in Parts : e.stride[d] \in Nat
        /\ e.stride[u[1]] = 2 * Half(c) /\ e.stride[u[2]] = (2 * Half(c)) * Count(c, u[1])
        /\ e.stride[u[3]] = ((2 * Half(c)) * Count(c, u[1])) * Count(c, u[2])
        /\ e = ComplexOf(c, u) => e.stride[3] = 2 /\ e.stride[4] = 1
        /\ e = ApartOf(c, u) => e.stride[3] = 1 /\ e.stride[4] = Half(c)
        /\ e.size = ComplexOf(c, u).size
    BY ComplexSteps
  <2> QED BY <1>1, <2>1
<1>3. /\ \A d \in Parts : e.size[d] \in Nat
      /\ e.size[u[1]] = n1 /\ e.size[u[2]] = n2 /\ e.size[u[3]] = Count(c, u[3])
      /\ e.size[3] = h /\ e.size[4] = 2
  <2>1. PICK sz : sz = ComplexOf(c, u).size
    OBVIOUS
  <2>2. /\ \A d \in Parts : sz[d] \in Nat
        /\ sz[u[1]] = Count(c, u[1]) /\ sz[u[2]] = Count(c, u[2]) /\ sz[u[3]] = Count(c, u[3])
        /\ sz[3] = Half(c) /\ sz[4] = 2
    BY <2>1, ComplexSizes
  <2> QED BY <1>1, <1>2, <2>1, <2>2
<1>4. Measured(e)
  BY <1>2, <1>3 DEF Measured
<1>5. ASSUME NEW x \in Coordinates(e) PROVE x[3] \in 0 .. h - 1 /\ x[4] \in 0 .. 1
  <2>1. Spans(Coordinates(e), u, e.size[u[1]], e.size[u[2]], e.size[u[3]], e.size[3], e.size[4])
    BY <1>3, LayoutSpans
  <2>2. 2 - 1 = 1
    OBVIOUS
  <2> QED BY <1>3, <2>1, <2>2 DEF Spans
<1>6. ASSUME NEW x \in Coordinates(e)
      PROVE  \/ e = ComplexOf(c, u) /\ Inner(e, x) = x[3] * 2 + x[4]
             \/ e = ApartOf(c, u) /\ Inner(e, x) = x[4] * h + x[3]
  <2>1. PICK f \in 0 .. h - 1, v \in 0 .. 1 : f = x[3] /\ v = x[4]
    BY <1>5
  <2>2. f * 2 + v * 1 = f * 2 + v /\ f * 1 + v * h = v * h + f
    OBVIOUS
  <2>3. CASE e = ComplexOf(c, u)
    BY <1>2, <2>1, <2>2, <2>3 DEF Inner
  <2>4. CASE e = ApartOf(c, u)
    BY <1>2, <2>1, <2>2, <2>4 DEF Inner
  <2> QED BY <2>3, <2>4
<1>7. ASSUME NEW x \in Coordinates(e) PROVE Inner(e, x) \in 0 .. 2 * h - 1
  <2>1. PICK f \in 0 .. h - 1, v \in 0 .. 1 : f = x[3] /\ v = x[4]
    BY <1>5
  <2>2. f * 2 + v \in 0 .. 2 * h - 1
    OBVIOUS
  <2>3. v * h + f \in 0 .. 2 * h - 1
    <3>1. v * h = 0 \/ v * h = h
      <4>1. 0 * h = 0 /\ 1 * h = h
        OBVIOUS
      <4> QED BY <4>1
    <3> QED BY <3>1
  <2> QED BY <1>6, <2>1, <2>2, <2>3
<1>8. Rows(e, u, n2, (2 * h) * n1, 2 * h)
  <2>1. (2 * h) * n1 \in Nat /\ 2 * h \in Nat /\ n1 * (2 * h) <= (2 * h) * n1
    OBVIOUS
  <2> QED BY <1>2, <1>3, <1>4, <1>7, <2>1 DEF Rows
<1>9. ASSUME NEW x \in Coordinates(e), NEW y \in Coordinates(e), Inner(e, x) = Inner(e, y)
      PROVE  x[3] = y[3] /\ x[4] = y[4]
  <2>1. PICK f \in 0 .. h - 1, v \in 0 .. 1, j \in 0 .. h - 1, z \in 0 .. 1 :
          f = x[3] /\ v = x[4] /\ j = y[3] /\ z = y[4]
    BY <1>5
  <2>2. CASE e = ComplexOf(c, u)
    <3>1. Inner(e, x) = f * 2 + v /\ Inner(e, y) = j * 2 + z
      <4>1. Inner(e, x) = f * 2 + v * 1 /\ Inner(e, y) = j * 2 + z * 1
        BY <1>2, <2>1, <2>2 DEF Inner
      <4>2. v * 1 = v /\ z * 1 = z
        BY <2>1
      <4> QED BY <4>1, <4>2
    <3>2. f * 2 + v = j * 2 + z
      BY <1>9, <3>1
    <3>3. f = j /\ v = z
      BY <3>2
    <3> QED BY <2>1, <3>3
  <2>3. CASE e = ApartOf(c, u)
    <3>1. Inner(e, x) = f * 1 + v * h /\ Inner(e, y) = j * 1 + z * h
      BY <1>2, <2>1, <2>3 DEF Inner
    <3>2. /\ (v = 0 /\ v * h = 0) \/ (v = 1 /\ v * h = h)
          /\ (z = 0 /\ z * h = 0) \/ (z = 1 /\ z * h = h)
      <4>1. 0 * h = 0 /\ 1 * h = h
        OBVIOUS
      <4>2. ASSUME NEW w \in 0 .. 1 PROVE (w = 0 /\ w * h = 0) \/ (w = 1 /\ w * h = h)
        <5>1. CASE w = 0
          BY <4>1, <5>1
        <5>2. CASE w = 1
          BY <4>1, <5>2
        <5> QED BY <5>1, <5>2
      <4>3. (v = 0 /\ v * h = 0) \/ (v = 1 /\ v * h = h)
        BY <4>2
      <4>4. (z = 0 /\ z * h = 0) \/ (z = 1 /\ z * h = h)
        BY <4>2
      <4> QED BY <4>3, <4>4
    <3>3. f * 1 = f /\ j * 1 = j
      OBVIOUS
    <3>4. PICK a \in Int, b \in Int : a = v * h /\ b = z * h /\ f + a = j + b
      <4>1. v * h \in Int /\ z * h \in Int
        OBVIOUS
      <4>2. f * 1 + v * h = j * 1 + z * h
        BY <1>9, <3>1
      <4>3. PICK a \in Int, b \in Int : a = v * h /\ b = z * h
        BY <4>1
      <4>4. f + a = j + b
        BY <3>3, <4>2, <4>3
      <4> QED BY <4>3, <4>4
    <3>5. v = z /\ f = j
      BY <3>2, <3>4
    <3> QED BY <2>1, <3>5
  <2> QED BY <2>2, <2>3
<1>10. Distinct(e)
  BY <1>8, <1>9, RowsDistinct
<1>11. ASSUME NEW x \in Coordinates(e) PROVE Address(e, x) \in Within(c)
  <2>1. (2 * h) * n1 <= Count(c, 3) * Count(c, u[1])
    BY <1>1
  <2> QED BY <1>1, <1>3, <1>8, <2>1, RowsWithin
<1> QED BY <1>1, <1>4, <1>8, <1>10, <1>11 DEF Laid

\* Real layouts, packed or not.
LEMMA RealLaid ==
  ASSUME NEW c, NEW u, NEW packed, NEW e, Fit(c), u \in Turns, u[1] = c.long, packed \in BOOLEAN,
         e = RealOf(c, u, packed)
  PROVE  /\ Laid(c, e)
         /\ Rows(e, u, Count(c, u[2]), Line(c, packed), Half(c))
         /\ \A x \in Coordinates(e) : x[4] = 0 /\ Inner(e, x) = x[3]
<1>1. PICK h \in Nat, m \in Nat, n2 \in Nat, n3 \in Nat, L \in Nat :
        /\ h = Half(c) /\ m = RealLength(Count(c, c.long)) /\ n2 = Count(c, u[2])
        /\ n3 = Count(c, u[3]) /\ L = Line(c, packed)
  <2>1. Half(c) \in Nat /\ Count(c, c.long) \in Nat \ {0}
    BY CountIs
  <2>2. Count(c, u[2]) \in Nat /\ Count(c, u[3]) \in Nat
    BY CountsMultiply
  <2> QED BY <2>1, <2>2, LengthIs, LineIs
<1>2. /\ e.stride[4] = 1 /\ e.stride[3] = 1 /\ e.stride[u[1]] = h
      /\ e.stride[u[2]] = L /\ e.stride[u[3]] = L * n2
      /\ e.size[4] = 1 /\ e.size[3] = h /\ e.size[u[1]] = m
      /\ e.size[u[2]] = n2 /\ e.size[u[3]] = n3
  BY <1>1, RealStrides
<1>3. Measured(e)
  <2>1. \A d \in Parts : d = 4 \/ d = 3 \/ d = u[1] \/ d = u[2] \/ d = u[3]
    BY TurnIs
  <2>2. L * n2 \in Nat
    OBVIOUS
  <2> QED BY <1>1, <1>2, <2>1, <2>2 DEF Measured
<1>4. ASSUME NEW x \in Coordinates(e) PROVE x[3] \in 0 .. h - 1 /\ x[4] = 0 /\ Inner(e, x) = x[3]
  <2>1. Spans(Coordinates(e), u, e.size[u[1]], e.size[u[2]], e.size[u[3]], e.size[3], e.size[4])
    BY <1>3, LayoutSpans DEF Measured
  <2>2. x[3] \in 0 .. h - 1 /\ x[4] \in 0 .. 1 - 1
    BY <1>2, <2>1 DEF Spans
  <2>3. PICK f \in 0 .. h - 1 : f = x[3] /\ x[4] = 0
    BY <2>2
  <2>4. f * 1 + 0 * 1 = f
    OBVIOUS
  <2> QED BY <1>2, <2>3, <2>4 DEF Inner
<1>5. Rows(e, u, n2, L, h)
  <2>1. m * h <= L
    <3>1. Half(c) * RealLength(Count(c, c.long)) <= Line(c, packed)
      BY LineIs
    <3>2. h * m = m * h
      OBVIOUS
    <3> QED BY <1>1, <3>1, <3>2
  <2> QED BY <1>1, <1>2, <1>3, <1>4, <2>1 DEF Rows
<1>6. ASSUME NEW x \in Coordinates(e), NEW y \in Coordinates(e), Inner(e, x) = Inner(e, y)
      PROVE  x[3] = y[3] /\ x[4] = y[4]
  BY <1>4, <1>6
<1>7. Distinct(e)
  BY <1>5, <1>6, RowsDistinct
<1>8. ASSUME NEW x \in Coordinates(e) PROVE Address(e, x) \in Within(c)
  <2>1. L <= Count(c, 3) * Count(c, u[1])
    BY <1>1, LineIs
  <2> QED BY <1>1, <1>2, <1>5, <2>1, RowsWithin
<1> QED BY <1>1, <1>3, <1>4, <1>5, <1>7, <1>8 DEF Laid

\* A layout shares its lines with itself.
LEMMA OwnLine ==
  ASSUME NEW w, NEW e, Distinct(e)
  PROVE  OneLine(w, e, e)
<1> SUFFICES ASSUME NEW x \in Coordinates(e), NEW y \in Coordinates(e), Address(e, x) = Address(e, y)
             PROVE  x[w[2]] = y[w[2]] /\ x[w[3]] = y[w[3]] /\ x[3] = y[3]
  BY DEF OneLine
<1>1. x = y
  BY DEF Distinct
<1> QED BY <1>1

\* Real lines and complex lines with their parts apart share their rows.
LEMMA RowLine ==
  ASSUME NEW c, NEW u, NEW packed, NEW e, NEW g, Fit(c), u \in Turns, u[1] = c.long,
         packed \in BOOLEAN, e = RealOf(c, u, packed), g = ApartOf(c, u),
         e.stride[u[2]] = g.stride[u[2]]
  PROVE  OneLine(u, e, g) /\ OneLine(u, g, e)
<1>1. PICK h \in Nat, n1 \in Nat, n2 \in Nat, L \in Nat :
        h = Half(c) /\ n1 = Count(c, u[1]) /\ n2 = Count(c, u[2]) /\ L = (2 * h) * n1
  <2>1. Half(c) \in Nat /\ Count(c, u[1]) \in Nat /\ Count(c, u[2]) \in Nat
    BY CountsMultiply, CountIs
  <2> QED BY <2>1
<1>2. Rows(g, u, n2, L, 2 * h)
  BY <1>1, ComplexLaid
<1>3. Rows(e, u, n2, Line(c, packed), h) /\ \A x \in Coordinates(e) : Inner(e, x) = x[3]
  BY <1>1, RealLaid
<1>4. Line(c, packed) = L
  BY <1>2, <1>3 DEF Rows
<1>5. ASSUME NEW x \in Coordinates(e), NEW y \in Coordinates(g), Address(e, x) = Address(g, y)
      PROVE  x[u[2]] = y[u[2]] /\ x[u[3]] = y[u[3]] /\ x[3] = y[3]
  <2>1. /\ x[u[2]] = y[u[2]] /\ x[u[3]] = y[u[3]]
        /\ x[u[1]] * h + Inner(e, x) = y[u[1]] * (2 * h) + Inner(g, y)
    BY <1>2, <1>3, <1>4, <1>5, RowsApart
  <2>2. x[u[1]] \in Nat /\ x[3] \in 0 .. h - 1 /\ Inner(e, x) = x[3]
    <3>1. InRow(e, u, n2, Line(c, packed), h, x)
      BY <1>3, RowsAddress
    <3> QED BY <1>3, <3>1 DEF InRow
  <2>3. PICK k \in Nat, f \in 0 .. h - 1 : k = x[u[1]] /\ f = x[3]
    BY <2>2
  <2>4. /\ y[u[1]] \in Nat /\ y[3] \in 0 .. h - 1 /\ y[4] \in 0 .. 1
        /\ Inner(g, y) = y[3] * 1 + y[4] * h
    <3>1. InRow(g, u, n2, L, 2 * h, y)
      BY <1>2, RowsAddress
    <3>2. g.stride[3] = 1 /\ g.stride[4] = h /\ g.size[3] = h /\ g.size[4] = 2
      <4>1. g.stride[3] = 1 /\ g.stride[4] = Half(c) /\ g.size = ComplexOf(c, u).size
        BY ComplexSteps
      <4>2. ComplexOf(c, u).size[3] = Half(c) /\ ComplexOf(c, u).size[4] = 2
        BY ComplexSizes
      <4> QED BY <1>1, <4>1, <4>2
    <3>3. y[u[1]] \in Nat /\ y[3] \in 0 .. g.size[3] - 1 /\ y[4] \in 0 .. g.size[4] - 1
      BY <3>1 DEF InRow
    <3> QED BY <3>2, <3>3 DEF Inner
  <2>5. PICK j \in Nat, q \in 0 .. h - 1, v \in 0 .. 1 : j = y[u[1]] /\ q = y[3] /\ v = y[4]
    BY <2>4
  <2>6. k * h + f = j * (2 * h) + (q * 1 + v * h)
    BY <2>1, <2>2, <2>3, <2>4, <2>5
  <2>7. j * (2 * h) + (q * 1 + v * h) = (2 * j + v) * h + q
    OBVIOUS
  <2>8. PICK m \in Nat : m = 2 * j + v
    OBVIOUS
  <2>9. k * h + f = m * h + q
    BY <2>6, <2>7, <2>8
  <2>10. f = q
    BY <2>9, TwoDigits
  <2> QED BY <2>1, <2>3, <2>5, <2>10
<1>6. OneLine(u, e, g)
  BY <1>5 DEF OneLine
<1>7. OneLine(u, g, e)
  BY <1>5 DEF OneLine
<1> QED BY <1>6, <1>7

---------------------------------------------------------------------------
(* The stages of a plan.                                                   *)

\* A plan, or its parts, takes the layout i to the layout o in at most three
\* stages: a reordering, the transform of lines and another reordering, which
\* may leave everything where it is.
Stages(c, x, i, o, inPlace, w, e, g, first, v) ==
  /\ Laid(c, i) /\ Laid(c, e) /\ Laid(c, g) /\ Laid(c, o)
  /\ w \in Turns /\ w[1] = c.long /\ v \in Turns
  /\ (x.pre = <<>> /\ e = i) \/ (inPlace /\ Reorders(x.pre, v, i, e))
  /\ Carries(x.fft, w, e, g, first)
  /\ inPlace => OneLine(w, e, g)
  /\ \/ x.post = <<>> /\ g = o
     \/ inPlace /\ Reorders(x.post, v, g, o)
     \/ inPlace /\ g = o /\ \A q \in Points(x.post) : q[1] = q[2] /\ q[1] \in Within(c)

\* The contents of a buffer after it.
Becomes(x, long, inPlace, from, to) ==
  LET pre == IF x.pre = <<>> THEN from ELSE Reordered(from, x.pre)
      mid == Transformed(x.fft, long, inPlace, pre, IF inPlace THEN pre ELSE to)
  IN  IF x.post = <<>> THEN mid ELSE Reordered(mid, x.post)

\* It takes the data from where the one layout has it to where the other has it.
LEMMA StagesMove ==
  ASSUME NEW c, NEW x, NEW i, NEW o, NEW inPlace, NEW w, NEW e, NEW g, NEW first, NEW v,
         inPlace \in BOOLEAN, Stages(c, x, i, o, inPlace, w, e, g, first, v),
         NEW from, NEW to, DOMAIN from = Within(c), DOMAIN to = Within(c),
         NEW space, space \in Int, StoredAs(from, i, space)
  PROVE  /\ StoredAs(Becomes(x, c.long, inPlace, from, to), o, space + Shift(x.fft, first))
         /\ DOMAIN Becomes(x, c.long, inPlace, from, to) = Within(c)
<1>1. PICK pre : pre = IF x.pre = <<>> THEN from ELSE Reordered(from, x.pre)
  OBVIOUS
<1>2. PICK aim : aim = IF inPlace THEN pre ELSE to
  OBVIOUS
<1>3. PICK mid : mid = Transformed(x.fft, c.long, inPlace, pre, aim)
  OBVIOUS
<1>4. PICK post : post = IF x.post = <<>> THEN mid ELSE Reordered(mid, x.post)
  OBVIOUS
<1>5. Becomes(x, c.long, inPlace, from, to) = post
  BY <1>1, <1>2, <1>3, <1>4 DEF Becomes
<1>6. /\ Measured(i) /\ Measured(e) /\ Distinct(e) /\ Measured(g) /\ Distinct(g)
      /\ Measured(o) /\ Distinct(o)
      /\ \A y \in Coordinates(e) : Address(e, y) \in Within(c)
      /\ \A y \in Coordinates(g) : Address(g, y) \in Within(c)
      /\ \A y \in Coordinates(o) : Address(o, y) \in Within(c)
  BY DEF Stages, Laid
<1>7. w \in Turns /\ w[1] = c.long /\ v \in Turns /\ Carries(x.fft, w, e, g, first)
      /\ (inPlace => OneLine(w, e, g))
  BY DEF Stages
<1>8. DOMAIN pre = Within(c)
  BY <1>1, ReorderDomain
<1>9. DOMAIN aim = Within(c)
  BY <1>2, <1>8
<1>10. DOMAIN mid = Within(c)
  BY <1>3, <1>9, TransformDomain
<1>11. DOMAIN post = Within(c)
  BY <1>4, <1>10, ReorderDomain
<1>12. StoredAs(pre, e, space)
  <2>1. CASE x.pre = <<>> /\ e = i
    BY <1>1, <2>1
  <2>2. CASE Reorders(x.pre, v, i, e)
    <3>1. x.pre # <<>>
      BY <2>2 DEF Reorders
    <3>2. StoredAs(Reordered(from, x.pre), e, space)
      BY <1>6, <1>7, <2>2, ReorderingMoves
    <3> QED BY <1>1, <3>1, <3>2
  <2> QED BY <2>1, <2>2 DEF Stages
<1>13. PICK deep : deep = space + Shift(x.fft, first)
  OBVIOUS
<1>14. StoredAs(mid, g, deep)
  BY <1>3, <1>6, <1>7, <1>9, <1>12, <1>13, TransformMoves
<1>15. StoredAs(post, o, deep)
  <2>1. CASE x.post = <<>>
    <3>1. g = o
      BY <2>1 DEF Stages, Reorders
    <3> QED BY <1>4, <1>14, <2>1, <3>1
  <2>2. CASE x.post # <<>> /\ Reorders(x.post, v, g, o)
    <3>1. StoredAs(Reordered(mid, x.post), o, deep)
      BY <1>6, <1>7, <1>10, <1>14, <2>2, ReorderingMoves
    <3> QED BY <1>4, <2>2, <3>1
  <2>3. CASE x.post # <<>> /\ g = o /\ \A q \in Points(x.post) : q[1] = q[2]
    <3>1. StoredAs(Reordered(mid, x.post), o, deep)
      BY <1>14, <2>3, ReorderingStaysPut
    <3> QED BY <1>4, <2>3, <3>1
  <2> QED BY <2>1, <2>2, <2>3 DEF Stages
<1> QED BY <1>5, <1>11, <1>13, <1>15

\* A reordering reads addresses of the one layout and writes those of the other.
LEMMA ReorderingTouches ==
  ASSUME NEW dims, NEW w, NEW e, NEW g, w \in Turns, Reorders(dims, w, e, g),
         Measured(e), Measured(g), NEW q, q \in Points(dims)
  PROVE  \E x \in Coordinates(e) : x \in Coordinates(g) /\ q[1] = Address(e, x) /\ q[2] = Address(g, x)
<1>1. Coordinates(e) = Coordinates(g)
  BY SameCoordinates DEF Reorders
<1>2. PICK n1, n2, n3, h, p :
        /\ n1 = e.size[w[1]] /\ n2 = e.size[w[2]] /\ n3 = e.size[w[3]] /\ h = e.size[3]
        /\ p = e.size[4]
  OBVIOUS
<1>3. PICK X : X = Coordinates(e)
  OBVIOUS
<1>4. Spans(X, w, n1, n2, n3, h, p)
  BY <1>2, <1>3, LayoutSpans DEF Measured
<1>5. PICK A, B, C, D, E :
        /\ A = <<e.size[w[3]], e.stride[w[3]], g.stride[w[3]]>>
        /\ B = <<e.size[w[2]], e.stride[w[2]], g.stride[w[2]]>>
        /\ C = <<e.size[w[1]], e.stride[w[1]], g.stride[w[1]]>>
        /\ D = <<e.size[3], e.stride[3], g.stride[3]>>
        /\ E = <<e.size[4], e.stride[4], g.stride[4]>>
  OBVIOUS
<1>6. dims = <<A, B, C, D, E>>
  BY <1>5 DEF Reorders
<1>7. /\ A[1] = n3 /\ A[2] = e.stride[w[3]] /\ A[3] = g.stride[w[3]]
      /\ B[1] = n2 /\ B[2] = e.stride[w[2]] /\ B[3] = g.stride[w[2]]
      /\ C[1] = n1 /\ C[2] = e.stride[w[1]] /\ C[3] = g.stride[w[1]]
      /\ D[1] = h /\ D[2] = e.stride[3] /\ D[3] = g.stride[3]
      /\ E[1] = p /\ E[2] = e.stride[4] /\ E[3] = g.stride[4]
  BY <1>2, <1>5
<1>8. PICK ka \in 0 .. A[1] - 1, kb \in 0 .. B[1] - 1, kc \in 0 .. C[1] - 1,
           kd \in 0 .. D[1] - 1, ke \in 0 .. E[1] - 1 :
         /\ q[1] = 0 + ka * A[2] + kb * B[2] + kc * C[2] + kd * D[2] + ke * E[2]
         /\ q[2] = 0 + ka * A[3] + kb * B[3] + kc * C[3] + kd * D[3] + ke * E[3]
  BY <1>6, FiveVisit
<1>9. PICK x : x = Spot(w, kc, kb, ka, kd, ke)
  OBVIOUS
<1>10. x \in X
  BY <1>4, <1>7, <1>8, <1>9 DEF Spans
<1>11. x[w[1]] = kc /\ x[w[2]] = kb /\ x[w[3]] = ka /\ x[3] = kd /\ x[4] = ke
  BY <1>9, SpotIs
<1>12. x[w[1]] \in Int /\ x[w[2]] \in Int /\ x[w[3]] \in Int /\ x[3] \in Int /\ x[4] \in Int
  BY <1>8, <1>11
<1>13. /\ Address(e, x) = x[w[3]] * e.stride[w[3]] + x[w[2]] * e.stride[w[2]]
                            + x[w[1]] * e.stride[w[1]] + x[3] * e.stride[3] + x[4] * e.stride[4]
       /\ x[w[3]] * e.stride[w[3]] \in Int
  BY <1>12, AddressIs
<1>14. /\ Address(g, x) = x[w[3]] * g.stride[w[3]] + x[w[2]] * g.stride[w[2]]
                            + x[w[1]] * g.stride[w[1]] + x[3] * g.stride[3] + x[4] * g.stride[4]
       /\ x[w[3]] * g.stride[w[3]] \in Int
  BY <1>12, AddressIs
<1>15. 0 + ka * A[2] = ka * A[2] /\ 0 + ka * A[3] = ka * A[3]
  BY <1>7, <1>11, <1>13, <1>14
<1>16. q[1] = Address(e, x) /\ q[2] = Address(g, x)
  BY <1>7, <1>8, <1>11, <1>13, <1>14, <1>15
<1> QED BY <1>1, <1>3, <1>10, <1>16

\* So does the transform of a line.
LEMMA LinesTouch ==
  ASSUME NEW fft, NEW w, NEW e, NEW g, NEW first, w \in Turns, Carries(fft, w, e, g, first),
         Measured(e), Measured(g), NEW l, l \in Points(fft.loops)
  PROVE  /\ \A a \in Reads(fft, l) : \E x \in Coordinates(e) : a = Address(e, x)
         /\ \A a \in Writes(fft, l) : \E x \in Coordinates(g) : a = Address(g, x)
<1>1. PICK n1, n2, n3, h, p, m, q :
        /\ n1 = e.size[w[1]] /\ n2 = e.size[w[2]] /\ n3 = e.size[w[3]] /\ h = e.size[3]
        /\ p = e.size[4] /\ m = g.size[w[1]] /\ q = g.size[4]
  OBVIOUS
<1>2. /\ NumberIn(fft) = n1 /\ NumberOut(fft) = m
      /\ g.size[w[2]] = n2 /\ g.size[w[3]] = n3 /\ g.size[3] = h
  BY <1>1 DEF Carries
<1>3. Spans(Coordinates(e), w, n1, n2, n3, h, p) /\ Spans(Coordinates(g), w, m, n2, n3, h, q)
  <2>1. (\A d \in Parts : e.size[d] \in Nat) /\ (\A d \in Parts : g.size[d] \in Nat)
    BY DEF Measured
  <2>2. Spans(Coordinates(e), w, e.size[w[1]], e.size[w[2]], e.size[w[3]], e.size[3], e.size[4])
    BY <2>1, LayoutSpans
  <2>3. Spans(Coordinates(g), w, g.size[w[1]], g.size[w[2]], g.size[w[3]], g.size[3], g.size[4])
    BY <2>1, LayoutSpans
  <2> QED BY <1>1, <1>2, <2>2, <2>3
<1>4. /\ \A c \in DOMAIN fft.from : PartAt(first, c) \in 0 .. p - 1
      /\ \A c \in DOMAIN fft.to : PartAt(first, c) \in 0 .. q - 1
  BY <1>1, PartsAre
<1>5. PICK k3 \in 0 .. n3 - 1, k2 \in 0 .. n2 - 1, f \in 0 .. h - 1 : l = LineOf(w, e, g, k3, k2, f)
  <2>1. \A o \in Points(fft.loops) :
          \E k3 \in 0 .. e.size[w[3]] - 1, k2 \in 0 .. e.size[w[2]] - 1, f \in 0 .. e.size[3] - 1 :
            o = LineOf(w, e, g, k3, k2, f)
    BY LinesAre
  <2> QED BY <1>1, <2>1
<1>6. k3 \in Int /\ k2 \in Int /\ f \in Int
  OBVIOUS
<1>7. ASSUME NEW a \in Reads(fft, l) PROVE \E x \in Coordinates(e) : a = Address(e, x)
  <2>1. PICK k \in 0 .. n1 - 1, c \in DOMAIN fft.from : a = ReadAt(fft, l, k, c)
    BY <1>2 DEF Reads
  <2>2. PICK v \in 0 .. p - 1 : v = PartAt(first, c)
    BY <1>4
  <2>3. Spot(w, k, k2, k3, f, v) \in Coordinates(e)
    BY <1>3 DEF Spans
  <2>4. ReadsRight(fft, w, e, g, first, k3, k2, f, k, c)
    <3>1. k \in Int
      OBVIOUS
    <3> QED BY <1>6, <3>1, LineReads
  <2>5. ReadAt(fft, LineOf(w, e, g, k3, k2, f), k, c) =
          Address(e, Spot(w, k, k2, k3, f, PartAt(first, c)))
    BY <2>4 DEF ReadsRight
  <2> QED BY <1>5, <2>1, <2>2, <2>3, <2>5
<1>8. ASSUME NEW a \in Writes(fft, l) PROVE \E x \in Coordinates(g) : a = Address(g, x)
  <2>1. PICK k \in 0 .. m - 1, c \in DOMAIN fft.to : a = WriteAt(fft, l, k, c)
    BY <1>2 DEF Writes
  <2>2. PICK v \in 0 .. q - 1 : v = PartAt(first, c)
    BY <1>4
  <2>3. Spot(w, k, k2, k3, f, v) \in Coordinates(g)
    BY <1>3 DEF Spans
  <2>4. WritesRight(fft, w, e, g, first, k3, k2, f, k, c)
    <3>1. k \in Int
      OBVIOUS
    <3> QED BY <1>6, <3>1, LineWrites
  <2>5. WriteAt(fft, LineOf(w, e, g, k3, k2, f), k, c) =
          Address(g, Spot(w, k, k2, k3, f, PartAt(first, c)))
    BY <2>4 DEF WritesRight
  <2> QED BY <1>5, <2>1, <2>2, <2>3, <2>5
<1> QED BY <1>7, <1>8

\* A plan, or its parts, that touches nothing outside of the local memory.
Stays(c, x) ==
  /\ \A dims \in {x.pre, x.post} \ {<<>>} : \A q \in Points(dims) :
       q[1] \in Within(c) /\ q[2] \in Within(c)
  /\ \A l \in Points(x.fft.loops) : Reads(x.fft, l) \cup Writes(x.fft, l) \subseteq Within(c)

\* No stage touches anything outside of the local memory.
LEMMA StagesStay ==
  ASSUME NEW c, NEW x, NEW i, NEW o, NEW inPlace, NEW w, NEW e, NEW g, NEW first, NEW v,
         Stages(c, x, i, o, inPlace, w, e, g, first, v)
  PROVE  Stays(c, x)
<1>1. /\ Measured(i) /\ Measured(e) /\ Measured(g) /\ Measured(o)
      /\ \A y \in Coordinates(i) : Address(i, y) \in Within(c)
      /\ \A y \in Coordinates(e) : Address(e, y) \in Within(c)
      /\ \A y \in Coordinates(g) : Address(g, y) \in Within(c)
      /\ \A y \in Coordinates(o) : Address(o, y) \in Within(c)
  BY DEF Stages, Laid
<1>2. w \in Turns /\ v \in Turns /\ Carries(x.fft, w, e, g, first)
  BY DEF Stages
<1>3. ASSUME NEW q \in Points(x.pre), x.pre # <<>> PROVE q[1] \in Within(c) /\ q[2] \in Within(c)
  <2>1. Reorders(x.pre, v, i, e)
    BY <1>3 DEF Stages
  <2>2. \E y \in Coordinates(i) : y \in Coordinates(e) /\ q[1] = Address(i, y) /\ q[2] = Address(e, y)
    BY <1>1, <1>2, <2>1, ReorderingTouches
  <2> QED BY <1>1, <2>2
<1>4. ASSUME NEW q \in Points(x.post), x.post # <<>> PROVE q[1] \in Within(c) /\ q[2] \in Within(c)
  <2>1. CASE Reorders(x.post, v, g, o)
    <3>1. \E y \in Coordinates(g) : y \in Coordinates(o) /\ q[1] = Address(g, y) /\ q[2] = Address(o, y)
      BY <1>1, <1>2, <2>1, ReorderingTouches
    <3> QED BY <1>1, <3>1
  <2>2. CASE \A z \in Points(x.post) : z[1] = z[2] /\ z[1] \in Within(c)
    BY <2>2
  <2> QED BY <1>4, <2>1, <2>2 DEF Stages
<1>5. ASSUME NEW l \in Points(x.fft.loops)
      PROVE  Reads(x.fft, l) \cup Writes(x.fft, l) \subseteq Within(c)
  <2>1. /\ \A a \in Reads(x.fft, l) : \E y \in Coordinates(e) : a = Address(e, y)
        /\ \A a \in Writes(x.fft, l) : \E y \in Coordinates(g) : a = Address(g, y)
    BY <1>1, <1>2, LinesTouch
  <2> QED BY <1>1, <2>1
<1> QED BY <1>3, <1>4, <1>5 DEF Stays

---------------------------------------------------------------------------
(* The stages that plans have.                                             *)

\* How much deeper a transform takes the data into the space of frequencies.
Deeper(kind) == IF kind \in Forward THEN 1 ELSE -1

\* The three directions, the long one first.
LEMMA Ahead ==
  ASSUME NEW long, NEW a, NEW b, long \in Directions, a \in Directions, b \in Directions,
         a # b, a # long, b # long
  PROVE  /\ <<long, b, a>> \in Turns
         /\ <<long, b, a>>[1] = long /\ <<long, b, a>>[2] = b /\ <<long, b, a>>[3] = a
  BY DEF Turns

\* The reordering of complex fields.
LEMMA ReorderingIs ==
  ASSUME NEW c, NEW s, NEW t, NEW i, NEW o, Fit(c), s \in Turns, t \in Turns,
         i = ComplexOf(c, s), o = ComplexOf(c, t)
  PROVE  Reorders(Reordering(i, o), s, i, o)
<1>1. i.order = <<4, 3, s[1], s[2], s[3]>>
  BY ComplexFields
<1>2. Reordering(i, o) =
        << <<i.size[s[3]], i.stride[s[3]], o.stride[s[3]]>>,
           <<i.size[s[2]], i.stride[s[2]], o.stride[s[2]]>>,
           <<i.size[s[1]], i.stride[s[1]], o.stride[s[1]]>>,
           <<i.size[3], i.stride[3], o.stride[3]>>,
           <<i.size[4], i.stride[4], o.stride[4]>> >>
  BY <1>1, DimsFive DEF Reordering
<1>3. o.size = i.size
  BY DEF ComplexOf
<1> QED BY <1>2, <1>3 DEF Reorders

\* Transforms of complex fields.
LEMMA C2cStages ==
  ASSUME NEW c, Fit(c), NEW kind \in Complex, NEW s \in Turns, NEW t \in Turns,
         NEW i, i = ComplexOf(c, s), NEW o, o = ComplexOf(c, t), NEW inPlace \in BOOLEAN,
         NEW parts, parts = C2cParts(kind, c.long, i, o, inPlace)
  PROVE  \E w, e, g, first, v : /\ Stages(c, parts, i, o, inPlace, w, e, g, first, v)
                                /\ Shift(parts.fft, first) = Deeper(kind)
<1> DEFINE before  == inPlace /\ i.order[3] # c.long
           tin     == IF before THEN o ELSE i
           tout    == IF inPlace THEN tin ELSE o
           ends(l) == IF kind \in Forward THEN <<0, l.stride[4]>> ELSE <<l.stride[4], 0>>
<1>1. parts = [pre  |-> IF before THEN Reordering(i, o) ELSE <<>>,
               fft  |-> [dim   |-> <<tin.size[c.long], tin.stride[c.long], tout.stride[c.long]>>,
                         loops |-> Append(Dims(But(c.long, Slow(tin)), tin.size, tin.stride, tout.stride),
                                          <<tin.size[3], tin.size[4], tout.size[4]>>),
                         from  |-> ends(tin),
                         to    |-> ends(tout)],
               post |-> IF inPlace /\ ~before THEN Reordering(i, o) ELSE <<>>]
  BY DEF C2cParts
<1>2. PICK u \in Turns : tin = ComplexOf(c, u)
  OBVIOUS
<1>3. PICK x \in Turns : tout = ComplexOf(c, x)
  <2>1. tout = i \/ tout = o
    OBVIOUS
  <2> QED BY <2>1
<1>4. PICK e, g, fft : e = tin /\ g = tout /\ fft = parts.fft
  OBVIOUS
<1>5. e = ComplexOf(c, u) /\ g = ComplexOf(c, x)
  BY <1>2, <1>3, <1>4
<1>6. /\ parts.pre = (IF before THEN Reordering(i, o) ELSE <<>>)
      /\ parts.post = (IF inPlace /\ ~before THEN Reordering(i, o) ELSE <<>>)
      /\ e = (IF before THEN o ELSE i)
      /\ g = (IF inPlace THEN e ELSE o)
  <2>1. e = (IF before THEN o ELSE i) /\ g = (IF inPlace THEN e ELSE o)
    BY <1>4
  <2> HIDE DEF before
  <2> QED BY <1>1, <2>1
<1>7. PICK first \in {0, 1} : first = IF kind \in Forward THEN 0 ELSE 1
  OBVIOUS
<1>8. ends(tin) = <<first, 1 - first>> /\ ends(tout) = <<first, 1 - first>>
  <2>1. e.stride[4] = 1 /\ g.stride[4] = 1
    BY <1>5, ComplexFields
  <2> QED BY <1>4, <1>7, <2>1
<1> HIDE DEF tin, tout, ends
<1>9. /\ fft.dim = <<e.size[c.long], e.stride[c.long], g.stride[c.long]>>
      /\ fft.loops = Append(Dims(But(c.long, Slow(e)), e.size, e.stride, g.stride),
                            <<e.size[3], e.size[4], g.size[4]>>)
      /\ fft.from = <<first, 1 - first>> /\ fft.to = <<first, 1 - first>>
  <2>1. fft = [dim   |-> <<tin.size[c.long], tin.stride[c.long], tout.stride[c.long]>>,
               loops |-> Append(Dims(But(c.long, Slow(tin)), tin.size, tin.stride, tout.stride),
                                <<tin.size[3], tin.size[4], tout.size[4]>>),
               from  |-> ends(tin),
               to    |-> ends(tout)]
    BY <1>1, <1>4
  <2> QED BY <1>4, <1>8, <2>1
<1>10. c.long \in Directions /\ Count(c, c.long) \in Nat \ {0}
  BY CountIs
<1>11. PICK a \in Directions, b \in Directions :
         /\ But(c.long, <<u[3], u[2], u[1]>>) = <<a, b>>
         /\ a # b /\ a # c.long /\ b # c.long
  BY <1>10, Across
<1>12. PICK w : w = <<c.long, b, a>>
  OBVIOUS
<1>13. w \in Turns /\ w[1] = c.long /\ w[2] = b /\ w[3] = a
  BY <1>10, <1>11, <1>12, Ahead
<1>14. /\ Slow(e) = <<u[3], u[2], u[1]>>
       /\ e.size[4] = 2 /\ g.size[4] = 2 /\ e.size[3] = g.size[3]
       /\ e.stride[3] = 2 /\ g.stride[3] = 2 /\ e.stride[4] = 1 /\ g.stride[4] = 1
       /\ e.size[c.long] = Count(c, c.long) /\ g.size[c.long] = Count(c, c.long)
       /\ e.size[a] = g.size[a] /\ e.size[b] = g.size[b]
  BY <1>5, <1>10, <1>11, ComplexFields
<1>15. fft.loops = << <<e.size[a], e.stride[a], g.stride[a]>>,
                      <<e.size[b], e.stride[b], g.stride[b]>>,
                      <<e.size[3], e.stride[3], g.stride[3]>> >>
  <2>1. PICK A, B, F : /\ A = <<e.size[a], e.stride[a], g.stride[a]>>
                       /\ B = <<e.size[b], e.stride[b], g.stride[b]>>
                       /\ F = <<e.size[3], e.stride[3], g.stride[3]>>
    OBVIOUS
  <2>2. Dims(<<a, b>>, e.size, e.stride, g.stride) = <<A, B>>
    BY <2>1, DimsTwo
  <2>3. <<e.size[3], e.size[4], g.size[4]>> = F
    BY <1>14, <2>1
  <2>4. fft.loops = Append(<<A, B>>, F)
    BY <1>9, <1>11, <1>14, <2>2, <2>3
  <2>5. fft.loops = <<A, B, F>>
    BY <2>4, AppendThird
  <2> QED BY <2>1, <2>5
<1>16. /\ fft.dim[1] = Count(c, c.long) /\ fft.dim[2] = e.stride[c.long] /\ fft.dim[3] = g.stride[c.long]
       /\ Len(fft.from) = 2 /\ Len(fft.to) = 2 /\ DOMAIN fft.from = 1 .. 2 /\ DOMAIN fft.to = 1 .. 2
       /\ fft.from[1] = first /\ fft.from[2] = 1 - first
       /\ fft.to[1] = first /\ fft.to[2] = 1 - first
  BY <1>9, <1>14
<1>17. NumberIn(fft) = Count(c, c.long) /\ NumberOut(fft) = Count(c, c.long)
  BY <1>16 DEF NumberIn, NumberOut
<1>18. \A k \in 1 .. 2 : /\ fft.from[k] = PartAt(first, k) * e.stride[4]
                         /\ fft.to[k] = PartAt(first, k) * g.stride[4]
  <2>1. \A k \in 1 .. 2 : k = 1 \/ k = 2
    OBVIOUS
  <2>2. PartAt(first, 1) = first /\ PartAt(first, 2) = 1 - first
    BY DEF PartAt
  <2>3. first * 1 = first /\ (1 - first) * 1 = 1 - first
    OBVIOUS
  <2> QED BY <1>14, <1>16, <2>1, <2>2, <2>3
<1>19. Carries(fft, w, e, g, first)
  BY <1>10, <1>13, <1>14, <1>15, <1>16, <1>17, <1>18 DEF Carries
<1>20. Laid(c, i) /\ Laid(c, o) /\ Laid(c, e) /\ Laid(c, g)
  BY <1>5, ComplexLaid
<1>21. Reorders(Reordering(i, o), s, i, o)
  BY ReorderingIs
<1>22. inPlace => OneLine(w, e, g)
  BY <1>6, <1>20, OwnLine DEF Laid
<1>23. (parts.pre = <<>> /\ e = i) \/ (inPlace /\ Reorders(parts.pre, s, i, e))
  <2>1. before => inPlace
    OBVIOUS
  <2> HIDE DEF before
  <2> QED BY <1>6, <1>21, <2>1
<1>24. (parts.post = <<>> /\ g = o) \/ (inPlace /\ Reorders(parts.post, s, g, o))
  <2>1. before => inPlace
    OBVIOUS
  <2> HIDE DEF before
  <2> QED BY <1>6, <1>21, <2>1
<1>25. Stages(c, parts, i, o, inPlace, w, e, g, first, s)
  BY <1>4, <1>13, <1>19, <1>20, <1>22, <1>23, <1>24 DEF Stages
<1>26. Shift(fft, first) = Deeper(kind)
  <2>1. Len(fft.from) # 1 /\ Len(fft.to) # 1
    BY <1>16
  <2> QED BY <1>7, <2>1 DEF Shift, Deeper
<1> QED BY <1>4, <1>25, <1>26

\* A turn is its three directions.
LEMMA SameTurn ==
  ASSUME NEW s, NEW t, s \in Turns, t \in Turns, s[1] = t[1], s[2] = t[2], s[3] = t[3]
  PROVE  s = t
  BY DEF Turns

\* The transform in place begins or ends with the parts of all fields apart.
LEMMA ApartIs ==
  ASSUME NEW c, NEW u, NEW a, NEW z, Fit(c), u \in Turns, a = ApartOf(c, u), z = ComplexOf(c, u)
  PROVE  /\ \A d \in Directions : a.stride[d] = z.stride[d]
         /\ a.stride[3] = 1 /\ a.stride[4] = Half(c) /\ a.size = z.size
<1>1. /\ a.stride = [d \in Parts |-> IF d = 4 THEN Half(c) ELSE IF d = 3 THEN 1
                                    ELSE Turned(c, u).stride[d]]
      /\ z.stride = [d \in Parts |-> IF d = 4 THEN 1 ELSE IF d = 3 THEN 2
                                    ELSE Turned(c, u).stride[d]]
      /\ a.size = z.size
  BY DEF ApartOf, ComplexOf
<1>2. /\ 3 \in Parts /\ 4 \in Parts /\ 3 # 4
      /\ \A d \in Directions : d \in Parts /\ d # 3 /\ d # 4
  BY DEF Parts, Directions
<1> QED BY <1>1, <1>2

\* Transforms of real to complex fields.
LEMMA R2cStages ==
  ASSUME NEW c, Fit(c), NEW s \in Turns, s[1] = c.long, NEW t \in Turns, NEW packed \in BOOLEAN,
         NEW i, i = RealOf(c, s, packed), NEW o, o = ComplexOf(c, t), NEW inPlace \in BOOLEAN,
         inPlace => /\ t[1] = s[1] /\ t[2] = s[2] /\ t[3] = s[3]
                    /\ \A d \in Directions \ {c.long} : i.stride[d] = o.stride[d],
         NEW parts, parts = R2cParts(c.long, i, o, inPlace)
  PROVE  \E w, e, g, first, v : /\ Stages(c, parts, i, o, inPlace, w, e, g, first, v)
                                /\ Shift(parts.fft, first) = Deeper("r2c_forward")
<1>1. PICK a \in Directions, b \in Directions :
        /\ a = s[3] /\ b = s[2] /\ a # b /\ a # c.long /\ b # c.long
        /\ c.long \in Directions
  BY TurnIs
<1>2. PICK h \in Nat, n \in Nat \ {0}, na \in Nat, nb \in Nat, m \in Nat :
        /\ h = Half(c) /\ n = Count(c, c.long) /\ na = Count(c, a) /\ nb = Count(c, b)
        /\ m = RealLength(n) /\ m \div 2 + 1 = n /\ m > 0
  <2>1. PICK h \in Nat, n \in Nat \ {0}, na \in Nat, nb \in Nat :
          h = Half(c) /\ n = Count(c, c.long) /\ na = Count(c, a) /\ nb = Count(c, b)
    BY <1>1, CountIs, ComplexFields
  <2>2. RealLength(n) \in Nat /\ RealLength(n) \div 2 + 1 = n /\ RealLength(n) >= 1
    BY LengthIs
  <2>3. RealLength(n) > 0
    BY <2>2
  <2> QED BY <2>1, <2>2, <2>3
<1>3. /\ Slow(i) = <<a, b, c.long>> /\ i.order[2] = 3
      /\ i.size[4] = 1 /\ i.size[3] = h /\ i.size[c.long] = m /\ i.size[a] = na /\ i.size[b] = nb
      /\ i.stride[3] = 1 /\ i.stride[c.long] = h
      /\ i.stride = [d \in Parts |-> i.stride[d]]
  BY <1>1, <1>2, RealFields
<1>4. i.stride[4] = 1
  <2>1. 4 \in Parts
    BY DEF Parts
  <2> QED BY <2>1 DEF RealOf
<1>5. PICK g : g = IF inPlace THEN ApartOf(c, s) ELSE o
  OBVIOUS
<1>6. inPlace => t = s
  BY SameTurn
<1>7. /\ o.size[4] = 2 /\ o.size[3] = h /\ o.size[c.long] = n /\ o.size[a] = na /\ o.size[b] = nb
      /\ o.stride[3] = 2 /\ o.stride[4] = 1
      /\ t[1] = c.long => o.stride[c.long] = 2 * h
  BY <1>1, <1>2, ComplexFields
<1>8. inPlace => /\ g.stride[a] = o.stride[a] /\ g.stride[b] = o.stride[b]
                 /\ g.stride[c.long] = o.stride[c.long] /\ o.stride[c.long] = 2 * h
                 /\ g.stride[3] = 1 /\ g.stride[4] = h
                 /\ i.stride[a] = o.stride[a] /\ i.stride[b] = o.stride[b]
  <2> SUFFICES ASSUME inPlace
               PROVE  /\ g.stride[a] = o.stride[a] /\ g.stride[b] = o.stride[b]
                      /\ g.stride[c.long] = o.stride[c.long] /\ o.stride[c.long] = 2 * h
                      /\ g.stride[3] = 1 /\ g.stride[4] = h
                      /\ i.stride[a] = o.stride[a] /\ i.stride[b] = o.stride[b]
    OBVIOUS
  <2>1. g = ApartOf(c, s) /\ o = ComplexOf(c, s) /\ t[1] = c.long
    BY <1>5, <1>6
  <2>2. /\ \A d \in Directions : g.stride[d] = o.stride[d]
        /\ g.stride[3] = 1 /\ g.stride[4] = Half(c)
    BY <2>1, ApartIs
  <2> QED BY <1>1, <1>2, <1>7, <2>1, <2>2
<1>9. g.size = o.size
  <2>1. ApartOf(c, s).size = ComplexOf(c, s).size
    BY DEF ApartOf
  <2> QED BY <1>5, <1>6, <2>1
<1>10. PICK double : double = [i.stride EXCEPT ![c.long] = 2 * @]
  OBVIOUS
<1>11. double[c.long] = 2 * h /\ double[a] = i.stride[a] /\ double[b] = i.stride[b]
  <2>1. c.long \in Parts /\ a \in Parts /\ b \in Parts
    BY <1>1 DEF Parts, Directions
  <2> QED BY <1>1, <1>3, <1>10, <2>1
<1>12. PICK os : os = IF inPlace THEN i.stride ELSE o.stride
  OBVIOUS
<1>13. PICK fft, post : fft = parts.fft /\ post = parts.post
  OBVIOUS
<1>14. /\ parts.pre = <<>>
       /\ fft = [dim   |-> <<i.size[c.long], i.stride[c.long],
                             IF inPlace THEN double[c.long] ELSE o.stride[c.long]>>,
                 loops |-> Dims(But(c.long, Append(Slow(i), i.order[2])), i.size, i.stride, os),
                 from  |-> <<0>>,
                 to    |-> <<0, IF inPlace THEN i.stride[c.long] ELSE 1>>]
       /\ post = IF inPlace
                 THEN Dims(Slow(i), o.size, double, o.stride) \o << <<o.size[3], 1, 2>>, <<2, o.size[3], 1>> >>
                 ELSE <<>>
  BY <1>10, <1>12, <1>13 DEF R2cParts
<1>15. os[a] = g.stride[a] /\ os[b] = g.stride[b] /\ os[3] = g.stride[3]
  BY <1>3, <1>5, <1>8, <1>12
<1>16. fft.loops = << <<i.size[a], i.stride[a], g.stride[a]>>,
                      <<i.size[b], i.stride[b], g.stride[b]>>,
                      <<i.size[3], i.stride[3], g.stride[3]>> >>
  <2>1. But(c.long, Append(Slow(i), 3)) = <<a, b, 3>>
    BY <1>1, <1>3, Across
  <2>2. fft.loops = Dims(<<a, b, 3>>, i.size, i.stride, os)
    BY <1>3, <1>14, <2>1
  <2>3. Dims(<<a, b, 3>>, i.size, i.stride, os) =
          << <<i.size[a], i.stride[a], os[a]>>, <<i.size[b], i.stride[b], os[b]>>,
             <<i.size[3], i.stride[3], os[3]>> >>
    BY DimsThree
  <2> QED BY <1>15, <2>2, <2>3
<1>17. /\ fft.dim[1] = m /\ fft.dim[2] = h /\ fft.dim[3] = g.stride[c.long]
       /\ fft.from = <<0>> /\ fft.to = <<0, g.stride[4]>>
  <2>1. fft.dim = <<i.size[c.long], i.stride[c.long],
                    IF inPlace THEN double[c.long] ELSE o.stride[c.long]>>
    BY <1>14
  <2>2. fft.from = <<0>> /\ fft.to = <<0, IF inPlace THEN i.stride[c.long] ELSE 1>>
    BY <1>14
  <2> QED BY <1>3, <1>5, <1>7, <1>8, <1>11, <2>1, <2>2
<1>18. /\ Len(fft.from) = 1 /\ Len(fft.to) = 2 /\ DOMAIN fft.from = 1 .. 1 /\ DOMAIN fft.to = 1 .. 2
       /\ fft.from[1] = 0 /\ fft.to[1] = 0 /\ fft.to[2] = g.stride[4]
  BY <1>17
<1>19. NumberIn(fft) = m /\ NumberOut(fft) = n
  BY <1>2, <1>17, <1>18 DEF NumberIn, NumberOut
<1>20. g.stride[4] \in Nat
  BY <1>2, <1>5, <1>7, <1>8
<1>21. /\ \A k \in DOMAIN fft.from : fft.from[k] = PartAt(0, k) * i.stride[4]
       /\ \A k \in DOMAIN fft.to : fft.to[k] = PartAt(0, k) * g.stride[4]
  <2>1. (\A k \in 1 .. 1 : k = 1) /\ (\A k \in 1 .. 2 : k = 1 \/ k = 2)
    OBVIOUS
  <2>2. PartAt(0, 1) = 0 /\ PartAt(0, 2) = 1
    BY DEF PartAt
  <2>3. 0 * g.stride[4] = 0 /\ 1 * g.stride[4] = g.stride[4] /\ 0 * 1 = 0
    BY <1>20
  <2> QED BY <1>4, <1>18, <2>1, <2>2, <2>3
<1>22. Carries(fft, s, i, g, 0)
  BY <1>1, <1>2, <1>3, <1>7, <1>9, <1>16, <1>17, <1>18, <1>19, <1>21 DEF Carries
<1>23. Laid(c, i) /\ Laid(c, o) /\ Laid(c, g)
  <2>1. Laid(c, i)
    BY RealLaid
  <2>2. Laid(c, o) /\ Laid(c, ApartOf(c, s))
    BY ComplexLaid
  <2> QED BY <1>5, <2>1, <2>2
<1>24. inPlace => OneLine(s, i, g)
  <2> SUFFICES ASSUME inPlace PROVE OneLine(s, i, g)
    OBVIOUS
  <2>1. g = ApartOf(c, s) /\ i.stride[s[2]] = g.stride[s[2]]
    BY <1>1, <1>5, <1>8
  <2> QED BY <2>1, RowLine
<1>25. inPlace => Reorders(post, s, g, o)
  <2> SUFFICES ASSUME inPlace PROVE Reorders(post, s, g, o)
    OBVIOUS
  <2>1. Dims(<<a, b, c.long>>, o.size, double, o.stride) =
          << <<o.size[a], double[a], o.stride[a]>>, <<o.size[b], double[b], o.stride[b]>>,
             <<o.size[c.long], double[c.long], o.stride[c.long]>> >>
    BY DimsThree
  <2>2. PICK P, Q, R, S, T : /\ P = <<g.size[a], g.stride[a], o.stride[a]>>
                             /\ Q = <<g.size[b], g.stride[b], o.stride[b]>>
                             /\ R = <<g.size[c.long], g.stride[c.long], o.stride[c.long]>>
                             /\ S = <<g.size[3], g.stride[3], o.stride[3]>>
                             /\ T = <<g.size[4], g.stride[4], o.stride[4]>>
    OBVIOUS
  <2>3. Dims(<<a, b, c.long>>, o.size, double, o.stride) = <<P, Q, R>>
    BY <1>8, <1>9, <1>11, <2>1, <2>2
  <2>4. <<o.size[3], 1, 2>> = S /\ <<2, o.size[3], 1>> = T
    BY <1>7, <1>8, <1>9, <2>2
  <2>5. post = <<P, Q, R>> \o <<S, T>>
    BY <1>3, <1>14, <2>3, <2>4
  <2>6. post = <<P, Q, R, S, T>>
    BY <2>5, Joined
  <2> QED BY <1>1, <1>9, <2>2, <2>6 DEF Reorders
<1>26. (parts.post = <<>> /\ g = o) \/ (inPlace /\ Reorders(parts.post, s, g, o))
  BY <1>5, <1>13, <1>14, <1>25
<1>27. Stages(c, parts, i, o, inPlace, s, i, g, 0, s)
  BY <1>13, <1>14, <1>22, <1>23, <1>24, <1>26 DEF Stages
<1>28. Shift(fft, 0) = Deeper("r2c_forward")
  BY <1>18 DEF Shift, Deeper, Forward
<1> QED BY <1>13, <1>27, <1>28

\* Transforms of complex to real fields.
LEMMA C2rStages ==
  ASSUME NEW c, Fit(c), NEW s \in Turns, NEW t \in Turns, t[1] = c.long, NEW packed \in BOOLEAN,
         NEW i, i = ComplexOf(c, s), NEW o, o = RealOf(c, t, packed), NEW inPlace \in BOOLEAN,
         inPlace => /\ s[1] = t[1] /\ s[2] = t[2] /\ s[3] = t[3]
                    /\ \A d \in Directions \ {c.long} : i.stride[d] = o.stride[d],
         NEW parts, parts = C2rParts(c.long, i, o, inPlace)
  PROVE  \E w, e, g, first, v : /\ Stages(c, parts, i, o, inPlace, w, e, g, first, v)
                                /\ Shift(parts.fft, first) = Deeper("c2r_backward")
<1>1. PICK a \in Directions, b \in Directions :
        /\ a = t[3] /\ b = t[2] /\ a # b /\ a # c.long /\ b # c.long
        /\ c.long \in Directions
  BY TurnIs
<1>2. PICK h \in Nat, n \in Nat \ {0}, na \in Nat, nb \in Nat, m \in Nat :
        /\ h = Half(c) /\ n = Count(c, c.long) /\ na = Count(c, a) /\ nb = Count(c, b)
        /\ m = RealLength(n) /\ m \div 2 + 1 = n /\ Count(c, 3) = 2 * h
  <2>1. PICK h \in Nat, n \in Nat \ {0}, na \in Nat, nb \in Nat :
          h = Half(c) /\ n = Count(c, c.long) /\ na = Count(c, a) /\ nb = Count(c, b)
    BY <1>1, CountIs, ComplexFields
  <2>2. RealLength(n) \in Nat /\ RealLength(n) \div 2 + 1 = n
    BY LengthIs
  <2> QED BY <2>1, <2>2, CountIs
<1>3. /\ Slow(o) = <<a, b, c.long>>
      /\ o.size[4] = 1 /\ o.size[3] = h /\ o.size[c.long] = m /\ o.size[a] = na /\ o.size[b] = nb
      /\ o.stride[3] = 1 /\ o.stride[c.long] = h
  <2>1. /\ Slow(o) = <<t[3], t[2], t[1]>> /\ o.size[4] = 1 /\ o.size[3] = Half(c)
        /\ o.size[c.long] = RealLength(Count(c, c.long))
        /\ o.size[t[2]] = Count(c, t[2]) /\ o.size[t[3]] = Count(c, t[3])
        /\ o.stride[3] = 1 /\ o.stride[c.long] = Half(c)
    <3>1. PICK z : z = RealOf(c, t, packed)
      OBVIOUS
    <3>2. /\ z.size[4] = 1 /\ z.size[3] = Half(c)
          /\ z.size[t[1]] = RealLength(Count(c, t[1]))
          /\ z.size[t[2]] = Count(c, t[2]) /\ z.size[t[3]] = Count(c, t[3])
          /\ z.stride[3] = 1 /\ z.stride[t[1]] = Half(c)
      BY <3>1, RealStrides
    <3>3. z.order = <<4, 3, t[1], t[2], t[3]>>
      BY <3>1 DEF RealOf
    <3> QED BY <3>1, <3>2, <3>3 DEF Slow
  <2> QED BY <1>1, <1>2, <2>1
<1>4. o.stride[4] = 1
  <2>1. 4 \in Parts
    BY DEF Parts
  <2> QED BY <2>1 DEF RealOf
<1>5. PICK e : e = IF inPlace THEN ApartOf(c, t) ELSE i
  OBVIOUS
<1>6. inPlace => s = t
  BY SameTurn
<1>7. /\ i.size[4] = 2 /\ i.size[3] = h /\ i.size[c.long] = n /\ i.size[a] = na /\ i.size[b] = nb
      /\ i.stride[3] = 2 /\ i.stride[4] = 1
      /\ s[1] = c.long => i.stride[c.long] = 2 * h /\ Slow(i) = <<s[3], s[2], c.long>>
  BY <1>1, <1>2, ComplexFields
<1>8. inPlace => /\ e.stride[a] = i.stride[a] /\ e.stride[b] = i.stride[b]
                 /\ e.stride[c.long] = i.stride[c.long] /\ i.stride[c.long] = 2 * h
                 /\ e.stride[3] = 1 /\ e.stride[4] = h
                 /\ i.stride[a] = o.stride[a] /\ i.stride[b] = o.stride[b]
                 /\ Slow(i) = <<a, b, c.long>>
  <2> SUFFICES ASSUME inPlace
               PROVE  /\ e.stride[a] = i.stride[a] /\ e.stride[b] = i.stride[b]
                      /\ e.stride[c.long] = i.stride[c.long] /\ i.stride[c.long] = 2 * h
                      /\ e.stride[3] = 1 /\ e.stride[4] = h
                      /\ i.stride[a] = o.stride[a] /\ i.stride[b] = o.stride[b]
                      /\ Slow(i) = <<a, b, c.long>>
    OBVIOUS
  <2>1. e = ApartOf(c, t) /\ i = ComplexOf(c, t) /\ s[1] = c.long /\ s[2] = b /\ s[3] = a
    BY <1>1, <1>5, <1>6
  <2>2. /\ \A d \in Directions : e.stride[d] = i.stride[d]
        /\ e.stride[3] = 1 /\ e.stride[4] = Half(c)
    BY <2>1, ApartIs
  <2> QED BY <1>1, <1>2, <1>7, <2>1, <2>2
<1>9. e.size = i.size
  <2>1. ApartOf(c, t).size = ComplexOf(c, t).size
    BY DEF ApartOf
  <2> QED BY <1>5, <1>6, <2>1
<1>10. PICK half, longer :
         half = [i.stride EXCEPT ![c.long] = @ \div 2] /\ longer = [i.size EXCEPT ![c.long] = 2 * @]
  OBVIOUS
<1>11. /\ half[c.long] = i.stride[c.long] \div 2 /\ half[a] = i.stride[a] /\ half[b] = i.stride[b]
       /\ longer[c.long] = 2 * n /\ longer[a] = na /\ longer[b] = nb
  <2>1. c.long \in Parts /\ a \in Parts /\ b \in Parts
    BY <1>1 DEF Parts, Directions
  <2>2. i.stride = [d \in Parts |-> i.stride[d]] /\ i.size = [d \in Parts |-> i.size[d]]
    BY DEF ComplexOf
  <2> QED BY <1>1, <1>7, <1>10, <2>1, <2>2
<1>12. PICK os : os = IF inPlace THEN i.stride ELSE o.stride
  OBVIOUS
<1>13. PICK pre, fft, post : pre = parts.pre /\ fft = parts.fft /\ post = parts.post
  OBVIOUS
<1>14. /\ pre = IF inPlace
                THEN Dims(Slow(i), i.size, i.stride, i.stride) \o << <<h, 2, 1>>, <<2, 1, h>> >>
                ELSE <<>>
       /\ fft = [dim   |-> <<o.size[c.long], i.stride[c.long],
                             IF inPlace THEN h ELSE o.stride[c.long]>>,
                 loops |-> Append(Dims(But(c.long, Slow(o)), i.size, i.stride, os),
                                  IF inPlace THEN <<h, 1, 1>>
                                  ELSE <<h, i.stride[3], o.stride[3]>>),
                 from  |-> <<0, IF inPlace THEN h ELSE 1>>,
                 to    |-> <<0>>]
       /\ post = IF inPlace
                 THEN Dims(Slow(o), longer, half, o.stride) \o << <<h, 1, 1>>, <<1, h, h>> >>
                 ELSE <<>>
  BY <1>7, <1>10, <1>12, <1>13 DEF C2rParts
<1>15. os[a] = o.stride[a] /\ os[b] = o.stride[b] /\ e.stride[a] = i.stride[a] /\ e.stride[b] = i.stride[b]
       /\ e.stride[c.long] = i.stride[c.long]
  BY <1>5, <1>8, <1>12
<1>16. fft.loops = << <<e.size[a], e.stride[a], o.stride[a]>>,
                      <<e.size[b], e.stride[b], o.stride[b]>>,
                      <<e.size[3], e.stride[3], o.stride[3]>> >>
  <2>1. But(c.long, Slow(o)) = <<a, b>>
    BY <1>1, <1>3, Across
  <2>2. PICK A, B, F : /\ A = <<e.size[a], e.stride[a], o.stride[a]>>
                       /\ B = <<e.size[b], e.stride[b], o.stride[b]>>
                       /\ F = <<e.size[3], e.stride[3], o.stride[3]>>
    OBVIOUS
  <2>3. Dims(<<a, b>>, i.size, i.stride, os) = <<A, B>>
    <3>1. Dims(<<a, b>>, i.size, i.stride, os) =
            << <<i.size[a], i.stride[a], os[a]>>, <<i.size[b], i.stride[b], os[b]>> >>
      BY DimsTwo
    <3> QED BY <1>9, <1>15, <2>2, <3>1
  <2>4. (IF inPlace THEN <<h, 1, 1>> ELSE <<h, i.stride[3], o.stride[3]>>) = F
    BY <1>3, <1>5, <1>7, <1>8, <1>9, <2>2
  <2>5. fft.loops = Append(Dims(But(c.long, Slow(o)), i.size, i.stride, os),
                           IF inPlace THEN <<h, 1, 1>> ELSE <<h, i.stride[3], o.stride[3]>>)
    BY <1>14
  <2>6. fft.loops = Append(<<A, B>>, F)
    BY <2>1, <2>3, <2>4, <2>5
  <2>7. fft.loops = <<A, B, F>>
    BY <2>6, AppendThird
  <2> QED BY <2>2, <2>7
<1>17. /\ fft.dim[1] = m /\ fft.dim[2] = e.stride[c.long] /\ fft.dim[3] = o.stride[c.long]
       /\ fft.from = <<0, e.stride[4]>> /\ fft.to = <<0>>
  <2>1. fft.dim = <<o.size[c.long], i.stride[c.long], IF inPlace THEN h ELSE o.stride[c.long]>>
    BY <1>14
  <2>2. fft.from = <<0, IF inPlace THEN h ELSE 1>> /\ fft.to = <<0>>
    BY <1>14
  <2> QED BY <1>3, <1>5, <1>7, <1>8, <1>15, <2>1, <2>2
<1>18. /\ Len(fft.from) = 2 /\ Len(fft.to) = 1 /\ DOMAIN fft.from = 1 .. 2 /\ DOMAIN fft.to = 1 .. 1
       /\ fft.from[1] = 0 /\ fft.from[2] = e.stride[4] /\ fft.to[1] = 0
  BY <1>17
<1>19. NumberIn(fft) = n /\ NumberOut(fft) = m
  BY <1>2, <1>17, <1>18 DEF NumberIn, NumberOut
<1>20. e.stride[4] \in Nat
  BY <1>2, <1>5, <1>7, <1>8
<1>21. /\ \A k \in DOMAIN fft.from : fft.from[k] = PartAt(0, k) * e.stride[4]
       /\ \A k \in DOMAIN fft.to : fft.to[k] = PartAt(0, k) * o.stride[4]
  <2>1. (\A k \in 1 .. 1 : k = 1) /\ (\A k \in 1 .. 2 : k = 1 \/ k = 2)
    OBVIOUS
  <2>2. PartAt(0, 1) = 0 /\ PartAt(0, 2) = 1
    BY DEF PartAt
  <2>3. 0 * e.stride[4] = 0 /\ 1 * e.stride[4] = e.stride[4] /\ 0 * 1 = 0
    BY <1>20
  <2> QED BY <1>4, <1>18, <2>1, <2>2, <2>3
<1>22. Carries(fft, t, e, o, 0)
  <2>1. n > 0
    BY <1>2
  <2> QED BY <1>1, <1>2, <1>3, <1>7, <1>9, <1>16, <1>17, <1>18, <1>19, <1>21, <2>1 DEF Carries
<1>23. Laid(c, i) /\ Laid(c, o) /\ Laid(c, e)
  <2>1. Laid(c, o)
    BY RealLaid
  <2>2. Laid(c, i) /\ Laid(c, ApartOf(c, t))
    BY ComplexLaid
  <2> QED BY <1>5, <2>1, <2>2
<1>24. inPlace => OneLine(t, e, o)
  <2> SUFFICES ASSUME inPlace PROVE OneLine(t, e, o)
    OBVIOUS
  <2>1. e = ApartOf(c, t) /\ o.stride[t[2]] = e.stride[t[2]]
    BY <1>1, <1>5, <1>8
  <2> QED BY <2>1, RowLine
\* The reordering before it.
<1>25. inPlace => Reorders(pre, t, i, e)
  <2> SUFFICES ASSUME inPlace PROVE Reorders(pre, t, i, e)
    OBVIOUS
  <2>1. Dims(<<a, b, c.long>>, i.size, i.stride, i.stride) =
          << <<i.size[a], i.stride[a], i.stride[a]>>, <<i.size[b], i.stride[b], i.stride[b]>>,
             <<i.size[c.long], i.stride[c.long], i.stride[c.long]>> >>
    BY DimsThree
  <2>2. PICK P, Q, R, S, T : /\ P = <<i.size[a], i.stride[a], e.stride[a]>>
                             /\ Q = <<i.size[b], i.stride[b], e.stride[b]>>
                             /\ R = <<i.size[c.long], i.stride[c.long], e.stride[c.long]>>
                             /\ S = <<i.size[3], i.stride[3], e.stride[3]>>
                             /\ T = <<i.size[4], i.stride[4], e.stride[4]>>
    OBVIOUS
  <2>3. Dims(<<a, b, c.long>>, i.size, i.stride, i.stride) = <<P, Q, R>>
    BY <1>8, <2>1, <2>2
  <2>4. <<h, 2, 1>> = S /\ <<2, 1, h>> = T
    BY <1>7, <1>8, <2>2
  <2>5. pre = <<P, Q, R>> \o <<S, T>>
    BY <1>8, <1>14, <2>3, <2>4
  <2>6. pre = <<P, Q, R, S, T>>
    BY <2>5, Joined
  <2> QED BY <1>1, <1>9, <2>2, <2>6 DEF Reorders
\* The reordering after it.
<1>26. ASSUME inPlace, NEW q \in Points(post) PROVE q[1] = q[2] /\ q[1] \in Within(c)
  <2>1. PICK P, Q, R, S, T : /\ P = <<na, i.stride[a], i.stride[a]>>
                             /\ Q = <<nb, i.stride[b], i.stride[b]>>
                             /\ R = <<2 * n, h, h>> /\ S = <<h, 1, 1>> /\ T = <<1, h, h>>
    OBVIOUS
  <2>2. Dims(<<a, b, c.long>>, longer, half, o.stride) = <<P, Q, R>>
    <3>1. Dims(<<a, b, c.long>>, longer, half, o.stride) =
            << <<longer[a], half[a], o.stride[a]>>, <<longer[b], half[b], o.stride[b]>>,
               <<longer[c.long], half[c.long], o.stride[c.long]>> >>
      BY DimsThree
    <3>2. (2 * h) \div 2 = h
      OBVIOUS
    <3>3. half[c.long] = h
      BY <1>8, <1>11, <1>26, <3>2
    <3> QED BY <1>3, <1>8, <1>11, <1>26, <2>1, <3>1, <3>3
  <2>3. post = Dims(Slow(o), longer, half, o.stride) \o <<S, T>>
    BY <1>14, <1>26, <2>1
  <2>4. post = <<P, Q, R>> \o <<S, T>>
    BY <1>3, <2>2, <2>3
  <2>5. post = <<P, Q, R, S, T>>
    BY <2>4, Joined
  <2>6. /\ P[1] = na /\ P[2] = i.stride[a] /\ P[3] = i.stride[a]
        /\ Q[1] = nb /\ Q[2] = i.stride[b] /\ Q[3] = i.stride[b]
        /\ R[1] = 2 * n /\ R[2] = h /\ R[3] = h
        /\ S[1] = h /\ S[2] = 1 /\ S[3] = 1 /\ T[1] = 1 /\ T[2] = h /\ T[3] = h
    BY <2>1
  <2>7. PICK ka \in 0 .. P[1] - 1, kb \in 0 .. Q[1] - 1, kc \in 0 .. R[1] - 1,
             kd \in 0 .. S[1] - 1, ke \in 0 .. T[1] - 1 :
           /\ q[1] = 0 + ka * P[2] + kb * Q[2] + kc * R[2] + kd * S[2] + ke * T[2]
           /\ q[2] = 0 + ka * P[3] + kb * Q[3] + kc * R[3] + kd * S[3] + ke * T[3]
    BY <2>5, FiveVisit
  <2>8. q[1] = q[2]
    BY <2>6, <2>7
  <2>9. PICK L \in Nat : L = (2 * h) * n /\ i.stride[b] = L /\ i.stride[a] = L * nb
    <3>1. (2 * h) * n \in Nat
      OBVIOUS
    <3>2. PICK z : z = ComplexOf(c, t)
      OBVIOUS
    <3>6. Rows(z, t, Count(c, t[2]), (2 * Half(c)) * Count(c, t[1]), 2 * Half(c))
      BY <3>2, ComplexLaid
    <3>3. /\ i.stride[t[2]] = (2 * Half(c)) * Count(c, t[1])
          /\ i.stride[t[3]] = ((2 * Half(c)) * Count(c, t[1])) * Count(c, t[2])
      BY <1>6, <1>26, <3>2, <3>6 DEF Rows
    <3>4. i.stride[b] = (2 * h) * n /\ i.stride[a] = ((2 * h) * n) * nb
      BY <1>1, <1>2, <3>3
    <3>5. PICK L \in Nat : L = (2 * h) * n
      BY <3>1
    <3> QED BY <3>4, <3>5
  <2>10. PICK x \in 0 .. na - 1, y \in 0 .. nb - 1, z \in 0 .. 2 * n - 1, f \in 0 .. h - 1 :
           x = ka /\ y = kb /\ z = kc /\ f = kd /\ ke = 0
    <3>1. ke \in 0 .. 0
      BY <2>6, <2>7
    <3> QED BY <2>6, <2>7, <3>1
  <2>11. z * h + f \in 0 .. L - 1
    <3>1. 2 * n \in Nat
      OBVIOUS
    <3>2. z * h + f \in 0 .. (2 * n) * h - 1
      BY <3>1, PlaceHasCell
    <3>3. (2 * n) * h = (2 * h) * n
      OBVIOUS
    <3> QED BY <2>9, <3>2, <3>3
  <2>12. y * L + x * (L * nb) + (z * h + f) \in Within(c)
    <3>1. L <= Count(c, 3) * Count(c, t[1])
      BY <1>2, <2>9
    <3>2. PICK r \in 0 .. L - 1 : r = z * h + f
      BY <2>11
    <3>3. x \in 0 .. Count(c, t[3]) - 1 /\ y \in 0 .. Count(c, t[2]) - 1 /\ nb = Count(c, t[2])
      BY <1>1, <1>2
    <3>4. y * L + x * (L * Count(c, t[2])) + r \in Within(c)
      BY <3>1, <3>3, Tight
    <3> QED BY <3>2, <3>3, <3>4
  <2>13. 0 + x * (L * nb) + y * L + z * h + f * 1 + 0 * h = y * L + x * (L * nb) + (z * h + f)
    <3>1. PICK p1 \in Int, p2 \in Int, p3 \in Int : p1 = x * (L * nb) /\ p2 = y * L /\ p3 = z * h
      OBVIOUS
    <3>2. f * 1 = f /\ 0 * h = 0
      OBVIOUS
    <3>3. 0 + p1 + p2 + p3 + f + 0 = p2 + p1 + (p3 + f)
      OBVIOUS
    <3> QED BY <3>1, <3>2, <3>3
  <2>14. q[1] = 0 + x * (L * nb) + y * L + z * h + f * 1 + 0 * h
    BY <2>6, <2>7, <2>9, <2>10
  <2> QED BY <2>8, <2>12, <2>13, <2>14
<1>27. (parts.pre = <<>> /\ e = i) \/ (inPlace /\ Reorders(parts.pre, t, i, e))
  BY <1>5, <1>13, <1>14, <1>25
<1>28. \/ parts.post = <<>>
       \/ inPlace /\ \A q \in Points(parts.post) : q[1] = q[2] /\ q[1] \in Within(c)
  BY <1>13, <1>14, <1>26
<1>29. Stages(c, parts, i, o, inPlace, t, e, o, 0, t)
  BY <1>13, <1>22, <1>23, <1>24, <1>27, <1>28 DEF Stages
<1>30. Shift(fft, 0) = Deeper("c2r_backward")
  BY <1>18 DEF Shift, Deeper, Forward
<1> QED BY <1>13, <1>29, <1>30

\* A plan that is sound, the case being c.
SoundIn(c, p) ==
  p.inPlace /\ p.kind \notin Complex =>
    /\ p.input.order = p.output.order
    /\ \A d \in Directions \ {c.long} : p.input.stride[d] = p.output.stride[d]

\* A plan with such stages, which goes one deeper or less deep.
Staged(c, p) ==
  \E w, e, g, first, v : /\ Stages(c, p, p.input, p.output, p.inPlace, w, e, g, first, v)
                         /\ Shift(p.fft, first) = Deeper(p.kind)

\* Every sound plan is made of such stages.
LEMMA SoundStages ==
  ASSUME NEW c, NEW p, IsPlan(c, p), SoundIn(c, p)
  PROVE  Staged(c, p)
<1>1. /\ Fit(c) /\ p.kind \in Kinds /\ p.inPlace \in BOOLEAN
      /\ p = PlanFor(p.kind, c.long, p.input, p.output, p.inPlace)
      /\ Sides(c, p.kind, p.input, p.output)
  BY DEF IsPlan
<1>2. /\ p.inPlace /\ p.kind \notin Complex =>
           /\ p.input.order = p.output.order
           /\ \A d \in Directions \ {c.long} : p.input.stride[d] = p.output.stride[d]
  BY DEF SoundIn
<1>3. PICK i, o, inPlace : i = p.input /\ o = p.output /\ inPlace = p.inPlace /\ inPlace \in BOOLEAN
  BY <1>1
<1>4. SUFFICES ASSUME NEW parts, p.pre = parts.pre, p.fft = parts.fft, p.post = parts.post,
                      \/ p.kind \in Complex /\ parts = C2cParts(p.kind, c.long, i, o, inPlace)
                      \/ p.kind = "r2c_forward" /\ parts = R2cParts(c.long, i, o, inPlace)
                      \/ p.kind = "c2r_backward" /\ parts = C2rParts(c.long, i, o, inPlace)
               PROVE  \E w, e, g, first, v :
                        /\ Stages(c, parts, i, o, inPlace, w, e, g, first, v)
                        /\ Shift(parts.fft, first) = Deeper(p.kind)
  <2>1. \E parts : /\ p.pre = parts.pre /\ p.fft = parts.fft /\ p.post = parts.post
                   /\ \/ p.kind \in Complex /\ parts = C2cParts(p.kind, c.long, i, o, inPlace)
                      \/ p.kind = "r2c_forward" /\ parts = R2cParts(c.long, i, o, inPlace)
                      \/ p.kind = "c2r_backward" /\ parts = C2rParts(c.long, i, o, inPlace)
    <3>1. PICK x : x = PlanFor(p.kind, c.long, i, o, inPlace)
      OBVIOUS
    <3>2. p.pre = x.pre /\ p.fft = x.fft /\ p.post = x.post
      BY <1>1, <1>3, <3>1
    <3>3. CASE p.kind \in Complex
      <4>1. /\ x.pre = C2cParts(p.kind, c.long, i, o, inPlace).pre
            /\ x.fft = C2cParts(p.kind, c.long, i, o, inPlace).fft
            /\ x.post = C2cParts(p.kind, c.long, i, o, inPlace).post
        BY <3>1, <3>3 DEF PlanFor, Complex
      <4> QED BY <3>2, <3>3, <4>1
    <3>4. CASE p.kind = "r2c_forward"
      <4>1. /\ x.pre = R2cParts(c.long, i, o, inPlace).pre
            /\ x.fft = R2cParts(c.long, i, o, inPlace).fft
            /\ x.post = R2cParts(c.long, i, o, inPlace).post
        BY <3>1, <3>4 DEF PlanFor, Complex
      <4> QED BY <3>2, <3>4, <4>1
    <3>5. CASE p.kind = "c2r_backward"
      <4>1. /\ x.pre = C2rParts(c.long, i, o, inPlace).pre
            /\ x.fft = C2rParts(c.long, i, o, inPlace).fft
            /\ x.post = C2rParts(c.long, i, o, inPlace).post
        BY <3>1, <3>5 DEF PlanFor, Complex
      <4> QED BY <3>2, <3>5, <4>1
    <3> QED BY <1>1, <3>3, <3>4, <3>5 DEF Kinds, Forward, Complex
  <2>2. PICK parts : /\ p.pre = parts.pre /\ p.fft = parts.fft /\ p.post = parts.post
                   /\ \/ p.kind \in Complex /\ parts = C2cParts(p.kind, c.long, i, o, inPlace)
                      \/ p.kind = "r2c_forward" /\ parts = R2cParts(c.long, i, o, inPlace)
                      \/ p.kind = "c2r_backward" /\ parts = C2rParts(c.long, i, o, inPlace)
    BY <2>1
  <2>3. PICK w, e, g, first, v : /\ Stages(c, parts, i, o, inPlace, w, e, g, first, v)
                                 /\ Shift(parts.fft, first) = Deeper(p.kind)
    BY <2>2
  <2>4. Stages(c, p, i, o, inPlace, w, e, g, first, v)
    BY <2>2, <2>3 DEF Stages
  <2>5. Shift(p.fft, first) = Deeper(p.kind)
    BY <2>2, <2>3
  <2> QED BY <1>3, <2>4, <2>5 DEF Staged
<1>5. CASE p.kind \in Complex /\ parts = C2cParts(p.kind, c.long, i, o, inPlace)
  <2>1. PICK s \in Turns, t \in Turns :
          i = ComplexOf(c, s) /\ o = ComplexOf(c, t) /\ c.long \in {s[1], t[1]}
    BY <1>1, <1>3, <1>5 DEF Sides, Complex
  <2> QED BY <1>1, <1>3, <1>5, <2>1, C2cStages
<1>6. CASE p.kind = "r2c_forward" /\ parts = R2cParts(c.long, i, o, inPlace)
  <2>1. PICK s \in Turns, t \in Turns, packed \in BOOLEAN :
          s[1] = c.long /\ i = RealOf(c, s, packed) /\ o = ComplexOf(c, t)
    BY <1>1, <1>3, <1>6 DEF Sides, Complex
  <2>2. inPlace => i.order = o.order
                   /\ \A d \in Directions \ {c.long} : i.stride[d] = o.stride[d]
    BY <1>2, <1>3, <1>6 DEF Complex
  <2>3. i.order = <<4, 3, s[1], s[2], s[3]>> /\ o.order = <<4, 3, t[1], t[2], t[3]>>
    BY <2>1 DEF RealOf, ComplexOf
  <2>4. inPlace => t[1] = s[1] /\ t[2] = s[2] /\ t[3] = s[3]
    BY <2>2, <2>3
  <2> QED BY <1>1, <1>3, <1>6, <2>1, <2>2, <2>4, R2cStages
<1>7. CASE p.kind = "c2r_backward" /\ parts = C2rParts(c.long, i, o, inPlace)
  <2>1. PICK s \in Turns, t \in Turns, packed \in BOOLEAN :
          t[1] = c.long /\ i = ComplexOf(c, s) /\ o = RealOf(c, t, packed)
    BY <1>1, <1>3, <1>7 DEF Sides, Complex
  <2>2. inPlace => i.order = o.order
                   /\ \A d \in Directions \ {c.long} : i.stride[d] = o.stride[d]
    BY <1>2, <1>3, <1>7 DEF Complex
  <2>3. i.order = <<4, 3, s[1], s[2], s[3]>> /\ o.order = <<4, 3, t[1], t[2], t[3]>>
    BY <2>1 DEF RealOf, ComplexOf
  <2>4. inPlace => s[1] = t[1] /\ s[2] = t[2] /\ s[3] = t[3]
    BY <2>2, <2>3
  <2> QED BY <1>1, <1>3, <1>7, <2>1, <2>2, <2>4, C2rStages
<1> QED BY <1>4, <1>5, <1>6, <1>7

---------------------------------------------------------------------------
(* Plans that stay in memory.                                              *)

\* Plans stay in memory.
THEOREM PlansWithin == Spec => []PlansStayInMemory
<1>1. IInv => PlansStayInMemory
  <2> SUFFICES ASSUME IInv, NEW p \in {q \in plans : Sound(q)}
               PROVE  /\ \A dims \in {p.pre, p.post} \ {<<>>} : \A q \in Points(dims) :
                           q[1] \in Memory /\ q[2] \in Memory
                      /\ \A l \in Points(p.fft.loops) :
                           Reads(p.fft, l) \cup Writes(p.fft, l) \subseteq Memory
    BY DEF PlansStayInMemory
  <2>1. IsPlan(case, p) /\ Sound(p)
    BY DEF IInv
  <2>2. Stays(case, p)
    <3>1. SoundIn(case, p)
      BY <2>1 DEF Sound, SoundIn
    <3> QED BY <2>1, <3>1, SoundStages, StagesStay DEF Staged
  <2>3. Memory = Within(case)
    BY DEF Memory, Within
  <2> QED BY <2>2, <2>3 DEF Stays
<1> QED BY <1>1, Inductive, PTL

---------------------------------------------------------------------------
(* Where the data is.                                                      *)

\* The input of any plan has a place for each value.
LEMMA PlanLaid ==
  ASSUME NEW c, NEW p, IsPlan(c, p)
  PROVE  Laid(c, p.input)
<1>1. Fit(c) /\ Sides(c, p.kind, p.input, p.output)
  BY DEF IsPlan
<1>2. \/ \E s \in Turns : p.input = ComplexOf(c, s)
      \/ \E s \in Turns, packed \in BOOLEAN : s[1] = c.long /\ p.input = RealOf(c, s, packed)
  BY <1>1 DEF Sides
<1>3. CASE \E s \in Turns : p.input = ComplexOf(c, s)
  <2>1. PICK s \in Turns : p.input = ComplexOf(c, s)
    BY <1>3
  <2>2. p.input \in {ComplexOf(c, s), ApartOf(c, s)}
    BY <2>1
  <2> QED BY <1>1, <2>2, ComplexLaid
<1>4. CASE \E s \in Turns, packed \in BOOLEAN : s[1] = c.long /\ p.input = RealOf(c, s, packed)
  <2>1. PICK s \in Turns, packed \in BOOLEAN : s[1] = c.long /\ p.input = RealOf(c, s, packed)
    BY <1>4
  <2> QED BY <1>1, <2>1, RealLaid
<1> QED BY <1>2, <1>3, <1>4

\* The contents of all buffers are those of the local memory.
Filled == \A b \in Buffers : DOMAIN buf[b] = Within(case)

\* What executing a sound plan makes of its output buffer.
LEMMA ExecutedMoves ==
  ASSUME NEW p, IsPlan(case, p), SoundIn(case, p), NEW in \in Buffers, NEW out \in Buffers,
         p.inPlace <=> in = out, DOMAIN buf = Buffers, Filled,
         NEW space, space \in Int, StoredAs(buf[in], p.input, space)
  PROVE  StoredAs(Executed(p, in, out)[out], p.output, space + Deeper(p.kind))
<1>1. PICK c, f, g : c = case /\ f = buf[in] /\ g = buf[out]
  OBVIOUS
<1>2. DOMAIN f = Within(c) /\ DOMAIN g = Within(c)
  BY <1>1 DEF Filled
<1>3. PICK w, l, r, first, v : /\ Stages(c, p, p.input, p.output, p.inPlace, w, l, r, first, v)
                               /\ Shift(p.fft, first) = Deeper(p.kind)
  BY <1>1, SoundStages DEF Staged
<1>4. p.inPlace \in BOOLEAN
  BY DEF IsPlan
<1>5. PICK inPlace : inPlace = p.inPlace /\ inPlace \in BOOLEAN
  BY <1>4
<1>6. StoredAs(Becomes(p, c.long, inPlace, f, g), p.output, space + Deeper(p.kind))
  <2>1. Stages(c, p, p.input, p.output, inPlace, w, l, r, first, v)
    BY <1>3, <1>5
  <2>2. StoredAs(f, p.input, space)
    BY <1>1
  <2>3. StoredAs(Becomes(p, c.long, inPlace, f, g), p.output, space + Shift(p.fft, first))
    BY <1>2, <1>5, <2>1, <2>2, StagesMove
  <2> QED BY <1>3, <2>3
<1>7. Executed(p, in, out)[out] = Becomes(p, c.long, inPlace, f, g)
  <2>1. PICK pre : pre = IF p.pre = <<>> THEN f ELSE Reordered(f, p.pre)
    OBVIOUS
  <2>2. PICK to : to = Transformed(p.fft, c.long, inPlace, pre, IF inPlace THEN pre ELSE g)
    OBVIOUS
  <2>3. PICK post : post = IF p.post = <<>> THEN to ELSE Reordered(to, p.post)
    OBVIOUS
  <2>4. Becomes(p, c.long, inPlace, f, g) = post
    BY <2>1, <2>2, <2>3 DEF Becomes
  <2>5. PICK lost : lost = [a \in Memory |-> IF a \in UNION {Reads(p.fft, q) : q \in Points(p.fft.loops)}
                                             THEN Junk ELSE f[a]]
    OBVIOUS
  <2>6. Executed(p, in, out) = IF inPlace THEN [buf EXCEPT ![in] = post]
                               ELSE [buf EXCEPT ![in] = lost, ![out] = to]
    BY <1>1, <1>5, <2>1, <2>2, <2>3, <2>5, Zenon DEF Executed
  <2>7. CASE inPlace
    <3>1. in = out
      BY <1>5, <2>7
    <3> QED BY <2>4, <2>6, <2>7, <3>1
  <2>8. CASE ~inPlace
    <3>1. p.post = <<>>
      BY <1>3, <1>5, <2>8 DEF Stages
    <3>2. post = to
      BY <2>3, <3>1
    <3> QED BY <2>4, <2>6, <2>8, <3>2
  <2> QED BY <1>5, <2>7, <2>8
<1> QED BY <1>6, <1>7

\* Whatever plan is executed, the buffers stay filled.
LEMMA ExecutedFills ==
  ASSUME NEW p, NEW in \in Buffers, NEW out \in Buffers, DOMAIN buf = Buffers, Filled,
         NEW b \in Buffers
  PROVE  DOMAIN Executed(p, in, out)[b] = Within(case)
<1>1. PICK c, f, g : c = case /\ f = buf[in] /\ g = buf[out]
  OBVIOUS
<1>2. DOMAIN f = Within(c) /\ DOMAIN g = Within(c) /\ DOMAIN buf[b] = Within(c)
  BY <1>1 DEF Filled
<1>3. PICK pre : pre = IF p.pre = <<>> THEN f ELSE Reordered(f, p.pre)
  OBVIOUS
<1>4. PICK aim : aim = IF p.inPlace THEN pre ELSE g
  OBVIOUS
<1>5. PICK to : to = Transformed(p.fft, c.long, p.inPlace, pre, aim)
  OBVIOUS
<1>6. PICK post : post = IF p.post = <<>> THEN to ELSE Reordered(to, p.post)
  OBVIOUS
<1>7. PICK lost : lost = [a \in Memory |-> IF a \in UNION {Reads(p.fft, q) : q \in Points(p.fft.loops)}
                                           THEN Junk ELSE f[a]]
  OBVIOUS
<1>8. DOMAIN pre = Within(c)
  BY <1>2, <1>3, ReorderDomain
<1>9. DOMAIN to = Within(c)
  BY <1>2, <1>4, <1>5, <1>8, TransformDomain
<1>10. DOMAIN post = Within(c)
  BY <1>6, <1>9, ReorderDomain
<1>11. DOMAIN lost = Within(c)
  BY <1>1, <1>7 DEF Memory, Within
<1>12. \/ Executed(p, in, out) = [buf EXCEPT ![in] = post]
       \/ Executed(p, in, out) = [buf EXCEPT ![in] = lost, ![out] = to]
  BY <1>1, <1>3, <1>4, <1>5, <1>6, <1>7, Zenon DEF Executed
<1> QED BY <1>1, <1>2, <1>9, <1>10, <1>11, <1>12

\* The data is where it is described to be, unless an unsound plan moved it.
HeldAt(c, x, contents) ==
  (\A k \in DOMAIN x.by : SoundIn(c, x.by[k])) => StoredAs(contents, x.layout, x.space)

\* The inductive invariant of the data.
DInv ==
  /\ IInv
  /\ Filled
  /\ at # Nowhere => HeldAt(case, at, buf[at.buf])

\* The invariant says that the data is where it is described to be.
LEMMA HeldIsDescribed ==
  ASSUME DInv
  PROVE  DataWhereSound
<1> SUFFICES ASSUME at # Nowhere, \A p \in ToSet(at.by) : Sound(p)
             PROVE  DataWhereDescribed
  BY DEF DataWhereSound
<1>1. \A k \in DOMAIN at.by : SoundIn(case, at.by[k])
  <2> SUFFICES ASSUME NEW k \in DOMAIN at.by PROVE SoundIn(case, at.by[k])
    OBVIOUS
  <2>1. at.by[k] \in ToSet(at.by)
    BY DEF ToSet
  <2>2. Sound(at.by[k])
    BY <2>1
  <2> QED BY <2>2 DEF Sound, SoundIn
<1>2. StoredAs(buf[at.buf], at.layout, at.space)
  BY <1>1 DEF DInv, HeldAt
<1> QED BY <1>2 DEF StoredAs, DataWhereDescribed

\* Where planning does not overwrite the data it stays.
LEMMA ConcludesHolds ==
  ASSUME DInv, UNCHANGED case, NEW kind, NEW in, NEW out, NEW input, NEW output, NEW afterNull,
         Concludes(kind, in, out, input, output, afterNull)
  PROVE  Filled' /\ (at' # Nowhere => HeldAt(case', at', buf'[at'.buf]))
<1>1. UNCHANGED <<buf, at>> \/ Overwrites(in, out)
  BY DEF Concludes
<1>2. CASE UNCHANGED <<buf, at>>
  BY <1>2 DEF DInv, Filled
<1>3. CASE Overwrites(in, out)
  <2>1. buf' = [b \in Buffers |-> IF b \in {in, out} THEN [a \in Memory |-> Junk] ELSE buf[b]]
    BY <1>3 DEF Overwrites
  <2>2. Memory = Within(case)
    BY DEF Memory, Within
  <2>3. Filled'
    <3> SUFFICES ASSUME NEW b \in Buffers PROVE DOMAIN buf'[b] = Within(case)
      BY DEF Filled
    <3>1. DOMAIN buf[b] = Within(case)
      BY DEF DInv, Filled
    <3> QED BY <2>1, <2>2, <3>1
  <2>4. ASSUME at' # Nowhere
        PROVE  at' = at /\ at # Nowhere /\ buf'[at.buf] = buf[at.buf]
    <3>1. at' = at /\ at # Nowhere /\ at.buf \notin {in, out}
      BY <1>3, <2>4 DEF Overwrites
    <3>2. at.buf \in Buffers
      BY <3>1 DEF DInv, IInv, AtOk
    <3> QED BY <2>1, <3>1, <3>2
  <2>5. at # Nowhere => HeldAt(case, at, buf[at.buf])
    BY DEF DInv
  <2> QED BY <2>3, <2>4, <2>5
<1> QED BY <1>1, <1>2, <1>3

\* What a caller stores lies as described.
LEMMA FillHolds ==
  ASSUME DInv, Fill
  PROVE  Filled' /\ (at' # Nowhere => HeldAt(case', at', buf'[at'.buf]))
<1>1. PICK p \in plans, b \in Buffers :
        /\ buf' = [buf EXCEPT ![b] = [a \in Memory |->
                     IF {x \in Coordinates(p.input) : Address(p.input, x) = a} = {} THEN Junk
                     ELSE Value(CHOOSE x \in {y \in Coordinates(p.input) : Address(p.input, y) = a} :
                                  TRUE, 0)]]
        /\ at' = [buf |-> b, layout |-> p.input, space |-> 0, by |-> <<>>]
  BY DEF Fill
<1>2. PICK e, c : e = p.input /\ c = case
  OBVIOUS
<1>3. PICK g : g = [a \in Within(c) |->
                     IF {x \in Coordinates(e) : Address(e, x) = a} = {} THEN Junk
                     ELSE Value(CHOOSE x \in {y \in Coordinates(e) : Address(e, y) = a} : TRUE, 0)]
  OBVIOUS
<1>4. Memory = Within(c)
  BY <1>2 DEF Memory, Within
<1>5. buf' = [buf EXCEPT ![b] = g] /\ at'.buf = b /\ at'.layout = e /\ at'.space = 0
  BY <1>1, <1>2, <1>3, <1>4
<1>6. UNCHANGED case /\ DOMAIN buf = Buffers /\ (\A x \in Buffers : DOMAIN buf[x] = Within(c))
  BY <1>2 DEF Fill, DInv, IInv, Filled
<1>7. DOMAIN g = Within(c)
  BY <1>3
<1>8. Filled'
  BY <1>2, <1>5, <1>6, <1>7 DEF Filled
<1>9. Distinct(e) /\ \A x \in Coordinates(e) : Address(e, x) \in Within(c)
  <2>1. IsPlan(c, p)
    BY <1>2 DEF DInv, IInv
  <2> QED BY <1>2, <2>1, PlanLaid DEF Laid
<1>10. StoredAs(g, e, 0)
  <2> SUFFICES ASSUME NEW x \in Coordinates(e)
               PROVE  Look(g, Address(e, x)) = Value(x, 0)
    BY DEF StoredAs
  <2>1. Address(e, x) \in Within(c)
    BY <1>9
  <2>2. PICK S : S = {y \in Coordinates(e) : Address(e, y) = Address(e, x)}
    OBVIOUS
  <2>3. S = {x}
    BY <1>9, <2>2 DEF Distinct
  <2>4. g[Address(e, x)] = Value(CHOOSE y \in S : TRUE, 0)
    BY <1>3, <2>1, <2>2, <2>3
  <2>5. (CHOOSE y \in S : TRUE) = x
    BY <2>3
  <2> QED BY <1>7, <2>1, <2>4, <2>5 DEF Look
<1>11. buf'[at'.buf] = g
  BY <1>5, <1>6
<1>12. HeldAt(case', at', buf'[at'.buf])
  BY <1>5, <1>10, <1>11 DEF HeldAt
<1> QED BY <1>8, <1>12

\* A sound plan takes what lies as described to where its output describes it.
LEMMA ExecuteHolds ==
  ASSUME DInv, Execute
  PROVE  Filled' /\ (at' # Nowhere => HeldAt(case', at', buf'[at'.buf]))
<1>1. PICK p \in plans, out \in Buffers :
        /\ at.layout = p.input
        /\ p.inPlace <=> at.buf = out
        /\ buf' = Executed(p, at.buf, out)
        /\ at' = Moved(p, out)
  BY DEF Execute
<1>2. /\ UNCHANGED case /\ at # Nowhere /\ AtOk(case, at) /\ IsPlan(case, p)
      /\ DOMAIN buf = Buffers /\ Filled /\ HeldAt(case, at, buf[at.buf])
  BY DEF Execute, DInv, IInv
<1>3. PICK c, x, y : c = case /\ x = at /\ y = at'
  OBVIOUS
<1>4. x.buf \in Buffers
  BY <1>2, <1>3 DEF AtOk
<1>5. Filled'
  <2> SUFFICES ASSUME NEW b \in Buffers PROVE DOMAIN buf'[b] = Within(case')
    BY DEF Filled
  <2>1. DOMAIN Executed(p, x.buf, out)[b] = Within(case)
    BY <1>2, <1>4, ExecutedFills
  <2> QED BY <1>1, <1>2, <1>3, <2>1
<1>6. /\ y.buf = out /\ y.layout = p.output /\ y.space = x.space + Deeper(p.kind)
      /\ y.by = Append(x.by, p)
  BY <1>1, <1>3 DEF Moved, Deeper
<1>7. ASSUME \A k \in DOMAIN y.by : SoundIn(c, y.by[k])
      PROVE  StoredAs(buf'[out], p.output, y.space)
  <2>1. PICK S : x.by \in Seq(S)
    BY <1>2, <1>3 DEF AtOk
  <2>2. PICK q, r : q = x.by /\ r = Append(q, p)
    OBVIOUS
  <2>3. PICK n \in Nat : n = Len(q) /\ q \in Seq(S)
    BY <2>1, <2>2
  <2>4. /\ DOMAIN r = 1 .. n + 1 /\ DOMAIN q = 1 .. n
        /\ r[n + 1] = p /\ \A k \in 1 .. n : r[k] = q[k]
    BY <2>2, <2>3
  <2>5. SoundIn(c, p) /\ \A k \in DOMAIN q : SoundIn(c, q[k])
    <3>1. \A k \in 1 .. n + 1 : SoundIn(c, r[k])
      BY <1>6, <1>7, <2>2, <2>4
    <3>2. n + 1 \in 1 .. n + 1 /\ \A k \in 1 .. n : k \in 1 .. n + 1
      OBVIOUS
    <3> QED BY <2>4, <3>1, <3>2
  <2>6. StoredAs(buf[x.buf], p.input, x.space)
    BY <1>1, <1>2, <1>3, <2>2, <2>5 DEF HeldAt
  <2>7. x.space \in Int
    <3>1. x.space \in -n .. n
      BY <1>2, <1>3, <2>2, <2>3 DEF AtOk
    <3> QED BY <3>1
  <2>8. p.inPlace <=> x.buf = out
    BY <1>1, <1>3
  <2>9. StoredAs(Executed(p, x.buf, out)[out], p.output, x.space + Deeper(p.kind))
    BY <1>2, <1>3, <1>4, <2>5, <2>6, <2>7, <2>8, ExecutedMoves
  <2> QED BY <1>1, <1>3, <1>6, <2>9
<1>8. HeldAt(c, y, buf'[y.buf])
  BY <1>6, <1>7 DEF HeldAt
<1> QED BY <1>2, <1>3, <1>5, <1>8

\* The data is where the extents of the last plan describe it, as long as all
\* plans it went through are sound.
THEOREM DataStaysDescribed == Spec => []DataWhereSound
<1>1. Init => Filled /\ at = Nowhere
  BY DEF Init, Filled, Memory, Within
<1>2. IInv /\ DInv /\ [Next]_vars /\ IInv' => DInv'
  <2> SUFFICES ASSUME DInv, [Next]_vars, IInv' PROVE DInv'
    OBVIOUS
  <2>1. Filled /\ (at # Nowhere => HeldAt(case, at, buf[at.buf]))
    BY DEF DInv
  <2>2. SUFFICES Filled' /\ (at' # Nowhere => HeldAt(case', at', buf'[at'.buf]))
    BY DEF DInv
  <2>3. CASE UNCHANGED <<case, buf, at>>
    BY <2>1, <2>3 DEF Filled
  <2>4. CASE Settle
    <3>1. UNCHANGED case
      BY <2>4 DEF Settle
    <3>2. \/ UNCHANGED <<buf, at>>
          \/ \E kind, in, out, input, output : Concludes(kind, in, out, input, output, "running")
      BY <2>4 DEF Settle
    <3> QED BY <2>3, <3>1, <3>2, ConcludesHolds
  <2>5. CASE CreateInverse
    <3>1. UNCHANGED case
      BY <2>5 DEF CreateInverse
    <3>2. \E kind, in, out, input, output : Concludes(kind, in, out, input, output, "crashed")
      BY <2>5 DEF CreateInverse
    <3> QED BY <3>1, <3>2, ConcludesHolds
  <2>6. CASE Fill
    BY <2>6, FillHolds
  <2>7. CASE Execute
    BY <2>7, ExecuteHolds
  <2> QED BY <2>3, <2>4, <2>5, <2>6, <2>7 DEF Next, vars, Create, Rotate, Adjust, Destroy
<1>3. Spec => []DInv
  <2>1. Init /\ IInv => DInv
    BY <1>1 DEF DInv
  <2> QED BY <1>2, <2>1, Inductive, PTL DEF Spec
<1>4. DInv => DataWhereSound
  BY HeldIsDescribed
<1> QED BY <1>3, <1>4, PTL

---------------------------------------------------------------------------
(* What the benchmark checks.                                              *)

\* The addresses that are compared are on the lines and in front of the padding.
LEMMA BenchSees ==
  ASSUME NEW u \in Turns, u[1] = case.long, NEW packed \in BOOLEAN, Fit(case),
         NEW e, e = RealOf(case, u, packed)
  PROVE  LET values == {Address(e, x) : x \in Coordinates(e)}
         IN  /\ BenchChecks(e) \subseteq values
             /\ e.size[3] = 1 => BenchChecks(e) = values
<1>1. PICK c : c = case
  OBVIOUS
<1>2. PICK h \in Nat, n \in Nat \ {0}, m \in Nat, L \in Nat :
        /\ h = Half(c) /\ n = Count(c, c.long) /\ m = RealLength(n) /\ L = Line(c, packed)
        /\ Count(c, 3) = 2 * h /\ m >= 1
        /\ L <= (2 * h) * n /\ h * m <= L
  <2>1. /\ Half(c) \in Nat /\ Count(c, c.long) \in Nat \ {0} /\ Count(c, 3) = 2 * Half(c)
    BY <1>1, CountIs
  <2>2. /\ Line(c, packed) \in Nat /\ Line(c, packed) <= Count(c, 3) * Count(c, c.long)
        /\ Half(c) * RealLength(Count(c, c.long)) <= Line(c, packed)
    BY <1>1, LineIs
  <2>3. RealLength(Count(c, c.long)) \in Nat /\ RealLength(Count(c, c.long)) >= 1
    BY <2>1, LengthIs
  <2> QED BY <2>1, <2>2, <2>3
<1>3. PICK n2 \in Nat, n3 \in Nat, E \in Nat :
        /\ n2 = Count(c, u[2]) /\ n3 = Count(c, u[3]) /\ E = Extent(c.prob, c.rank, c.long)
        /\ ((2 * h) * n) * (n3 * n2) = E
  <2>1. /\ Count(c, u[2]) \in Nat /\ Count(c, u[3]) \in Nat
        /\ (Count(c, 3) * Count(c, u[1])) * (Count(c, u[3]) * Count(c, u[2]))
             = Extent(c.prob, c.rank, c.long)
        /\ Extent(c.prob, c.rank, c.long) \in Nat
    BY <1>1, CountsMultiply
  <2> QED BY <1>1, <1>2, <2>1
<1>4. (n3 * n2) * L <= E /\ (n3 * n2) * L \in Nat /\ n3 * n2 \in Nat
  <2>1. PICK w \in Nat, v \in Nat : w = (2 * h) * n /\ v = n3 * n2
    OBVIOUS
  <2>2. v * L <= v * w /\ v * w = w * v
    BY <1>2, <2>1
  <2> QED BY <1>3, <2>1, <2>2
<1>5. /\ e.order[5] = u[3] /\ e.order[4] = u[2] /\ e.order[3] = u[1]
  <2>1. e.order = <<4, 3, u[1], u[2], u[3]>>
    BY DEF RealOf
  <2> QED BY <2>1
<1>6. /\ e.stride[u[3]] = L * n2 /\ e.stride[u[2]] = L
      /\ e.size[u[3]] = n3 /\ e.size[u[1]] = m /\ e.size[3] = h
  BY <1>1, <1>2, <1>3, RealStrides
<1>7. BenchChecks(e) = {i \in 0 .. (n3 * n2) * L - 1 : i % L < m}
  <2>1. Smaller(E, (L * n2) * n3) = (n3 * n2) * L
    <3>1. (L * n2) * n3 = (n3 * n2) * L
      OBVIOUS
    <3> QED BY <1>4, <3>1 DEF Smaller
  <2>2. BenchChecks(e) = {i \in 0 .. Smaller(E, (L * n2) * n3) - 1 : i % L < m}
    BY <1>1, <1>3, <1>5, <1>6 DEF BenchChecks
  <2> QED BY <2>1, <2>2
<1>8. /\ Laid(c, e) /\ Rows(e, u, n2, L, h)
      /\ \A x \in Coordinates(e) : x[4] = 0 /\ Inner(e, x) = x[3]
  <2>1. /\ Laid(c, e) /\ Rows(e, u, Count(c, u[2]), Line(c, packed), Half(c))
        /\ \A x \in Coordinates(e) : x[4] = 0 /\ Inner(e, x) = x[3]
    BY <1>1, RealLaid
  <2> QED BY <1>2, <1>3, <2>1
<1>9. Spans(Coordinates(e), u, m, n2, n3, h, 1)
  <2>1. Spans(Coordinates(e), u, e.size[u[1]], e.size[u[2]], e.size[u[3]], e.size[3], e.size[4])
    BY <1>8, LayoutSpans DEF Laid, Measured
  <2>2. e.size[u[2]] = n2 /\ e.size[4] = 1
    <3>1. 4 \in Parts
      BY DEF Parts
    <3> QED BY <1>8, <3>1 DEF Rows, RealOf
  <2> QED BY <1>6, <2>1, <2>2
<1>10. ASSUME NEW i \in BenchChecks(e)
      PROVE  \E x \in Coordinates(e) : i = Address(e, x)
  <2>1. i \in 0 .. (n3 * n2) * L - 1 /\ i % L < m
    BY <1>7
  <2>2. PICK q \in 0 .. n3 * n2 - 1, r \in 0 .. L - 1 : i = q * L + r /\ r = i % L /\ L > 0
    <3>1. PICK v \in Nat : v = n3 * n2
      BY <1>4
    <3>2. i \in 0 .. v * L - 1
      BY <2>1, <3>1
    <3>3. /\ L > 0 /\ i \div L \in 0 .. v - 1 /\ i % L \in 0 .. L - 1
          /\ i = (i \div L) * L + (i % L)
      BY <3>2, CellHasPlace
    <3> QED BY <3>1, <3>3
  <2>3. PICK k3 \in 0 .. n3 - 1, k2 \in 0 .. n2 - 1 : q = k3 * n2 + k2
    <3>1. /\ q \div n2 \in 0 .. n3 - 1 /\ q % n2 \in 0 .. n2 - 1
          /\ q = (q \div n2) * n2 + (q % n2)
      BY CellHasPlace
    <3> QED BY <3>1
  <2>4. h # 0
    <3>1. h = 0 => (2 * h) * n = 0
      OBVIOUS
    <3> QED BY <1>2, <2>2, <3>1
  <2>5. r \in 0 .. m * h - 1
    <3>1. m * h >= m
      <4>1. PICK j \in Nat : h = j + 1
        BY <2>4
      <4>2. m * (j + 1) = m * j + m /\ m * j \in Nat
        OBVIOUS
      <4> QED BY <4>1, <4>2
    <3> QED BY <2>1, <2>2, <3>1
  <2>6. PICK k1 \in 0 .. m - 1, f \in 0 .. h - 1 : r = k1 * h + f
    <3>1. /\ r \div h \in 0 .. m - 1 /\ r % h \in 0 .. h - 1
          /\ r = (r \div h) * h + (r % h)
      BY <2>5, CellHasPlace
    <3> QED BY <3>1
  <2>7. PICK x : x = Spot(u, k1, k2, k3, f, 0)
    OBVIOUS
  <2>8. x \in Coordinates(e)
    <3>1. 0 \in 0 .. 1 - 1
      OBVIOUS
    <3> QED BY <1>9, <2>7, <3>1 DEF Spans
  <2>9. Address(e, x) = (k3 * n2 + k2) * L + (k1 * h + f)
    <3>1. x[u[1]] = k1 /\ x[u[2]] = k2 /\ x[u[3]] = k3 /\ x[3] = f
      BY <2>7, SpotIs
    <3>2. Address(e, x) = (x[u[3]] * n2 + x[u[2]]) * L + (x[u[1]] * h + Inner(e, x))
      <4>1. InRow(e, u, n2, L, h, x)
        BY <1>8, <2>8, RowsAddress
      <4> QED BY <4>1 DEF InRow
    <3> QED BY <1>8, <2>8, <3>1, <3>2
  <2> QED BY <2>2, <2>3, <2>6, <2>8, <2>9
<1>11. ASSUME h = 1, NEW x \in Coordinates(e)
      PROVE  Address(e, x) \in BenchChecks(e)
  <2>1. PICK k1 \in 0 .. m - 1, k2 \in 0 .. n2 - 1, k3 \in 0 .. n3 - 1 :
          k1 = x[u[1]] /\ k2 = x[u[2]] /\ k3 = x[u[3]] /\ x[3] \in 0 .. h - 1
    BY <1>9 DEF Spans
  <2>2. x[3] = 0
    BY <1>11, <2>1
  <2>3. Address(e, x) = (k3 * n2 + k2) * L + (k1 * h + 0)
    <3>1. Address(e, x) = (x[u[3]] * n2 + x[u[2]]) * L + (x[u[1]] * h + Inner(e, x))
      <4>1. InRow(e, u, n2, L, h, x)
        BY <1>8, RowsAddress
      <4> QED BY <4>1 DEF InRow
    <3>2. Inner(e, x) = 0
      BY <1>8, <2>2
    <3> QED BY <2>1, <3>1, <3>2
  <2>4. PICK q \in 0 .. n3 * n2 - 1 : q = k3 * n2 + k2
    BY PlaceHasCell
  <2>5. k1 \in 0 .. L - 1 /\ k1 * h + 0 = k1
    BY <1>2, <1>11
  <2>6. q * L + k1 \in 0 .. (n3 * n2) * L - 1 /\ (q * L + k1) % L = k1
    BY <1>4, <2>5, PlaceHasCell
  <2>7. Address(e, x) = q * L + k1
    BY <2>3, <2>4, <2>5
  <2> QED BY <1>7, <2>1, <2>6, <2>7
<1> QED BY <1>6, <1>10, <1>11

\* What the benchmark compares are values, and with one field they are all.
THEOREM BenchReadsValues == Spec => []BenchChecksData
<1>1. IInv => BenchChecksData
  <2> SUFFICES ASSUME IInv, NEW p \in plans, p.input.size[4] = 1
               PROVE  LET values == {Address(p.input, x) : x \in Coordinates(p.input)}
                      IN  /\ BenchChecks(p.input) \subseteq values
                          /\ p.input.size[3] = 1 => BenchChecks(p.input) = values
    BY DEF BenchChecksData
  <2>1. IsPlan(case, p)
    BY DEF IInv
  <2>2. \A c, s : ComplexOf(c, s).size[4] = 2
    <3>1. 4 \in Parts
      BY DEF Parts
    <3> QED BY <3>1 DEF ComplexOf
  <2>3. PICK s \in Turns, packed \in BOOLEAN : s[1] = case.long /\ p.input = RealOf(case, s, packed)
    BY <2>1, <2>2 DEF IsPlan, Sides
  <2> QED BY <2>1, <2>3, BenchSees DEF IsPlan
<1> QED BY <1>1, Inductive, PTL

===============================================================================
