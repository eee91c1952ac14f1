---------------------------- MODULE BenchProofs ----------------------------
(***************************************************************************)
(* Proofs about the main loop of underling_bench: it stays in its buffers  *)
(* whatever the number of fields, the mix of stages and the repetitions,   *)
(* and a single field is where the loop looks for it exactly in the        *)
(* iterations that start from it.                                          *)
(***************************************************************************)
EXTENDS Bench, TLAPS

---------------------------------------------------------------------------
(* The table of moves.                                                     *)

\* The recursive definition of the aggregate movement unfolds.
LEMMA AggregateUnfolds ==
  aggregate = [k \in 0 .. 5 |-> IF k = 0 THEN 0
                 ELSE aggregate[k - 1] + Move(aggregate[k - 1], k - 1)]
<1> DEFINE step(g) == [k \in 0 .. 5 |-> IF k = 0 THEN 0
                         ELSE g[k - 1] + Move(g[k - 1], k - 1)]
           x1 == 0 + Move(0, 0)
           x2 == x1 + Move(x1, 1)
           x3 == x2 + Move(x2, 2)
           x4 == x3 + Move(x3, 3)
           x5 == x4 + Move(x4, 4)
           g == [k \in 0 .. 5 |-> IF k = 0 THEN 0 ELSE IF k = 1 THEN x1
                   ELSE IF k = 2 THEN x2 ELSE IF k = 3 THEN x3
                   ELSE IF k = 4 THEN x4 ELSE x5]
<1>1. /\ g[0] = 0 /\ g[1] = g[0] + Move(g[0], 0) /\ g[2] = g[1] + Move(g[1], 1)
      /\ g[3] = g[2] + Move(g[2], 2) /\ g[4] = g[3] + Move(g[3], 3)
      /\ g[5] = g[4] + Move(g[4], 4)
  <2>1. x1 = 0 + Move(0, 0)
    OBVIOUS
  <2>2. x2 = x1 + Move(x1, 1)
    OBVIOUS
  <2> HIDE DEF x1
  <2>3. x3 = x2 + Move(x2, 2)
    OBVIOUS
  <2> HIDE DEF x2
  <2>4. x4 = x3 + Move(x3, 3)
    OBVIOUS
  <2> HIDE DEF x3
  <2>5. x5 = x4 + Move(x4, 4)
    OBVIOUS
  <2> HIDE DEF x4, x5
  <2>6. g[0] = 0 /\ g[1] = x1 /\ g[2] = x2 /\ g[3] = x3 /\ g[4] = x4 /\ g[5] = x5
    OBVIOUS
  <2> HIDE DEF g
  <2> QED BY <2>1, <2>2, <2>3, <2>4, <2>5, <2>6
<1>2. g = [k \in 0 .. 5 |-> g[k]]
  OBVIOUS
<1> HIDE DEF g
<1>3. \A k \in 0 .. 5 : g[k] = IF k = 0 THEN 0 ELSE g[k - 1] + Move(g[k - 1], k - 1)
  <2> SUFFICES ASSUME NEW k \in 0 .. 5
               PROVE  g[k] = IF k = 0 THEN 0 ELSE g[k - 1] + Move(g[k - 1], k - 1)
    OBVIOUS
  <2>1. k = 0 \/ k = 1 \/ k = 2 \/ k = 3 \/ k = 4 \/ k = 5
    OBVIOUS
  <2>2. 1 - 1 = 0 /\ 2 - 1 = 1 /\ 3 - 1 = 2 /\ 4 - 1 = 3 /\ 5 - 1 = 4
    OBVIOUS
  <2> QED BY <1>1, <2>1, <2>2
<1>4. g = step(g)
  BY <1>2, <1>3
<1>5. \E h : h = step(h)
  BY <1>4
<1> QED BY <1>5 DEF aggregate

\* The aggregate starts at 0, changes by the move of each stage and "we want
\* [it] to stay in {0, 1}" (underling_bench.c:729).
LEMMA AggregateStays ==
  /\ aggregate[0] = 0
  /\ \A k \in 0 .. 5 : aggregate[k] \in {0, 1}
  /\ \A k \in 0 .. 4 : aggregate[k + 1] = aggregate[k] + Move(aggregate[k], k)
<1>1. aggregate[0] = 0
  BY AggregateUnfolds
<1>2. \A k \in 0 .. 4 : aggregate[k + 1] = aggregate[k] + Move(aggregate[k], k)
  <2> SUFFICES ASSUME NEW k \in 0 .. 4
               PROVE  aggregate[k + 1] = aggregate[k] + Move(aggregate[k], k)
    OBVIOUS
  <2>1. k + 1 \in 0 .. 5 /\ k + 1 # 0 /\ (k + 1) - 1 = k
    OBVIOUS
  <2> QED BY <2>1, AggregateUnfolds
<1>3. \A k \in 0 .. 4 : aggregate[k] \in {0, 1} => aggregate[k + 1] \in {0, 1}
  <2> SUFFICES ASSUME NEW k \in 0 .. 4, aggregate[k] \in {0, 1}
               PROVE  aggregate[k + 1] \in {0, 1}
    OBVIOUS
  <2>1. CASE ~OutOfPlace(k)
    BY <1>2, <2>1 DEF Move
  <2>2. CASE OutOfPlace(k) /\ aggregate[k] = 0
    BY <1>2, <2>2 DEF Move
  <2>3. CASE OutOfPlace(k) /\ aggregate[k] = 1
    BY <1>2, <2>3 DEF Move
  <2> QED BY <2>1, <2>2, <2>3
<1>4. /\ aggregate[1] \in {0, 1} /\ aggregate[2] \in {0, 1} /\ aggregate[3] \in {0, 1}
      /\ aggregate[4] \in {0, 1} /\ aggregate[5] \in {0, 1}
  <2>1. aggregate[0 + 1] \in {0, 1}
    BY <1>1, <1>3
  <2>2. aggregate[1 + 1] \in {0, 1}
    BY <2>1, <1>3
  <2>3. aggregate[2 + 1] \in {0, 1}
    BY <2>2, <1>3
  <2>4. aggregate[3 + 1] \in {0, 1}
    BY <2>3, <1>3
  <2>5. aggregate[4 + 1] \in {0, 1}
    BY <2>4, <1>3
  <2> QED BY <2>1, <2>2, <2>3, <2>4, <2>5
<1> QED BY <1>1, <1>2, <1>4

\* Forward stages lead from one aggregate to the next, backward ones back.
LEMMA MovesFollow ==
  /\ \A s \in 0 .. 4 : m[s] = aggregate[s + 1] - aggregate[s]
  /\ \A s \in 5 .. 9 : m[s] = aggregate[9 - s] - aggregate[10 - s]
<1>1. \A k \in 0 .. 4 : Move(aggregate[k], k) \in Int
  BY DEF Move
<1>2. \A k \in 0 .. 4 : Move(aggregate[k], k) = aggregate[k + 1] - aggregate[k]
  <2> SUFFICES ASSUME NEW k \in 0 .. 4
               PROVE  Move(aggregate[k], k) = aggregate[k + 1] - aggregate[k]
    OBVIOUS
  <2>1. aggregate[k] \in Int /\ aggregate[k + 1] = aggregate[k] + Move(aggregate[k], k)
    BY AggregateStays
  <2> QED BY <1>1, <2>1
<1>3. \A s \in 0 .. 4 : m[s] = Move(aggregate[s], s)
  BY DEF m
<1>4. ASSUME NEW s \in 5 .. 9
      PROVE  m[s] = aggregate[9 - s] - aggregate[10 - s]
  <2> DEFINE k == 9 - s
  <2>1. k \in 0 .. 4 /\ k + 1 = 10 - s
    OBVIOUS
  <2>2. m[s] = -Move(aggregate[k], k)
    BY DEF m
  <2>3. Move(aggregate[k], k) = aggregate[k + 1] - aggregate[k]
    BY <1>2, <2>1
  <2>4. aggregate[k] \in Int /\ aggregate[k + 1] \in Int
    BY <2>1, AggregateStays
  <2> QED BY <2>1, <2>2, <2>3, <2>4
<1> QED BY <1>2, <1>3, <1>4

\* A stage that is skipped moves nothing.
LEMMA IdleStays ==
  \A s \in 0 .. 9 : ~Active(s) => m[s] = 0
<1> SUFFICES ASSUME NEW s \in 0 .. 9, ~Active(s) PROVE m[s] = 0
  OBVIOUS
<1>1. CASE s < 5
  <2>1. ~OutOfPlace(s)
    BY <1>1 DEF OutOfPlace, Active
  <2>2. Move(aggregate[s], s) = 0
    BY <2>1 DEF Move
  <2>3. m[s] = Move(aggregate[s], s)
    BY <1>1 DEF m
  <2> QED BY <2>2, <2>3
<1>2. CASE s >= 5
  <2> DEFINE k == 9 - s
  <2>1. k \in 0 .. 4 /\ s = 9 - k
    BY <1>2
  <2> HIDE DEF k
  <2>2. ~Active(k)
    BY <2>1 DEF Active, IsTranspose
  <2>3. ~OutOfPlace(k)
    BY <2>1, <2>2 DEF OutOfPlace, Active
  <2>4. \A x : Move(x, k) = 0
    BY <2>3 DEF Move
  <2> QED BY <1>2, <2>4 DEF m, k
<1> QED BY <1>1, <1>2

\* Whenever the fields are moved up there is a scratch buffer to move into.
LEMMA ScratchWhereMoved ==
  /\ Extra \in {0, 1}
  /\ \A k \in 0 .. 5 : aggregate[k] <= Extra
  /\ Extra = 0 => \A s \in 0 .. 9 : m[s] = 0
<1>1. Extra \in {0, 1}
  BY DEF Extra
<1>2. ASSUME Extra = 0 PROVE \A k \in 0 .. 5 : aggregate[k] = 0
  <2>1. \A s \in 0 .. 4 : m[s] = 0
    BY <1>2 DEF Extra
  <2>2. \A k \in 0 .. 4 : aggregate[k] = 0 => aggregate[k + 1] = 0
    <3> SUFFICES ASSUME NEW k \in 0 .. 4, aggregate[k] = 0 PROVE aggregate[k + 1] = 0
      OBVIOUS
    <3>1. aggregate[k + 1] \in Int
      BY AggregateStays
    <3> QED BY <2>1, <3>1, MovesFollow
  <2>3. aggregate[0 + 1] = 0
    BY <2>2, AggregateStays
  <2>4. aggregate[1 + 1] = 0
    BY <2>2, <2>3
  <2>5. aggregate[2 + 1] = 0
    BY <2>2, <2>4
  <2>6. aggregate[3 + 1] = 0
    BY <2>2, <2>5
  <2>7. aggregate[4 + 1] = 0
    BY <2>2, <2>6
  <2> QED BY <2>3, <2>4, <2>5, <2>6, <2>7, AggregateStays
<1>3. \A k \in 0 .. 5 : aggregate[k] <= Extra
  BY <1>1, <1>2, AggregateStays
<1>4. ASSUME Extra = 0 PROVE \A s \in 0 .. 9 : m[s] = 0
  <2>1. \A s \in 0 .. 4 : m[s] = 0
    BY <1>4 DEF Extra
  <2>2. \A s \in 5 .. 9 : m[s] = 0
    BY <1>2, <1>4, MovesFollow
  <2> QED BY <2>1, <2>2
<1> QED BY <1>1, <1>3, <1>4

\* All that is derived from the options stays with them.
LEMMA OptionsFix ==
  ASSUME opts' = opts
  PROVE  /\ Fields' = Fields /\ m' = m /\ aggregate' = aggregate /\ Extra' = Extra
         /\ Buffers' = Buffers /\ BackwardStart' = BackwardStart
         /\ FirstStage' = FirstStage /\ AfterLast' = AfterLast
         /\ \A s : Active(s)' = Active(s)
<1>1. \A s : Active(s)' = Active(s)
  BY DEF Active
<1>2. \A s : OutOfPlace(s)' = OutOfPlace(s)
  BY DEF OutOfPlace, Active
<1>3. \A x, s : Move(x, s)' = Move(x, s)
  BY <1>2 DEF Move
<1>4. aggregate' = aggregate
  BY DEF aggregate, Move, OutOfPlace, Active
<1>5. m' = m
  BY <1>3, <1>4 DEF m
<1>6. Extra' = Extra
  BY <1>5 DEF Extra
<1>7. Fields' = Fields /\ Buffers' = Buffers
  BY <1>6 DEF Fields, Buffers
<1>8. BackwardStart' = BackwardStart
  BY <1>5, <1>7 DEF BackwardStart
<1>9. FirstStage' = FirstStage /\ AfterLast' = AfterLast
  BY DEF FirstStage, AfterLast
<1> QED BY <1>1, <1>4, <1>5, <1>6, <1>7, <1>8, <1>9

---------------------------------------------------------------------------
(* The inductive invariant.                                                *)

\* Where a field is meant to be: forward, each moved by the aggregate; backward
\* all in the same buffer.
Place(N) == IF stage < 5 \/ ~opts.backward THEN N + aggregate[stage]
            ELSE aggregate[10 - stage]

\* The loop counters, and the buffers fields are meant to be in.
Located ==
  /\ opts \in Options /\ (opts.forward \/ opts.backward)
  /\ iter \in 0 .. MaxRepeat - 1
  /\ stage \in FirstStage .. AfterLast
  /\ j \in 0 .. opts.nfields
  /\ j > 0 => stage < AfterLast /\ Active(stage)
  /\ o = [N \in Fields |-> Place(N)]
  /\ DOMAIN f = Buffers
  /\ run \in Nat /\ run <= 10 * iter + (stage - FirstStage)

\* Where the loop has a single field, and where an iteration starts with it.
Here  == o[0] + (IF j = 1 THEN m[stage] ELSE 0)
Start == IF opts.forward THEN 0 ELSE aggregate[5]

\* A single field is where it was last moved to and nowhere else, or the loop has
\* lost it for good: both where it looks and where it will start again is junk.
SingleFollowed ==
  opts.nfields = 1 =>
    IF StartsFilled
    THEN \A b \in Buffers :
           f[b] = IF b = Here THEN [field |-> 0, seen |-> run + j] ELSE Junk
    ELSE f[Here] = Junk /\ f[Start] = Junk

IInv == Located /\ SingleFollowed

\* Bounds of the loop.
LEMMA StageBounds ==
  ASSUME Located
  PROVE  /\ FirstStage \in {0, 5} /\ AfterLast \in {5, 10}
         /\ opts.forward <=> FirstStage = 0
         /\ opts.backward <=> AfterLast = 10
         /\ stage \in 0 .. 10 /\ (stage < AfterLast => stage \in 0 .. 9)
         /\ opts.nfields \in Nat \ {0} /\ Fields = 0 .. opts.nfields - 1
         /\ run \in 0 .. 10 * MaxRepeat
<1>1. opts.forward \in BOOLEAN /\ opts.backward \in BOOLEAN /\ opts.nfields \in NFields
  BY DEF Located, Options
<1>2. /\ FirstStage \in {0, 5} /\ AfterLast \in {5, 10}
      /\ opts.forward <=> FirstStage = 0
      /\ opts.backward <=> AfterLast = 10
  BY <1>1 DEF FirstStage, AfterLast
<1>3. stage \in 0 .. 10 /\ (stage < AfterLast => stage \in 0 .. 9)
  BY <1>2 DEF Located
<1>4. opts.nfields \in Nat \ {0} /\ Fields = 0 .. opts.nfields - 1
  BY <1>1, NFieldsAssumption DEF Fields
<1>5. run \in 0 .. 10 * MaxRepeat
  <2>1. stage - FirstStage <= 10
    BY <1>2, <1>3
  <2>2. 10 * iter + 10 <= 10 * MaxRepeat
    BY RepeatAssumption DEF Located
  <2> QED BY <1>2, <1>3, <2>1, <2>2, RepeatAssumption DEF Located
<1> QED BY <1>2, <1>3, <1>4, <1>5

\* Before any stage and after it a field is meant to be in a buffer there is.
LEMMA MovesWithinBuffers ==
  ASSUME Located
  PROVE  /\ \A N \in Fields : o[N] \in Buffers
         /\ stage < AfterLast =>
              \A N \in Fields :
                /\ o[N] + m[stage] \in Buffers
                /\ o[N] + m[stage] = IF stage < 5 THEN N + aggregate[stage + 1]
                                     ELSE aggregate[9 - stage]
<1>1. /\ opts.nfields \in Nat \ {0} /\ Fields = 0 .. opts.nfields - 1
      /\ stage \in 0 .. 10 /\ AfterLast \in {5, 10}
      /\ opts.backward <=> AfterLast = 10
  BY StageBounds
<1>2. \A N \in Fields : \A k \in 0 .. 5 : aggregate[k] \in Buffers /\ N + aggregate[k] \in Buffers
  <2> SUFFICES ASSUME NEW N \in Fields, NEW k \in 0 .. 5
               PROVE  aggregate[k] \in Buffers /\ N + aggregate[k] \in Buffers
    OBVIOUS
  <2>1. aggregate[k] \in {0, 1} /\ aggregate[k] <= Extra /\ Extra \in {0, 1}
    BY AggregateStays, ScratchWhereMoved
  <2> QED BY <1>1, <2>1 DEF Buffers
<1>3. \A N \in Fields : o[N] = Place(N)
  BY DEF Located
<1>4. \A N \in Fields : o[N] \in Buffers
  <2>1. CASE stage < 5 \/ ~opts.backward
    <3>1. stage \in 0 .. 5
      BY <1>1, <2>1 DEF Located
    <3> QED BY <1>2, <1>3, <2>1, <3>1 DEF Place
  <2>2. CASE ~(stage < 5 \/ ~opts.backward)
    <3>1. 10 - stage \in 0 .. 5
      BY <1>1, <2>2
    <3> QED BY <1>2, <1>3, <2>2, <3>1 DEF Place
  <2> QED BY <2>1, <2>2
<1>5. ASSUME stage < AfterLast, NEW N \in Fields
      PROVE  /\ o[N] + m[stage] \in Buffers
             /\ o[N] + m[stage] = IF stage < 5 THEN N + aggregate[stage + 1]
                                  ELSE aggregate[9 - stage]
  <2>1. \A k \in 0 .. 5 : aggregate[k] \in Int
    BY AggregateStays
  <2>2. CASE stage < 5
    <3>1. o[N] = N + aggregate[stage]
      BY <1>3, <2>2 DEF Place
    <3>2. m[stage] = aggregate[stage + 1] - aggregate[stage]
      BY <1>1, <2>2, MovesFollow
    <3>3. stage \in 0 .. 5 /\ stage + 1 \in 0 .. 5
      BY <1>1, <2>2
    <3>4. o[N] + m[stage] = N + aggregate[stage + 1]
      BY <1>1, <2>1, <3>1, <3>2, <3>3
    <3> QED BY <1>2, <2>2, <3>3, <3>4
  <2>3. CASE stage >= 5
    <3>1. opts.backward /\ stage \in 5 .. 9
      BY <1>1, <1>5, <2>3
    <3>2. o[N] = aggregate[10 - stage]
      BY <1>3, <3>1 DEF Place
    <3>3. m[stage] = aggregate[9 - stage] - aggregate[10 - stage]
      BY <3>1, MovesFollow
    <3>4. 9 - stage \in 0 .. 5 /\ 10 - stage \in 0 .. 5
      BY <3>1
    <3>5. o[N] + m[stage] = aggregate[9 - stage]
      BY <2>1, <3>2, <3>3, <3>4
    <3> QED BY <1>1, <1>2, <2>3, <3>4, <3>5
  <2> QED BY <1>1, <2>2, <2>3
<1> QED BY <1>4, <1>5

\* The forward stages together move a field by the last aggregate.
LEMMA BackwardStartPlace ==
  BackwardStart = [N \in Fields |-> aggregate[5]]
<1>1. /\ m[0] = aggregate[0 + 1] - aggregate[0] /\ m[1] = aggregate[1 + 1] - aggregate[1]
      /\ m[2] = aggregate[2 + 1] - aggregate[2] /\ m[3] = aggregate[3 + 1] - aggregate[3]
      /\ m[4] = aggregate[4 + 1] - aggregate[4]
  BY MovesFollow
<1>2. /\ aggregate[0] = 0 /\ aggregate[1] \in Int /\ aggregate[2] \in Int
      /\ aggregate[3] \in Int /\ aggregate[4] \in Int /\ aggregate[5] \in Int
  BY AggregateStays
<1>3. m[0] + m[1] + m[2] + m[3] + m[4] = aggregate[5]
  BY <1>1, <1>2
<1> QED BY <1>3 DEF BackwardStart

\* Where an iteration starts, the fields are meant to be where they are put.
LEMMA StartPlace ==
  ASSUME opts.nfields \in Nat
  PROVE  (IF opts.forward THEN [N \in Fields |-> N] ELSE BackwardStart)
           = [N \in Fields |-> IF FirstStage < 5 \/ ~opts.backward
                               THEN N + aggregate[FirstStage]
                               ELSE aggregate[10 - FirstStage]]
         \/ ~(opts.forward \/ opts.backward)
<1>1. CASE opts.forward
  <2>1. FirstStage = 0 /\ aggregate[0] = 0
    BY <1>1, AggregateStays DEF FirstStage
  <2>2. \A N \in Fields : N + 0 = N
    BY DEF Fields
  <2> QED BY <1>1, <2>1, <2>2
<1>2. CASE ~opts.forward /\ opts.backward
  <2>1. FirstStage = 5 /\ 10 - 5 = 5
    BY <1>2 DEF FirstStage
  <2> QED BY <1>2, <2>1, BackwardStartPlace
<1> QED BY <1>1, <1>2

\* What is known of a benchmark of a single field.
LEMMA OneField ==
  ASSUME Located, opts.nfields = 1
  PROVE  /\ Fields = {0} /\ Buffers \subseteq Int /\ run \in Nat /\ j \in {0, 1}
         /\ Here \in Buffers /\ Start \in Buffers /\ o[0] \in Buffers
         /\ j = 0 => Here = o[0]
         /\ j = 1 => Here = o[0] + m[stage]
         /\ BackwardStart[0] = aggregate[5]
<1>1. Fields = {0} /\ run \in Nat /\ j \in {0, 1} /\ Buffers \subseteq Int
  BY DEF Fields, Located, Buffers
<1>2. o[0] \in Buffers /\ (stage < AfterLast => o[0] + m[stage] \in Buffers)
  BY <1>1, MovesWithinBuffers
<1>3. o[0] + 0 = o[0]
  <2>1. o[0] \in Int
    BY <1>1, <1>2
  <2> QED BY <2>1
<1>4. Here \in Buffers
  BY <1>1, <1>2, <1>3 DEF Here, Located
<1>5. aggregate[5] \in Int /\ 0 <= aggregate[5] /\ aggregate[5] <= Extra /\ Extra \in {0, 1}
  BY AggregateStays, ScratchWhereMoved
<1>6. Start \in Buffers
  BY <1>5 DEF Start, Buffers
<1>7. BackwardStart[0] = aggregate[5]
  BY <1>1, BackwardStartPlace
<1> QED BY <1>1, <1>2, <1>3, <1>4, <1>6, <1>7 DEF Here

\* The invariant holds before the loop.
LEMMA InitIInv == Init => IInv
<1> SUFFICES ASSUME Init PROVE IInv
  OBVIOUS
<1>1. opts \in Options /\ (opts.forward \/ opts.backward)
  BY DEF Init
<1>2. /\ opts.nfields \in Nat \ {0} /\ opts.forward \in BOOLEAN /\ opts.backward \in BOOLEAN
  BY <1>1, NFieldsAssumption DEF Options
<1>3. stage \in FirstStage .. AfterLast /\ FirstStage \in {0, 5}
  BY <1>1, <1>2 DEF FirstStage, AfterLast, Init
<1>4. o = [N \in Fields |-> Place(N)]
  BY <1>1, <1>2, StartPlace DEF Place, Init
<1>5. Located
  BY <1>1, <1>2, <1>3, <1>4, RepeatAssumption DEF Located, Init
<1>6. SingleFollowed
  <2> SUFFICES ASSUME opts.nfields = 1
               PROVE  IF StartsFilled
                      THEN \A b \in Buffers :
                             f[b] = IF b = Here THEN [field |-> 0, seen |-> run + j] ELSE Junk
                      ELSE f[Here] = Junk /\ f[Start] = Junk
    BY DEF SingleFollowed
  <2>1. /\ j = 0 /\ run + j = 0 /\ iter = 0
        /\ f = [b \in Buffers |-> IF b \in Fields THEN [field |-> b, seen |-> 0] ELSE Junk]
        /\ o = IF opts.forward THEN [N \in Fields |-> N] ELSE BackwardStart
    BY DEF Init
  <2>2. /\ Fields = {0} /\ Here = o[0] /\ Here \in Buffers /\ Start \in Buffers
        /\ BackwardStart[0] = aggregate[5]
    BY <1>5, <2>1, OneField
  <2>3. Here = Start
    BY <2>1, <2>2 DEF Start
  <2>4. CASE StartsFilled
    <3>1. Here = 0
      BY <2>1, <2>2, <2>4 DEF StartsFilled
    <3> QED BY <2>1, <2>2, <2>4, <3>1
  <2>5. CASE ~StartsFilled
    <3>1. Start # 0
      BY <1>2, <2>1, <2>2, <2>5 DEF StartsFilled, Start
    <3> QED BY <2>1, <2>2, <2>3, <2>5, <3>1
  <2> QED BY <2>4, <2>5
<1> QED BY <1>5, <1>6 DEF IInv

\* A transpose keeps the counters in bounds and fields where they are meant to be;
LEMMA ExecuteLocated ==
  ASSUME Located, Execute PROVE Located'
<1> USE DEF Execute
<1>1. opts' = opts
  OBVIOUS
<1>2. j' \in 0 .. opts.nfields /\ stage' = stage /\ j' > 0
  BY StageBounds DEF Located
<1>3. \A N \in Fields : Place(N)' = Place(N)
  BY <1>1, OptionsFix DEF Place
<1>4. DOMAIN f' = Buffers
  OBVIOUS
<1> QED BY <1>1, <1>2, <1>3, <1>4, OptionsFix DEF Located

\* so does going on to the next stage,
LEMMA NextStageLocated ==
  ASSUME Located, NextStage PROVE Located'
<1> USE DEF NextStage
<1>1. opts' = opts /\ stage' = stage + 1
  OBVIOUS
<1>2. /\ stage \in 0 .. 9 /\ FirstStage \in {0, 5} /\ AfterLast \in {5, 10}
      /\ opts.backward <=> AfterLast = 10
  BY StageBounds
<1>3. stage' \in FirstStage .. AfterLast
  BY <1>2 DEF Located
<1>4. run' \in Nat /\ run' <= 10 * iter + (stage' - FirstStage)
  <2>1. run' <= run + 1 /\ run' \in Nat
    BY DEF Located
  <2>2. run \in Nat /\ run <= 10 * iter + (stage - FirstStage)
    BY DEF Located
  <2>3. iter \in Int /\ stage' - FirstStage = (stage - FirstStage) + 1
    BY <1>2 DEF Located
  <2> QED BY <1>2, <2>1, <2>2, <2>3
<1>5. o' = [N \in Fields |-> Place(N)']
  <2>1. \A N \in Fields : Place(N)' = IF stage + 1 < 5 \/ ~opts.backward
                                      THEN N + aggregate[stage + 1]
                                      ELSE aggregate[10 - (stage + 1)]
    BY <1>1, OptionsFix DEF Place
  <2>2. CASE stage = 4 /\ opts.backward
    <3>1. 10 - (stage + 1) = 5 /\ ~(stage + 1 < 5)
      BY <2>2
    <3>2. \A N \in Fields : Place(N)' = aggregate[5]
      BY <2>1, <2>2, <3>1
    <3>3. o' = BackwardStart
      BY <2>2
    <3> QED BY <3>2, <3>3, BackwardStartPlace
  <2>3. CASE ~(stage = 4 /\ opts.backward)
    <3>1. o' = [N \in Fields |-> o[N] + m[stage]]
      BY <2>3
    <3>2. \A N \in Fields : o[N] + m[stage] = IF stage < 5 THEN N + aggregate[stage + 1]
                                              ELSE aggregate[9 - stage]
      BY MovesWithinBuffers
    <3>3. stage < 5 <=> (stage + 1 < 5 \/ ~opts.backward)
      BY <1>2, <2>3 DEF Located
    <3>4. 10 - (stage + 1) = 9 - stage
      BY <1>2
    <3>5. \A N \in Fields : Place(N)' = o[N] + m[stage]
      BY <2>1, <3>2, <3>3, <3>4
    <3> QED BY <3>1, <3>5
  <2> QED BY <2>2, <2>3
<1>6. j' \in 0 .. opts.nfields /\ ~(j' > 0)
  BY StageBounds
<1> QED BY <1>1, <1>3, <1>4, <1>5, <1>6, OptionsFix DEF Located

\* and to the next iteration.
LEMMA NextIterationLocated ==
  ASSUME Located, NextIteration PROVE Located'
<1> USE DEF NextIteration
<1>1. opts' = opts /\ stage' = FirstStage /\ j = 0 /\ j' = j
  BY DEF Located
<1>2. /\ FirstStage \in {0, 5} /\ AfterLast \in {5, 10}
      /\ opts.nfields \in Nat
  BY StageBounds
<1>3. stage' \in FirstStage .. AfterLast
  BY <1>1, <1>2 DEF FirstStage, AfterLast, Located
<1>4. \A N \in Fields : Place(N)' = IF FirstStage < 5 \/ ~opts.backward
                                    THEN N + aggregate[FirstStage]
                                    ELSE aggregate[10 - FirstStage]
  BY <1>1, OptionsFix DEF Place
<1>5. o' = [N \in Fields |-> Place(N)']
  BY <1>2, <1>4, StartPlace DEF Located
<1>6. run <= 10 * (iter + 1) + (FirstStage - FirstStage)
  <2>1. stage - FirstStage <= 10 /\ FirstStage - FirstStage = 0
    BY <1>2
  <2>2. iter \in Int /\ run \in Int /\ run <= 10 * iter + (stage - FirstStage)
    BY DEF Located
  <2> QED BY <1>2, <2>1, <2>2
<1>7. iter' \in 0 .. MaxRepeat - 1
  BY RepeatAssumption DEF Located
<1> QED BY <1>1, <1>3, <1>5, <1>6, <1>7, OptionsFix DEF Located

\* Whether an iteration starts from the field stays with the iteration.
LEMMA StartsFilledFixed ==
  ASSUME opts' = opts, iter' = iter
  PROVE  StartsFilled' = StartsFilled /\ Start' = Start
BY OptionsFix DEF StartsFilled, Start

\* A transpose or FFT moves a single field on to where it is looked for, and
\* what is lost stays lost;
LEMMA ExecuteSingle ==
  ASSUME Located, SingleFollowed, Execute PROVE SingleFollowed'
<1> SUFFICES ASSUME opts'.nfields = 1
             PROVE  IF StartsFilled'
                    THEN \A b \in Buffers' :
                           f'[b] = IF b = Here' THEN [field |-> 0, seen |-> run' + j'] ELSE Junk
                    ELSE f'[Here'] = Junk /\ f'[Start'] = Junk
  BY DEF SingleFollowed
<1> DEFINE to == o[0] + m[stage]
<1>1. /\ opts' = opts /\ iter' = iter /\ stage' = stage /\ o' = o /\ run' = run
      /\ j < opts.nfields /\ j' = j + 1 /\ stage < AfterLast
  BY DEF Execute
<1>2. /\ Fields = {0} /\ Buffers \subseteq Int /\ run \in Nat /\ Start \in Buffers
      /\ o[0] \in Buffers /\ (j = 0 => Here = o[0]) /\ j = 0
  BY <1>1, OneField
<1>3. to \in Buffers
  BY <1>1, <1>2, MovesWithinBuffers
<1>4. Here' = to
  BY <1>1, <1>2, OptionsFix DEF Here
<1>5. StartsFilled' = StartsFilled /\ Start' = Start /\ Buffers' = Buffers
  BY <1>1, StartsFilledFixed, OptionsFix
<1>6. (IF m[stage] >= 0 THEN j ELSE opts.nfields - 1 - j) = 0
  BY <1>1, <1>2
<1>7. f' = [b \in Buffers |->
              CASE b = to   -> IF f[o[0]] = Junk THEN Junk
                               ELSE [f[o[0]] EXCEPT !.seen = @ + 1]
                [] b = o[0] /\ b # to -> Junk
                [] OTHER    -> f[b]]
  BY <1>6 DEF Execute
<1> HIDE DEF to
<1>8. CASE StartsFilled
  <2> DEFINE x == [field |-> 0, seen |-> run]
  <2>1. \A b \in Buffers : f[b] = IF b = o[0] THEN x ELSE Junk
    <3>1. run + j = run
      BY <1>2
    <3> QED BY <1>1, <1>2, <1>8, <3>1 DEF SingleFollowed
  <2>2. f[o[0]] = x /\ x # Junk
    <3>1. x \in [field : Nat, seen : Nat]
      BY <1>2
    <3>2. x # Junk
      BY <3>1, JunkAssumption
    <3> QED BY <1>2, <2>1, <3>2
  <2>3. [x EXCEPT !.seen = @ + 1] = [field |-> 0, seen |-> run + 1]
    OBVIOUS
  <2>4. run' + j' = run + 1
    BY <1>1, <1>2
  <2> HIDE DEF x
  <2>5. \A b \in Buffers : f'[b] = IF b = to THEN [field |-> 0, seen |-> run + 1] ELSE Junk
    <3> SUFFICES ASSUME NEW b \in Buffers
                 PROVE  f'[b] = IF b = to THEN [field |-> 0, seen |-> run + 1] ELSE Junk
      OBVIOUS
    <3>1. CASE b = to
      BY <1>7, <2>2, <2>3, <3>1
    <3>2. CASE b # to /\ b = o[0]
      BY <1>7, <3>2
    <3>3. CASE b # to /\ b # o[0]
      BY <1>7, <2>1, <3>3
    <3> QED BY <3>1, <3>2, <3>3
  <2> QED BY <1>4, <1>5, <1>8, <2>4, <2>5
<1>9. CASE ~StartsFilled
  <2>1. f[o[0]] = Junk /\ f[Start] = Junk
    BY <1>1, <1>2, <1>9 DEF SingleFollowed
  <2>2. f'[to] = Junk
    BY <1>3, <1>7, <2>1
  <2>3. f'[Start] = Junk
    <3>1. CASE Start = to
      BY <2>2, <3>1
    <3>2. CASE Start # to /\ Start = o[0]
      BY <1>2, <1>7, <3>2
    <3>3. CASE Start # to /\ Start # o[0]
      BY <1>2, <1>7, <2>1, <3>3
    <3> QED BY <3>1, <3>2, <3>3
  <2> QED BY <1>4, <1>5, <1>9, <2>2, <2>3
<1> QED BY <1>8, <1>9

\* the next stage looks where this one left it,
LEMMA NextStageSingle ==
  ASSUME Located, SingleFollowed, NextStage PROVE SingleFollowed'
<1> SUFFICES ASSUME opts'.nfields = 1
             PROVE  IF StartsFilled'
                    THEN \A b \in Buffers' :
                           f'[b] = IF b = Here' THEN [field |-> 0, seen |-> run' + j'] ELSE Junk
                    ELSE f'[Here'] = Junk /\ f'[Start'] = Junk
  BY DEF SingleFollowed
<1>1. /\ opts' = opts /\ iter' = iter /\ f' = f /\ j' = 0 /\ stage < AfterLast
      /\ run' = IF Active(stage) THEN run + 1 ELSE run
      /\ Active(stage) => j = 1
  BY DEF NextStage
<1>2. /\ Fields = {0} /\ Buffers \subseteq Int /\ run \in Nat /\ j \in {0, 1}
      /\ o[0] \in Buffers /\ (j = 0 => Here = o[0])
      /\ (j = 1 => Here = o[0] + m[stage]) /\ stage \in 0 .. 9
  BY <1>1, OneField, StageBounds
<1>3. o[0] + m[stage] \in Int /\ o[0] + 0 = o[0]
  <2>1. o[0] + m[stage] \in Buffers
    BY <1>1, <1>2, MovesWithinBuffers
  <2>2. o[0] + m[stage] \in Int /\ o[0] \in Int
    BY <1>2, <2>1
  <2> QED BY <2>2
<1>4. Here = o[0] + m[stage] /\ run + j = run'
  <2>1. CASE Active(stage)
    BY <1>1, <1>2, <2>1
  <2>2. CASE ~Active(stage)
    <3>1. j = 0 /\ m[stage] = 0
      BY <1>2, <2>2, IdleStays DEF Located
    <3> QED BY <1>1, <1>2, <1>3, <2>2, <3>1
  <2> QED BY <2>1, <2>2
<1>5. o'[0] = o[0] + m[stage]
  <2>1. CASE stage = 4 /\ opts.backward
    <3>1. o'[0] = aggregate[5]
      BY <1>2, <2>1, BackwardStartPlace DEF NextStage
    <3>2. o[0] + m[stage] = 0 + aggregate[4 + 1]
      BY <1>1, <1>2, <2>1, MovesWithinBuffers
    <3>3. aggregate[5] \in Int
      BY AggregateStays
    <3> QED BY <3>1, <3>2, <3>3
  <2>2. CASE ~(stage = 4 /\ opts.backward)
    BY <1>2, <2>2 DEF NextStage
  <2> QED BY <2>1, <2>2
<1>6. Here' = Here
  <2>1. Here' = o'[0] + 0
    BY <1>1 DEF Here
  <2> QED BY <1>3, <1>4, <1>5, <2>1
<1>7. run' + j' = run + j
  BY <1>1, <1>2, <1>4
<1>8. StartsFilled' = StartsFilled /\ Start' = Start /\ Buffers' = Buffers
  BY <1>1, StartsFilledFixed, OptionsFix
<1> QED BY <1>1, <1>6, <1>7, <1>8 DEF SingleFollowed

\* and so does the next iteration, in the buffer the loop starts from.
LEMMA NextIterationSingle ==
  ASSUME Located, SingleFollowed, NextIteration PROVE SingleFollowed'
<1> SUFFICES ASSUME opts'.nfields = 1
             PROVE  IF StartsFilled'
                    THEN \A b \in Buffers' :
                           f'[b] = IF b = Here' THEN [field |-> 0, seen |-> run' + j'] ELSE Junk
                    ELSE f'[Here'] = Junk /\ f'[Start'] = Junk
  BY DEF SingleFollowed
<1>1. /\ opts' = opts /\ iter' = iter + 1 /\ f' = f /\ j' = j /\ run' = run
      /\ stage = AfterLast /\ iter \in Nat
      /\ o' = IF opts.forward THEN [N \in Fields |-> N] ELSE BackwardStart
  BY DEF NextIteration, Located
<1>2. /\ Fields = {0} /\ Buffers \subseteq Int /\ run \in Nat /\ j = 0
      /\ Here = o[0] /\ Start \in Buffers /\ BackwardStart[0] = aggregate[5]
      /\ opts.forward \in BOOLEAN /\ opts.backward \in BOOLEAN
  BY <1>1, OneField DEF Located, Options
<1>3. aggregate[0] = 0 /\ aggregate[5] \in Int
  BY AggregateStays
<1>4. o[0] = IF opts.backward THEN 0 ELSE aggregate[5]
  <2>1. CASE opts.backward
    <3>1. stage = 10 /\ 10 - 10 = 0
      BY <1>1, <2>1, StageBounds
    <3> QED BY <1>2, <1>3, <2>1, <3>1 DEF Located, Place
  <2>2. CASE ~opts.backward
    <3>1. stage = 5
      BY <1>1, <2>2, StageBounds
    <3>2. o[0] = 0 + aggregate[5]
      BY <1>2, <2>2, <3>1 DEF Located, Place
    <3> QED BY <1>3, <2>2, <3>2
  <2> QED BY <2>1, <2>2
<1>5. o'[0] = Start /\ Start \in Int
  BY <1>1, <1>2 DEF Start
<1>6. Here' = Start
  <2>1. Here' = o'[0] + 0
    BY <1>1, <1>2 DEF Here
  <2> QED BY <1>5, <2>1
<1>7. Start' = Start /\ Buffers' = Buffers
  BY <1>1, OptionsFix DEF Start
<1>8. StartsFilled' <=> (opts.forward /\ opts.backward) \/ BackwardStart[0] = 0
  BY <1>1, OptionsFix DEF StartsFilled
<1>9. CASE StartsFilled'
  <2>1. StartsFilled
    BY <1>8, <1>9 DEF StartsFilled
  <2>2. Start = o[0]
    BY <1>2, <1>4, <1>8, <1>9 DEF Start, Located
  <2> QED BY <1>1, <1>2, <1>6, <1>7, <1>9, <2>1, <2>2 DEF SingleFollowed
<1>10. CASE ~StartsFilled'
  <2>1. f[Start] = Junk
    <3>1. CASE ~StartsFilled
      BY <1>1, <3>1 DEF SingleFollowed
    <3>2. CASE StartsFilled
      <4>1. opts.forward /\ ~opts.backward /\ aggregate[5] # 0
        BY <1>2, <1>8, <1>10, <3>2 DEF StartsFilled
      <4>2. Start # Here
        BY <1>2, <1>4, <4>1 DEF Start
      <4> QED BY <1>1, <1>2, <3>2, <4>2 DEF SingleFollowed
    <3> QED BY <3>1, <3>2
  <2> QED BY <1>1, <1>6, <1>7, <1>10, <2>1
<1> QED BY <1>9, <1>10

---------------------------------------------------------------------------
(* Theorems.                                                               *)

\* The loop keeps IInv: counters and places agree, and fields are followed.
THEOREM LoopInvariant == Spec => []IInv
<1>1. Init => IInv
  BY InitIInv
<1>2. IInv /\ [Next]_vars => IInv'
  <2> SUFFICES ASSUME IInv, [Next]_vars PROVE IInv'
    OBVIOUS
  <2> USE DEF IInv
  <2>1. CASE Execute
    BY <2>1, ExecuteLocated, ExecuteSingle DEF Next
  <2>2. CASE NextStage
    BY <2>2, NextStageLocated, NextStageSingle DEF Next
  <2>3. CASE NextIteration
    BY <2>3, NextIterationLocated, NextIterationSingle DEF Next
  <2>4. CASE UNCHANGED vars
    <3>1. opts' = opts /\ iter' = iter /\ stage' = stage /\ j' = j /\ o' = o /\ f' = f
          /\ run' = run
      BY <2>4 DEF vars
    <3>2. \A N \in Fields : Place(N)' = Place(N)
      BY <3>1, OptionsFix DEF Place
    <3>3. Located'
      BY <3>1, <3>2, OptionsFix DEF Located
    <3>4. SingleFollowed'
      BY <3>1, OptionsFix, StartsFilledFixed DEF SingleFollowed, Here
    <3> QED BY <3>3, <3>4
  <2> QED BY <2>1, <2>2, <2>3, <2>4 DEF Next
<1> QED BY <1>1, <1>2, PTL DEF Spec

\* Options, counters and buffers of the benchmark are what the loop expects, for
\* any number of fields and iterations.
THEOREM LoopTyped == Spec => []TypeOK
<1>1. IInv => TypeOK
  <2> SUFFICES ASSUME Located PROVE TypeOK
    BY DEF IInv
  <2>1. o \in [Fields -> Buffers]
    <3>1. o = [N \in Fields |-> o[N]]
      BY DEF Located
    <3> QED BY <3>1, MovesWithinBuffers
  <2> QED BY <2>1, StageBounds DEF Located, TypeOK
<1> QED BY <1>1, LoopInvariant, PTL

\* One scratch buffer is enough for any number of fields, any mix of in-place
\* and out-of-place stages, in both directions (underling_bench.c:748-749).
THEOREM LoopStaysInBuffers == Spec => []StaysInBuffers
<1>1. IInv => StaysInBuffers
  BY MovesWithinBuffers DEF IInv, StaysInBuffers
<1> QED BY <1>1, LoopInvariant, PTL

\* A single field is found where f[o[N]] says, with every stage applied, in every
\* iteration that starts from it, and in no other: a backward-only benchmark and
\* the later iterations of a forward-only one, over an odd number of moves, never
\* work on the field.
THEOREM LoopFollows == Spec => []OneFieldFollowed
<1>1. IInv => OneFieldFollowed
  <2> SUFFICES ASSUME IInv, j = 0, opts.nfields = 1
               PROVE  f[o[0]] = IF StartsFilled THEN [field |-> 0, seen |-> run] ELSE Junk
    BY DEF OneFieldFollowed
  <2>1. run + j = run /\ Here = o[0] /\ o[0] \in Buffers
    BY OneField DEF IInv
  <2> QED BY <2>1 DEF IInv, SingleFollowed
<1> QED BY <1>1, LoopInvariant, PTL

\* A round trip leaves a single field in f[0], after any number of iterations.
THEOREM LoopReturns == Spec => []BackWhereFilled
<1>1. IInv => BackWhereFilled
  <2> SUFFICES ASSUME IInv, stage = 10, opts.forward, opts.nfields = 1
               PROVE  f[0] = [field |-> 0, seen |-> run]
    BY DEF BackWhereFilled
  <2>1. opts.backward /\ j = 0 /\ run + j = run
    BY DEF IInv, Located, AfterLast
  <2>2. 0 \in Fields /\ Here = o[0] /\ o[0] \in Buffers
    BY <2>1, OneField DEF IInv
  <2>3. o[0] = aggregate[10 - 10]
    BY <2>1, <2>2 DEF IInv, Located, Place
  <2>4. o[0] = 0
    BY <2>3, AggregateStays
  <2>5. StartsFilled
    BY <2>1 DEF StartsFilled
  <2>6. f[o[0]] = [field |-> 0, seen |-> run + j]
    BY <2>2, <2>5 DEF IInv, SingleFollowed
  <2> QED BY <2>1, <2>4, <2>6
<1> QED BY <1>1, LoopInvariant, PTL

=============================================================================
