------------------------------- MODULE Bench -------------------------------
(***************************************************************************)
(* The main loop of underling_bench: nfields fields taken through FFTs and *)
(* transposes, from long in n2 to long in n0 and back, one stage at a time *)
(* for all fields, in nfields buffers and at most one more as scratch.     *)
(*                                                                         *)
(* Stages 0..4 go forward (FFT n2, n2 to n1, FFT n1, n1 to n0, FFT n0),    *)
(* stages 5..9 undo them in reverse.  Stage s moves a field by m[s]        *)
(* buffers, -1, 0 or 1; field N is meant to be in buffer f[o[N]].          *)
(***************************************************************************)
EXTENDS Integers, FiniteSets

CONSTANTS NFields,     \* the numbers of fields the benchmark is run with
          MaxRepeat,   \* bound on the number of iterations
          Junk         \* the contents of a scratch or destroyed buffer

ASSUME NFieldsAssumption == NFields \subseteq Nat \ {0}
ASSUME RepeatAssumption  == MaxRepeat \in Nat \ {0}
ASSUME JunkAssumption    == Junk \notin [field : Nat, seen : Nat]

VARIABLES opts,        \* the options: nfields, ffts, inplace, forward, backward
          iter,        \* the iterations completed
          stage,       \* the stage under way
          j,           \* how many fields the stage has moved
          o,           \* o[N]: which buffer field N is meant to be in
          f,           \* f[b]: the field in a buffer and the stages it has seen
          run          \* how many stages the loop has been through

vars == <<opts, iter, stage, j, o, f, run>>

\* ffts: along how many directions to transform, n2 first.
Options == [nfields : NFields, ffts : 0 .. 3, fftInPlace : BOOLEAN,
            mpiInPlace : BOOLEAN, forward : BOOLEAN, backward : BOOLEAN]

Fields == 0 .. opts.nfields - 1

IsTranspose(s) == s \in {1, 3, 6, 8}

\* A transpose is always there, an FFT if its direction is transformed.
Active(s) ==
  \/ IsTranspose(s)
  \/ s \in {0, 9} /\ opts.ffts >= 1
  \/ s \in {2, 7} /\ opts.ffts >= 2
  \/ s \in {4, 5} /\ opts.ffts >= 3

OutOfPlace(s) ==
  IF IsTranspose(s) THEN ~opts.mpiInPlace ELSE Active(s) /\ ~opts.fftInPlace

\* Mutant: every move is up, the conditional negation is missing.
MoveNeverDown(sum, s) == IF ~OutOfPlace(s) THEN 0 ELSE 1

\* How a stage moves a field that the stages before have moved by sum: up from
\* the lower of its two buffers, down from the higher.
Move(sum, s) == IF ~OutOfPlace(s) THEN 0 ELSE IF sum = 0 THEN 1 ELSE -1

\* The movement of the first k forward stages together, which the code wants to
\* stay in {0, 1}.
aggregate[k \in 0 .. 5] ==
  IF k = 0 THEN 0 ELSE aggregate[k - 1] + Move(aggregate[k - 1], k - 1)

\* Backward stages take back what the forward ones did.
m == [s \in 0 .. 9 |-> IF s < 5 THEN Move(aggregate[s], s)
                       ELSE -Move(aggregate[9 - s], 9 - s)]

\* Mutant: only the first stage is asked whether it needs scratch space.
ExtraForFirst == IF m[0] # 0 THEN 1 ELSE 0

Extra == IF \E s \in 0 .. 5 : m[s] # 0 THEN 1 ELSE 0

Buffers == 0 .. opts.nfields + Extra - 1

\* Where the backward stages expect every field.
BackwardStart == [N \in Fields |-> m[0] + m[1] + m[2] + m[3] + m[4]]

FirstStage == IF opts.forward THEN 0 ELSE 5
AfterLast  == IF opts.backward THEN 10 ELSE 5

Init ==
  /\ opts \in {c \in Options : c.forward \/ c.backward}
  /\ iter = 0
  /\ stage = FirstStage
  /\ j = 0
  /\ o = IF opts.forward THEN [N \in Fields |-> N] ELSE BackwardStart
  /\ f = [b \in Buffers |-> IF b \in Fields THEN [field |-> b, seen |-> 0] ELSE Junk]
  /\ run = 0

\* One field through the stage under way: from its buffer to the one m[stage]
\* away; an out-of-place operation destroys its input.
Execute ==
  LET k  == IF m[stage] >= 0 THEN j ELSE opts.nfields - 1 - j
      to == o[k] + m[stage]
  IN
  /\ stage < AfterLast
  /\ Active(stage)
  /\ j < opts.nfields
  /\ j' = j + 1
  /\ f' = [b \in Buffers |->
             CASE b = to   -> IF f[o[k]] = Junk THEN Junk
                              ELSE [f[o[k]] EXCEPT !.seen = @ + 1]
               [] b = o[k] /\ b # to -> Junk
               [] OTHER    -> f[b]]
  /\ UNCHANGED <<opts, iter, stage, o, run>>

\* Mutant: an out-of-place stage leaves the fields where they were.
NextStageInPlace ==
  /\ stage < AfterLast
  /\ Active(stage) => j = opts.nfields
  /\ stage' = stage + 1
  /\ j' = 0
  /\ run' = IF Active(stage) THEN run + 1 ELSE run
  /\ o' = IF stage = 4 /\ opts.backward THEN BackwardStart ELSE o
  /\ UNCHANGED <<opts, iter, f>>

\* All fields have been through: their buffers have moved.
NextStage ==
  /\ stage < AfterLast
  /\ Active(stage) => j = opts.nfields
  /\ stage' = stage + 1
  /\ j' = 0
  /\ run' = IF Active(stage) THEN run + 1 ELSE run
  /\ o' = IF stage = 4 /\ opts.backward THEN BackwardStart
          ELSE [N \in Fields |-> o[N] + m[stage]]
  /\ UNCHANGED <<opts, iter, f>>

\* The next iteration starts over with the buffers as they are.
NextIteration ==
  /\ stage = AfterLast
  /\ iter + 1 < MaxRepeat
  /\ iter' = iter + 1
  /\ stage' = FirstStage
  /\ o' = IF opts.forward THEN [N \in Fields |-> N] ELSE BackwardStart
  /\ UNCHANGED <<opts, j, f, run>>

Next == Execute \/ NextStage \/ NextIteration

Spec == Init /\ [][Next]_vars

---------------------------------------------------------------------------
(* Properties                                                              *)

\* Options, counters and buffers are what the loop expects.
TypeOK ==
  /\ opts \in Options
  /\ iter \in 0 .. MaxRepeat - 1
  /\ stage \in 0 .. 10
  /\ j \in 0 .. opts.nfields
  /\ o \in [Fields -> Buffers]
  /\ DOMAIN f = Buffers
  /\ run \in 0 .. 10 * MaxRepeat

\* Every operation reads and writes buffers that were allocated: one scratch
\* buffer is enough, whatever mix of in-place and out-of-place stages.
StaysInBuffers ==
  stage < AfterLast =>
    \A N \in Fields : o[N] \in Buffers /\ o[N] + m[stage] \in Buffers

\* underling_bench.c:915: "During execution field N is pointed to by f[o[N]]",
\* between any two stages of a benchmark that started forward (later
\* iterations of a forward-only one start from what is left).
FieldsFollowed ==
  j = 0 /\ opts.forward /\ (opts.backward \/ iter = 0) =>
    \A N \in Fields : f[o[N]] = [field |-> N, seen |-> run]

\* Whether an iteration starts from the field: a round trip brings it back, one
\* way does if its moves cancel, and the first forward iteration starts where
\* the field was filled.
StartsFilled ==
  \/ opts.forward /\ (opts.backward \/ iter = 0)
  \/ BackwardStart[0] = 0

\* A single field is in f[o[0]] with every stage it was to see, whatever the mix
\* of stages and directions, in the iterations that start from it.  In all others
\* (backward only, or forward only again, over an odd number of moves) the stages
\* work on the buffer that was left over: no stage ever sees the field.
OneFieldFollowed ==
  j = 0 /\ opts.nfields = 1 =>
    f[o[0]] = IF StartsFilled THEN [field |-> 0, seen |-> run] ELSE Junk

\* A round trip leaves a single field in f[0], where it was filled and where
\* the next iteration and check_field look for it.
BackWhereFilled ==
  stage = 10 /\ opts.forward /\ opts.nfields = 1 => f[0] = [field |-> 0, seen |-> run]

=============================================================================
