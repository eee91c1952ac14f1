----------------------------- MODULE MCBenchJob -----------------------------
(***************************************************************************)
(* Instances of BenchJob: two jobs of one or two ranks on one wisdom file, *)
(* and single jobs of three ranks beside an idle one.                      *)
(***************************************************************************)
EXTENDS BenchJob

Plain(n) == [ranks |-> n, arguments |-> "right", wisdom |-> TRUE, dump |-> FALSE,
             repeat |-> FALSE, trip |-> TRUE, exceeds |-> {}]

Idle == [Plain(1) EXCEPT !.arguments = "wrong", !.wisdom = FALSE]

With(options) == [option |-> options, locking |-> TRUE, writable |-> TRUE, kills |-> 0]

\* One job of three ranks that prints, measures and judges.
Long(exceeds) ==
  [Plain(3) EXCEPT !.dump = TRUE, !.repeat = TRUE, !.exceeds = exceeds]

MCScenes ==
  {[With(<<Plain(2), [Plain(1) EXCEPT !.dump = TRUE]>>) EXCEPT !.kills = 1],
   [With(<<Plain(1), Plain(2)>>) EXCEPT !.locking = FALSE],
   [With(<<Plain(2), Plain(1)>>) EXCEPT !.writable = FALSE],
   With(<<Long({1}), Idle>>),
   With(<<Long({}), [Idle EXCEPT !.ranks = 2]>>),
   With(<<[Long({}) EXCEPT !.wisdom = FALSE, !.trip = FALSE],
          [Plain(2) EXCEPT !.arguments = "empty"]>>)}

\* Two jobs of one rank each.
MCOverlap == {With(<<Plain(1), Plain(1)>>)}

=============================================================================
