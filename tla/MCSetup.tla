------------------------------ MODULE MCSetup ------------------------------
(* Instances of Setup for TLC.                                             *)
EXTENDS Setup

Asks(nproc, n0, n1, n2, pA, pB, howmany, asked, unplannable) ==
  [nproc |-> nproc,
   n |-> [d \in Directions |-> CASE d = 0 -> n0 [] d = 1 -> n1 [] d = 2 -> n2],
   pA |-> pA, pB |-> pB, howmany |-> howmany,
   asked |-> asked, none |-> FALSE, unplannable |-> unplannable, failures |-> 0]

Plain(nproc, n0, n1, n2, pA, pB) == Asks(nproc, n0, n1, n2, pA, pB, 1, {}, {})

\* One and two ranks: every wish for a shape, fitting or not, of a field of two
\* planes in each direction, and the shapes there are of smaller fields.  Four
\* ranks, two in each row and column, are refused their problem: a whole life of
\* theirs is too long.
Wishes == {Plain(nproc, 2, 2, 2, pA, pB) : nproc \in {1, 2}, pA, pB \in -1 .. 2}
Sizes  == {Plain(2, n0, n1, n2, pA, 2 \div pA) : n0, n1, n2, pA \in 1 .. 2}
            \cup {Plain(nproc, n0, n1, n2, 0, 0) : nproc, n0, n1, n2 \in 1 .. 2}
Shapes == Wishes \cup Sizes \cup {Asks(4, 2, 2, 2, 0, 0, -1, {}, {})}

\* Automatic shapes with empty shares of n0 or of n2 (the second is refused its
\* problem), an empty problem, no plan for one transpose, no transposes asked
\* for, a refused problem.
Corners == {Plain(3, 4, 4, 2, 0, 0), Asks(3, 3, 3, 4, 0, 0, -1, {}, {}),
            Asks(3, 4, 3, 2, 1, 3, 1, {}, {"fB"}),
            Asks(2, 2, 2, 2, 2, 1, 0, {}, {"bA"}),
            Asks(2, 2, 2, 2, 1, 2, 1, {"bA", "fA"}, {"bB"}),
            Asks(2, 2, 2, 2, 2, 1, -1, {}, {}),
            [Plain(2, 2, 2, 2, 2, 1) EXCEPT !.none = TRUE]}

\* Two ranks, and a step of either failing, twice at most.
Failing == {[Plain(2, 2, 2, 2, pA, 3 - pA) EXCEPT !.failures = 2] : pA \in {1, 2}}

MCRequests == Shapes \cup Corners \cup Failing
MCThin     == {Plain(2, 2, 2, 1, 2, 1)}
\* The last rank, with nothing of n0, has a trivial transpose to plan where the
\* others find no plan.
MCNoPlan   == {Asks(3, 4, 3, 2, 1, 3, 1, {}, {"bA"})}
=============================================================================
