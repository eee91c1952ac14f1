---------------------------- MODULE MCUnderling ----------------------------
(* Instances of Underling for TLC.                                         *)
EXTENDS Underling

Problem(n0, n1, n2, pA, pB, howmany, tn2, tn0) ==
  [n |-> [d \in Directions |-> CASE d = 0 -> n0 [] d = 1 -> n1 [] d = 2 -> n2],
   pA |-> pA, pB |-> pB, howmany |-> howmany, tn2 |-> tn2, tn0 |-> tn0]

AnyOrder(n0, n1, n2, pA, pB, howmany) ==
  {Problem(n0, n1, n2, pA, pB, howmany, tn2, tn0) : tn2, tn0 \in BOOLEAN}

\* A full 2 by 2 grid, with one, two or unequal shares of each direction.
Square == {Problem(2, 3, 2, 2, 2, 1, FALSE, FALSE),
           Problem(3, 2, 2, 2, 2, 1, TRUE,  FALSE),
           Problem(2, 3, 3, 2, 2, 1, FALSE, TRUE)}

\* Two ranks in a row, in every storage order: interleaved fields, uneven
\* blocks, a direction shorter than its processes, and (the last two) one plane
\* in the direction that must not be split for the data to be long.
Rows == AnyOrder(3, 3, 2, 2, 1, 2) \cup AnyOrder(2, 3, 3, 1, 2, 1)
          \cup AnyOrder(2, 2, 1, 2, 1, 1)
          \cup AnyOrder(2, 3, 1, 1, 2, 1) \cup AnyOrder(1, 3, 3, 2, 1, 1)

\* Three ranks of which the last holds nothing of n0, and no field at all.
Degenerate == AnyOrder(4, 3, 2, 1, 3, 1)
                \cup {Problem(2, 2, 2, 2, 2, 0, FALSE, TRUE)}

MCProblems  == Square \cup Rows \cup Degenerate
\* A full grid of the least data, and a row with an empty share of n2.
MCMixed     == {Problem(2, 2, 2, 2, 2, 1, FALSE, FALSE),
                Problem(3, 2, 1, 2, 1, 1, TRUE, FALSE)}
MCLong      == {Problem(2, 2, 2, 2, 1, 1, FALSE, FALSE)}
=============================================================================
