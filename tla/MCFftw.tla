------------------------------- MODULE MCFftw -------------------------------
(* Instances of Fftw for TLC.                                              *)
EXTENDS Fftw

On(n0, n1, n2, pB, howmany, tn2, tn0, b, long) ==
  [prob |-> [n |-> [d \in Directions |-> CASE d = 0 -> n0 [] d = 1 -> n1 [] d = 2 -> n2],
             pA |-> 1, pB |-> pB, howmany |-> howmany, tn2 |-> tn2, tn0 |-> tn0],
   rank |-> [a |-> 0, b |-> b], long |-> long, noProblem |-> FALSE]

\* One field, fast in the long direction or one or two rotations from it.
Orders == {On(2, 3, 2, 1, 2, tn2, FALSE, 0, 2) : tn2 \in BOOLEAN}
            \cup {On(2, 3, 2, 1, 2, FALSE, tn0, 0, 0) : tn0 \in BOOLEAN}

\* Two fields; a rank that starts inside the field and one that has no share of
\* it; a line of length one; no fields.
Shares == {On(2, 2, 3, 1, 4, FALSE, FALSE, 0, 2), On(3, 1, 3, 2, 2, TRUE, FALSE, 1, 2),
           On(4, 3, 2, 3, 2, FALSE, FALSE, 2, 2),
           On(2, 1, 1, 1, 2, FALSE, FALSE, 0, 1), On(2, 2, 2, 1, 0, FALSE, FALSE, 0, 1)}

\* An odd number of reals, no problem, a direction there is not.
Improper == {On(2, 2, 2, 1, 1, FALSE, FALSE, 0, long) : long \in {0, 1}}
              \cup {[On(2, 2, 2, 1, 2, FALSE, FALSE, 0, 0) EXCEPT !.noProblem = TRUE],
                    On(2, 2, 2, 1, 2, FALSE, FALSE, 0, 3)}

MCCases   == Orders \cup Shares \cup Improper
MCInverse == {On(2, 2, 2, 1, 2, FALSE, FALSE, 0, 2)}
=============================================================================
