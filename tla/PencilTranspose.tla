-------------------------- MODULE PencilTranspose --------------------------
(***************************************************************************)
(* What executing transposes promises its callers, without buffers,        *)
(* messages or arguments.  The ranks of a grid make the same sequence of   *)
(* calls, each at its own pace.  A call moves a rank's pencil from one     *)
(* direction to a neighbouring one or is refused.  What a rank holds is a  *)
(* function of the direction alone, whatever route led there; and a rank   *)
(* returns from its k-th call only when every rank it exchanges data with  *)
(* has returned from all the calls before it.                              *)
(***************************************************************************)
EXTENDS Pencils, Sequences

CONSTANTS Problems,    \* the problems callers may create
          MaxCalls     \* bound on the number of calls of a rank

VARIABLES prob,        \* the problem
          start,       \* the direction in which the field was filled
          script,      \* the calls of the program, as far as any rank has come
          done,        \* done[r]: how many calls rank r has returned from
          pencil       \* pencil[r]: the direction and contents of r's pencil

vars == <<prob, start, script, done, pencil>>

Refused == <<>>   \* the call that goes no way

PencilIn(d, r) == [dir |-> d, data |-> Held(prob, start, r, d)]

Init ==
  /\ prob \in Problems
  /\ start \in Directions
  /\ script = <<>>
  /\ done = [r \in Ranks(prob) |-> 0]
  /\ pencil = [r \in Ranks(prob) |-> PencilIn(start, r)]

\* A program calls only transposes that start where its data is.
Sensible(r, call) == call # Refused => pencil[r].dir = call[1]

\* The first rank to get there settles what every rank calls next.
Begin(r) == \E call \in Ways \cup {Refused} :
  /\ done[r] = Len(script)
  /\ done[r] < MaxCalls
  /\ Sensible(r, call)
  /\ script' = Append(script, call)
  /\ UNCHANGED <<prob, start, done, pencil>>

\* Rank r returns from its next call; nothing keeps it from being the first.
Returns(r, call) ==
  /\ done[r] < MaxCalls
  /\ Sensible(r, call)
  /\ IF done[r] = Len(script) THEN script' = Append(script, call)
                              ELSE call = script[done[r] + 1] /\ script' = script
  /\ done' = [done EXCEPT ![r] = @ + 1]
  /\ UNCHANGED <<prob, start>>

Refuse(r) == Returns(r, Refused) /\ UNCHANGED pencil

Transpose(r) == \E way \in Ways :
  /\ Returns(r, way)
  /\ Trivial(TransposeOf(prob, r, way))
       \/ \A q \in Group(prob, way, r) : done[q] >= done[r]
  /\ pencil' = [pencil EXCEPT ![r] = PencilIn(way[2], r)]

Next == \E r \in Ranks(prob) : Begin(r) \/ Refuse(r) \/ Transpose(r)

Spec == Init /\ [][Next]_vars
=============================================================================
