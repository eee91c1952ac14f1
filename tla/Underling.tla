----------------------------- MODULE Underling -----------------------------
(***************************************************************************)
(* Executing transposes: the four underling_execute_long_nX_to_long_nY     *)
(* calls, made by every rank of the grid on a common problem and plan.     *)
(*                                                                         *)
(* Each rank runs at its own pace.  A call checks its arguments, then runs *)
(* an FFTW MPI plan (external): the rank sends each peer of pA_comm or     *)
(* pB_comm what that peer will store, waits for what every peer sends it,  *)
(* and writes the output buffer.  Messages carry no name of the call they  *)
(* belong to: MPI matches them by communicator (every transpose has its    *)
(* own), sender, receiver and order.                                       *)
(***************************************************************************)
EXTENDS Pencils, Sequences, FiniteSets

CONSTANTS Problems,    \* the problems callers may create
          Buffers,     \* the buffers a caller passes to a plan
          Null,        \* the null pointer
          Junk,        \* what nobody can rely on: destroyed or unwritten data
          MaxCalls,    \* bound on the number of calls of a rank
          MaxRefused   \* bound on how many of them have improper arguments

ASSUME ProblemsAssumption == Problems \subseteq WellFormed
ASSUME BuffersAssumption  == Buffers # {} /\ Null \notin Buffers
ASSUME BoundsAssumption   == MaxCalls \in Nat /\ MaxRefused \in Nat
ASSUME JunkAssumption     == \A p \in Problems : \A r \in Ranks(p) : \A i \in Directions :
                               \A addr \in Pencil(p, r, i) : Junk # [rank |-> r, addr |-> addr]

VARIABLES prob,        \* the underling_problem, the same on every rank
          inPlace,     \* plan->in_place
          plan,        \* plan[way][r]: the FFTW plan of rank r for a transpose
          start,       \* the direction in which the caller filled the field
          script,      \* the calls of the program, as far as any rank has come
          done,        \* done[r]: how many calls rank r has returned from
          inside,      \* inside[r]: r is inside an FFTW transpose
          at,          \* at[r]: the direction and buffer r's data is in
          buf,         \* buf[r][b]: the contents of a buffer
          net          \* net[way][r][q]: messages under way from r to q

vars == <<prob, inPlace, plan, start, script, done, inside, at, buf, net>>

FirstBuffer == CHOOSE b \in Buffers : TRUE

Memory(r) == 0 .. LocalMemory(prob, r) - 1

\* The caller fills its pencil, long in one direction, with values that tell
\* all slots apart.
Filled(r) == [addr \in Pencil(prob, r, start) |-> [rank |-> r, addr |-> addr]]

FilledBuffer(r) ==
  [addr \in Memory(r) |-> IF addr \in DOMAIN Filled(r) THEN Filled(r)[addr] ELSE Junk]

\* What planning settles: whether there is anything to do, and from which
\* slots the output buffer is filled.
TransposePlan(way, r) ==
  [trivial |-> Trivial(TransposeOf(prob, r, way)),
   from    |-> Pulls(prob, way, r)]

Init ==
  /\ prob \in Problems
  /\ inPlace \in BOOLEAN
  /\ plan = [way \in Ways |-> [r \in Ranks(prob) |-> TransposePlan(way, r)]]
  /\ start \in Directions
  /\ script = <<>>
  /\ done = [r \in Ranks(prob) |-> 0]
  /\ inside = [r \in Ranks(prob) |-> FALSE]
  /\ at = [r \in Ranks(prob) |-> [dir |-> start, buf |-> FirstBuffer]]
  /\ buf = [r \in Ranks(prob) |->
              [b \in Buffers |-> IF b = FirstBuffer
                                 THEN FilledBuffer(r)
                                 ELSE [addr \in Memory(r) |-> Junk]]]
  /\ net = [way \in Ways |->
              [r \in Ranks(prob) |-> [q \in Ranks(prob) |-> <<>>]]]

---------------------------------------------------------------------------
(* The arguments of a call, and the checks each of the four makes.         *)

Call == [way : Ways, in : Buffers \cup {Null}, out : Buffers \cup {Null}]

\* Mutant: a missing output buffer is not refused.
AcceptedWithoutOut(call) == call.in # Null /\ (inPlace <=> call.in = call.out)

\* The checks of the execute functions: two buffers, and the same or different
\* ones as the plan was made for.
Accepted(call) ==
  /\ call.in # Null
  /\ call.out # Null
  /\ inPlace <=> call.in = call.out

\* Programs pass the buffer that holds their data, in the direction it is in,
\* but may get the buffers wrong: no output, no buffers at all, or a pair that
\* does not suit the plan.
ProgramCalls(r) ==
  LET refused == {k \in 1 .. Len(script) : ~Accepted(script[k])} IN
  {call \in Call :
     /\ call.way[1] = at[r].dir
     /\ call.in = at[r].buf \/ (call.in = Null /\ call.out = Null)
     /\ Accepted(call) \/ Cardinality(refused) < MaxRefused}

\* What rank r may call next: what its program calls next, which is still open
\* when no rank has come so far.
Calls(r) ==
  IF done[r] = Len(script) THEN ProgramCalls(r) ELSE {script[done[r] + 1]}

\* Rank r, outside any transpose, makes a call.
Makes(r, call) ==
  /\ ~inside[r]
  /\ IF done[r] = Len(script)
     THEN done[r] < MaxCalls /\ script' = Append(script, call)
     ELSE UNCHANGED script

---------------------------------------------------------------------------
(* The steps of a call.                                                    *)

\* Mutant: a refused call still counts as having moved the data.
RefuseMoves(r) == \E call \in Calls(r) :
  /\ Makes(r, call)
  /\ ~Accepted(call)
  /\ done' = [done EXCEPT ![r] = @ + 1]
  /\ at' = [at EXCEPT ![r].dir = call.way[2]]
  /\ UNCHANGED <<prob, inPlace, plan, start, inside, buf, net>>

\* An argument check fails: UNDERLING_EINVAL, nothing is touched.
Refuse(r) == \E call \in Calls(r) :
  /\ Makes(r, call)
  /\ ~Accepted(call)
  /\ done' = [done EXCEPT ![r] = @ + 1]
  /\ UNCHANGED <<prob, inPlace, plan, start, inside, at, buf, net>>

\* The plan of a trivial transpose does nothing and waits for nobody.
ExecuteNothing(r) == \E call \in Calls(r) :
  /\ Makes(r, call)
  /\ Accepted(call)
  /\ plan[call.way][r].trivial
  /\ done' = [done EXCEPT ![r] = @ + 1]
  /\ at' = [at EXCEPT ![r] = [dir |-> call.way[2], buf |-> call.out]]
  /\ UNCHANGED <<prob, inPlace, plan, start, inside, buf, net>>

\* What rank r, with its data in the buffer in, sends to q.
Message(r, q, way, in) ==
  LET from == plan[way][q].from
  IN  [addr \in {a \in DOMAIN from : from[a].rank = r} |-> buf[r][in][from[addr].addr]]

\* Mutant: a rank sends to the others but not to itself.
EnterForgetsSelf(r) == \E call \in Calls(r) :
  /\ Makes(r, call)
  /\ Accepted(call)
  /\ ~plan[call.way][r].trivial
  /\ inside' = [inside EXCEPT ![r] = TRUE]
  /\ net' = [net EXCEPT ![call.way][r] =
               [q \in Ranks(prob) |->
                  IF q \in Group(prob, call.way, r) \ {r}
                  THEN Append(@[q], Message(r, q, call.way, call.in))
                  ELSE @[q]]]
  /\ UNCHANGED <<prob, inPlace, plan, start, done, at, buf>>

\* Rank r enters a transpose and sends.
Enter(r) == \E call \in Calls(r) :
  /\ Makes(r, call)
  /\ Accepted(call)
  /\ ~plan[call.way][r].trivial
  /\ inside' = [inside EXCEPT ![r] = TRUE]
  /\ net' = [net EXCEPT ![call.way][r] =
               [q \in Ranks(prob) |->
                  IF q \in Group(prob, call.way, r)
                  THEN Append(@[q], Message(r, q, call.way, call.in))
                  ELSE @[q]]]
  /\ UNCHANGED <<prob, inPlace, plan, start, done, at, buf>>

\* What rank r's output buffer holds at an address once the oldest message of
\* every peer has been stored.
Received(r, way, addr) ==
  LET senders == {q \in Group(prob, way, r) :
                    net[way][q][r] # <<>> /\ addr \in DOMAIN Head(net[way][q][r])}
  IN  IF senders = {} THEN Junk
      ELSE Head(net[way][CHOOSE q \in senders : TRUE][r])[addr]

\* Mutant: a rank takes what has come and returns.
LeaveEagerly(r) ==
  LET call  == script[done[r] + 1]
      peers == {q \in Group(prob, call.way, r) : net[call.way][q][r] # <<>>}
  IN
  /\ inside[r]
  /\ inside' = [inside EXCEPT ![r] = FALSE]
  /\ done' = [done EXCEPT ![r] = @ + 1]
  /\ at' = [at EXCEPT ![r] = [dir |-> call.way[2], buf |-> call.out]]
  /\ buf' = [buf EXCEPT ![r] =
               [b \in Buffers |-> [addr \in DOMAIN @[b] |->
                  CASE b = call.out -> Received(r, call.way, addr)
                    [] b = call.in /\ b # call.out -> Junk
                    [] OTHER -> @[b][addr]]]]
  /\ net' = [net EXCEPT ![call.way] =
               [q \in Ranks(prob) |->
                  IF q \in peers THEN [net[call.way][q] EXCEPT ![r] = Tail(@)]
                                ELSE net[call.way][q]]]
  /\ UNCHANGED <<prob, inPlace, plan, start, script>>

\* Rank r has heard from every peer and returns UNDERLING_SUCCESS.  An
\* out-of-place plan destroys its input (FFTW_DESTROY_INPUT).
Leave(r) ==
  LET call  == script[done[r] + 1]
      peers == Group(prob, call.way, r)
  IN
  /\ inside[r]
  /\ \A q \in peers : net[call.way][q][r] # <<>>
  /\ inside' = [inside EXCEPT ![r] = FALSE]
  /\ done' = [done EXCEPT ![r] = @ + 1]
  /\ at' = [at EXCEPT ![r] = [dir |-> call.way[2], buf |-> call.out]]
  /\ buf' = [buf EXCEPT ![r] =
               [b \in Buffers |-> [addr \in DOMAIN @[b] |->
                  CASE b = call.out -> Received(r, call.way, addr)
                    [] b = call.in /\ b # call.out -> Junk
                    [] OTHER -> @[b][addr]]]]
  /\ net' = [net EXCEPT ![call.way] =
               [q \in Ranks(prob) |->
                  IF q \in peers THEN [net[call.way][q] EXCEPT ![r] = Tail(@)]
                                ELSE net[call.way][q]]]
  /\ UNCHANGED <<prob, inPlace, plan, start, script>>

Next == \E r \in Ranks(prob) :
          Refuse(r) \/ ExecuteNothing(r) \/ Enter(r) \/ Leave(r)

\* Every rank runs on: a rank whose program makes a further call makes it,
\* and MPI delivers what was sent.  No rank has to make a call nobody made.
Follow(r) ==
  /\ done[r] < Len(script)
  /\ Refuse(r) \/ ExecuteNothing(r) \/ Enter(r) \/ Leave(r)

AllRanks == UNION {Ranks(p) : p \in Problems}

Spec ==
  /\ Init
  /\ [][Next]_vars
  /\ \A r \in AllRanks : WF_vars(r \in Ranks(prob) /\ Follow(r))

---------------------------------------------------------------------------
(* Properties                                                              *)

\* Counters within the script, data in a real buffer.
CallsTyped ==
  /\ prob \in Problems
  /\ inPlace \in BOOLEAN
  /\ start \in Directions
  /\ script \in Seq(Call) /\ Len(script) <= MaxCalls
  /\ done \in [Ranks(prob) -> 0 .. Len(script)]
  /\ inside \in [Ranks(prob) -> BOOLEAN]
  /\ at \in [Ranks(prob) -> [dir : Directions, buf : Buffers]]

\* Buffers exactly as long as the memory underling_local_memory asks for.
BuffersTyped ==
  /\ DOMAIN buf = Ranks(prob)
  /\ \A r \in Ranks(prob) :
       /\ DOMAIN buf[r] = Buffers
       /\ \A b \in Buffers : DOMAIN buf[r][b] = Memory(r)

NetTyped ==
  /\ DOMAIN net = Ways
  /\ \A way \in Ways :
       /\ DOMAIN net[way] = Ranks(prob)
       /\ \A r \in Ranks(prob) : DOMAIN net[way][r] = Ranks(prob)

\* A rank inside a transpose got there by an accepted call.
InsideByCall ==
  \A r \in Ranks(prob) :
    inside[r] => done[r] < Len(script) /\ Accepted(script[done[r] + 1])

\* Every variable keeps to its domain, buffers to the memory the caller was
\* told to allocate, and no rank is inside a transpose but by an accepted call.
TypeOK == CallsTyped /\ BuffersTyped /\ NetTyped /\ InsideByCall

\* The data a rank has now, as the caller finds it.
Data(r) == [addr \in Pencil(prob, r, at[r].dir) |-> buf[r][at[r].buf][addr]]

\* A rank that is back in the direction it started from finds every value
\* where it was filled in, however far ahead or behind the other ranks are
\* and whatever was refused on the way (what test_underling.cpp checks for
\* one route and no skew).
RoundTrip ==
  \A r \in Ranks(prob) : at[r].dir = start =>
    Data(r) = Filled(r)

\* All slots of pencils, when the pencil of rank r is long in dir[r].
Slots(dir) ==
  UNION {{[rank |-> r, addr |-> addr] : addr \in Pencil(prob, r, dir[r])} :
           r \in Ranks(prob)}

\* When all ranks have made the same calls, every value that was filled in is
\* in exactly one place of one rank's pencil: none is lost or doubled.
NothingLost ==
  (\A r, q \in Ranks(prob) : done[r] = done[q]) =>
    LET now  == Slots([r \in Ranks(prob) |-> at[r].dir])
        then == Slots([r \in Ranks(prob) |-> start])
    IN  /\ {Data(slot.rank)[slot.addr] : slot \in now} = then
        /\ Cardinality(now) = Cardinality(then)

\* Every rank finds its data where the extents say: the element that start,
\* size and stride place at an address is the one stored there.
DataIsLong ==
  \A r \in Ranks(prob) : \A addr \in Pencil(prob, r, at[r].dir) :
    LET x == Data(r)[addr] IN
    /\ x # Junk
    /\ ElementAt(prob, r, at[r].dir, addr) = ElementAt(prob, x.rank, start, x.addr)

\* The order of rows on which the extents rely survives a transpose over pA
\* when pA is 1 or no rank holds two planes of n0, and one over pB when pB is
\* 1 or no rank holds two planes of n2.  FFTW leaves data that is transposed out
\* to long in n0 as (n2 x n0) x n1, the extents have it as n0 x (n1 x n2): the
\* same when no rank holds two planes of n2.
KeepsOrder(p) ==
  /\ p.pA = 1 \/ DefaultBlock(p.n[0], p.pB) = 1
  /\ p.pB = 1 \/ DefaultBlock(p.n[2], p.pA) = 1
  /\ p.tn0 => DefaultBlock(p.n[2], p.pA) = 1

\* On such grids the data really is long in the direction asked for, in all
\* storage orders, in place or not.
LongWhenOrderKept == KeepsOrder(prob) => DataIsLong

\* The memory a rank is told to allocate holds its pencil in every direction
\* (test_underling.cpp:93-95 asserts it for the sizes it tries).
MemoryHoldsPencils ==
  \A r \in Ranks(prob) : \A i \in Directions :
    Extent(prob, r, i) <= LocalMemory(prob, r)

\* Before the first call: in every direction each element of the global field is
\* in the pencil of exactly one rank, whatever the shares and the empty ones
\* among them (the extents that underling_local_extents hands out).
FieldIsShared ==
  script = <<>> =>
    \A i \in Directions : \A x \in Elements(prob) :
      \E r \in Ranks(prob) :
        Holds(prob, r, i, x) /\ \A q \in Ranks(prob) : Holds(prob, q, i, x) => q = r

\* Before the first call: strides address each element of a pencil once and
\* nothing else, in all storage orders (underling.h: extents and strides).
AddressesTellElements ==
  script = <<>> =>
    \A i \in Directions : \A r \in Ranks(prob) :
      LET here == {ElementAt(prob, r, i, addr) : addr \in Pencil(prob, r, i)}
      IN  /\ \A x \in here : Holds(prob, r, i, x)
          /\ Cardinality(here) = Extent(prob, r, i)

\* The memory queries agree with each other: the global optimum is what all
\* pencils of any one direction hold together, no more than what the ranks
\* need for any direction, and that no more than what they are told to
\* allocate, which lies between the reduced minimum and maximum.
QueriesAddUp ==
  script = <<>> =>
    LET optimum(r) == LocalMemoryOptimum(prob, r)
        optima     == MapThenSumSet(optimum, Ranks(prob))
        procs      == Cardinality(Ranks(prob))
    IN  /\ \A i \in Directions :
             LET extent(r) == Extent(prob, r, i)
             IN  /\ MapThenSumSet(extent, Ranks(prob)) = GlobalMemoryOptimum(prob)
                 /\ \A r \in Ranks(prob) : extent(r) <= optimum(r)
        /\ GlobalMemoryOptimum(prob) <= optima /\ optima <= GlobalMemory(prob)
        /\ procs * LocalMemoryMinimum(prob) <= GlobalMemory(prob)
        /\ GlobalMemory(prob) <= procs * LocalMemoryMaximum(prob)

\* A rank runs ahead of a peer by at most one message on each communicator:
\* MPI never has two messages to tell apart by order alone.
OneMessageAhead ==
  \A way \in Ways : \A r, q \in Ranks(prob) : Len(net[way][r][q]) <= 1

\* A call that any rank's program makes is returned from on every rank: no
\* order of progress leaves ranks waiting on each other.
EveryCallReturns ==
  \A k \in 1 .. MaxCalls :
    Len(script) >= k ~> \A r \in Ranks(prob) : done[r] >= k

\* The calls as their callers see them: buffers, messages and arguments
\* forgotten.
Promise == INSTANCE PencilTranspose WITH
  script <- [k \in 1 .. Len(script) |->
               IF Accepted(script[k]) THEN script[k].way ELSE <<>>],
  pencil <- [r \in Ranks(prob) |-> [dir |-> at[r].dir, data |-> Data(r)]]

\* Whatever the ranks exchange and in whatever order, they keep the promise of
\* PencilTranspose: contents depend on the direction only, and a rank returns
\* only after its peers have returned from all earlier calls.
KeepsPromise == Promise!Spec

=============================================================================
