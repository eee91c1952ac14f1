------------------------------- MODULE Setup -------------------------------
(***************************************************************************)
(* The life of a grid, a problem and a plan: every rank of a communicator  *)
(* calls underling_grid_create, underling_problem_create,                  *)
(* underling_plan_create and then the three destroy functions, as the      *)
(* fixtures of the tests do.                                               *)
(*                                                                         *)
(* Each call is a sequence of steps, some local, some collective over one  *)
(* of the communicators "world", "g" (g_comm), "A" and "B" (pA_comm and    *)
(* pB_comm) or that of a transpose, "bA", "bB", "fB" or "fA" (backwardA,   *)
(* backwardB, forwardB, forwardA).  A rank that detects a failure destroys *)
(* what it has made and returns NULL; MPI and underling errors return to   *)
(* the caller.                                                             *)
(***************************************************************************)
EXTENDS Pencils, SequencesExt

CONSTANT Requests       \* what callers ask for

Transposes == {"bA", "bB", "fB", "fA"}

WayOf == [bA |-> <<2, 1>>, bB |-> <<1, 0>>, fB |-> <<0, 1>>, fA |-> <<1, 2>>]

\* n, pA, pB, howmany: as passed in.  asked and none: the transpose flags.
\* unplannable: the transposes FFTW finds no plan for, on any rank.  failures:
\* bound on the failures that strike single ranks.
Request == [nproc : Nat \ {0}, n : [Directions -> Int], pA : Int, pB : Int,
            howmany : Int, asked : SUBSET Transposes, none : BOOLEAN,
            unplannable : SUBSET Transposes, failures : Nat]

ASSUME RequestsAssumption == Requests \subseteq Request

VARIABLES request,     \* the arguments, the same on every rank
          shape,       \* g->pA and g->pB as they come to be
          calls,       \* calls[r]: how many calls rank r has begun
          todo,        \* todo[r]: the steps left of the call it is in
          waits,       \* waits[r]: r is inside the collective Head(todo[r])
          held,        \* held[r]: the resources r has acquired and not freed
          pointers,    \* pointers[r]: what r was given a valid pointer to
          entered,     \* entered[r][c]: the collectives r has entered on c
          failures,    \* how many failures have struck single ranks
          brokenOff    \* the ranks on which a broadcast of the setup failed

vars == <<request, shape, calls, todo, waits, held, pointers, entered, failures,
          brokenOff>>

Procs == 0 .. request.nproc - 1

Communicators == {"world", "g", "A", "B"} \cup Transposes

---------------------------------------------------------------------------
(* The shape of the processor grid.                                        *)

\* MPI_Dims_create (external): balanced, larger first, zeros filled in.  When
\* it cannot fill them in, so that it may fail instead, the product is not
\* nproc and the grid is refused all the same.
BalancedDims(nproc, pA, pB) ==
  CASE pA > 0 /\ pB > 0 -> <<pA, pB>>
    [] pA > 0 /\ pB = 0 -> <<pA, nproc \div pA>>
    [] pA = 0 /\ pB > 0 -> <<nproc \div pB, pB>>
    [] OTHER            -> CHOOSE d \in (1 .. nproc) \X (1 .. nproc) :
                             /\ d[1] * d[2] = nproc /\ d[1] >= d[2]
                             /\ \A e \in (1 .. nproc) \X (1 .. nproc) :
                                  e[1] * e[2] = nproc /\ e[1] >= e[2] => d[1] <= e[1]

Swapped(d) == <<d[2], d[1]>>

\* Mutant: the smaller share always goes to pA.
ShapeNotAligned(q) ==
  LET d == BalancedDims(q.nproc, q.pA, q.pB)
  IN  IF q.pA = 0 /\ q.pB = 0 /\ d[1] > d[2] THEN Swapped(d) ELSE d

\* Without any wish of the caller, the larger share goes to the larger of n0, n2.
Shape(q) ==
  LET d         == BalancedDims(q.nproc, q.pA, q.pB)
      ascending == IF d[1] > d[2] THEN Swapped(d) ELSE d
  IN  IF q.pA # 0 \/ q.pB # 0 THEN d
      ELSE IF q.n[2] < q.n[0] THEN ascending ELSE Swapped(ascending)

ArgumentsPass(q) == (\A d \in Directions : q.n[d] >= 1) /\ q.pA >= 0 /\ q.pB >= 0

\* The decomposition checks.  The third tests n0 and pB a second time.
ShapePasses(q, s) ==
  /\ s[1] * s[2] = q.nproc
  /\ q.n[0] >= s[2]
  /\ q.n[1] >= s[1] /\ q.n[1] >= s[2]
  /\ q.n[0] >= s[2]

\* The coordinates of a rank, and the ranks it shares a communicator with.
Coordinates(r) == [a |-> r \div shape[2], b |-> r % shape[2]]

Members(r, c) ==
  CASE c \in {"world", "g"}      -> Procs
    [] c \in {"A", "bA", "fA"} -> {q \in Procs : Coordinates(q).b = Coordinates(r).b}
    [] c \in {"B", "bB", "fB"} -> {q \in Procs : Coordinates(q).a = Coordinates(r).a}

---------------------------------------------------------------------------
(* Steps and the calls made of them.                                       *)

Heap(name)  == <<"heap", name>>
Comm(name)  == <<"comm", name>>
Plan(name)  == <<"plan", name>>
Nothing     == <<"nothing", "nothing">>

\* A step: what it does, on which communicator, and the resource it is about.
Step(do, on, res) == [do |-> do, on |-> on, res |-> res]
Local(do, res)    == Step(do, "self", res)
Free(res)         == Step("free", IF res[1] = "comm" THEN res[2] ELSE "self", res)
Skip              == Local("skip", Nothing)    \* an if whose condition is false

GridCreate ==
  << Local("alloc", Heap("grid")), Local("shape", Nothing),
     Step("cart", "world", Comm("g")),
     Step("sub", "g", Comm("A")), Local("rank", Nothing),
     Step("sub", "g", Comm("B")), Local("rank", Nothing), Local("name", Nothing),
     Local("return", Heap("grid")) >>

\* Either way of creating a transpose duplicates a communicator.
TransposeCreate(t, parent) ==
  << Local("alloc", Heap(t)), Step("dup", parent, Comm(t)), Local("name", Comm(t)) >>

ProblemCreate ==
  << Local("alloc", Heap("problem")),
     Step("bcast", "A", Nothing), Step("bcast", "B", Nothing) >>
  \o TransposeCreate("bA", "A")  \o TransposeCreate("bB", "B")
  \o TransposeCreate("fB", "bB") \o TransposeCreate("fA", "bA")
  \o << Local("return", Heap("problem")) >>

\* The transpose flags in effect, and whether the code plans a transpose for
\* them: it tests (flags | bit), not (flags & bit).
Flags(q) == IF q.none THEN {} ELSE IF q.asked = {} THEN Transposes ELSE q.asked

Planned(q, t) == Flags(q) \cup {t} # {}

\* Mutant: a rank decides by its own share, not by the size of the transpose.
TrivialLocally(q, r, t) ==
  LET p == [n |-> q.n, pA |-> shape[1], pB |-> shape[2], howmany |-> q.howmany,
            tn2 |-> FALSE, tn0 |-> FALSE]
      c == Coordinates(r)
  IN  LocalIn(TransposeOf(p, c, WayOf[t]), RankIn(WayOf[t], c)) = 0

TrivialOn(q, r, t) ==
  LET p == [n |-> q.n, pA |-> shape[1], pB |-> shape[2], howmany |-> q.howmany,
            tn2 |-> FALSE, tn0 |-> FALSE]
  IN  Trivial(TransposeOf(p, Coordinates(r), WayOf[t]))

PlanStep(r, t) ==
  IF ~Planned(request, t) THEN Skip
  ELSE IF TrivialOn(request, r, t) THEN Local("noplan", Plan(t))
  ELSE Step("plan", t, Plan(t))

PlanCreate(r) ==
  << Local("alloc", Heap("plan")),
     PlanStep(r, "bA"), PlanStep(r, "bB"), PlanStep(r, "fB"), PlanStep(r, "fA"),
     Local("return", Heap("plan")) >>

\* The resources of an object, in the order its destroy function frees them.
TransposeParts(t) == << Comm(t), Heap(t) >>
GridParts         == << Comm("g"), Comm("A"), Comm("B"), Heap("grid") >>
ProblemParts      == TransposeParts("bA") \o TransposeParts("bB")
                       \o TransposeParts("fB") \o TransposeParts("fA")
                       \o << Heap("problem") >>
PlanParts         == << Plan("bA"), Plan("bB"), Plan("fA"), Plan("fB"), Heap("plan") >>

\* The given resources are freed one by one, if r holds them.
Destroy(r, parts) ==
  [k \in DOMAIN parts |-> IF parts[k] \in held[r] THEN Free(parts[k]) ELSE Skip]

\* Mutant: null pointers are not refused.
StepsUnchecked(r, k) ==
  CASE k = 1 -> IF ArgumentsPass(request) THEN GridCreate ELSE <<>>
    [] k = 2 -> IF request.howmany >= 0 THEN ProblemCreate ELSE <<>>
    [] k = 3 -> PlanCreate(r)
    [] k = 4 -> IF "plan" \in pointers[r] THEN Destroy(r, PlanParts) ELSE <<>>
    [] k = 5 -> IF "problem" \in pointers[r] THEN Destroy(r, ProblemParts) ELSE <<>>
    [] k = 6 -> IF "grid" \in pointers[r] THEN Destroy(r, GridParts) ELSE <<>>

\* Mutant: a plan is made whenever there is a grid, problem or not.
StepsWithoutProblem(r, k) ==
  CASE k = 1 -> IF ArgumentsPass(request) THEN GridCreate ELSE <<>>
    [] k = 2 -> IF "grid" \in pointers[r] /\ request.howmany >= 0
                THEN ProblemCreate ELSE <<>>
    [] k = 3 -> IF "grid" \in pointers[r] THEN PlanCreate(r) ELSE <<>>
    [] k = 4 -> IF "plan" \in pointers[r] THEN Destroy(r, PlanParts) ELSE <<>>
    [] k = 5 -> IF "problem" \in pointers[r] THEN Destroy(r, ProblemParts) ELSE <<>>
    [] k = 6 -> IF "grid" \in pointers[r] THEN Destroy(r, GridParts) ELSE <<>>

\* What the k-th call of rank r has to do.  Creation is refused without a
\* valid pointer or valid arguments; destroying NULL does nothing.
Steps(r, k) ==
  CASE k = 1 -> IF ArgumentsPass(request) THEN GridCreate ELSE <<>>
    [] k = 2 -> IF "grid" \in pointers[r] /\ request.howmany >= 0
                THEN ProblemCreate ELSE <<>>
    [] k = 3 -> IF "problem" \in pointers[r] THEN PlanCreate(r) ELSE <<>>
    [] k = 4 -> IF "plan" \in pointers[r] THEN Destroy(r, PlanParts) ELSE <<>>
    [] k = 5 -> IF "problem" \in pointers[r] THEN Destroy(r, ProblemParts) ELSE <<>>
    [] k = 6 -> IF "grid" \in pointers[r] THEN Destroy(r, GridParts) ELSE <<>>

\* What the object that the k-th call destroys is called.
Destroyed(k) == CASE k = 4 -> {"plan"} [] k = 5 -> {"problem"} [] k = 6 -> {"grid"}
                  [] OTHER -> {}

LastCall == 6

\* Mutant: a failing grid creation returns without underling_grid_destroy.
CleanupForgetsGrid(r) ==
  LET step == Head(todo[r])
  IN  CASE calls[r] = 1 -> <<>>
        [] calls[r] = 2 -> IF step.do = "bcast" THEN <<>> ELSE Destroy(r, ProblemParts)
        [] calls[r] = 3 -> Destroy(r, PlanParts)

\* What rank r does before it returns NULL when its next step fails.  In
\* underling_problem_create a failed broadcast returns at once; a transpose
\* that cannot be completed goes first, then the others with the problem.
Cleanup(r) ==
  LET step == Head(todo[r])
      own  == TransposeParts(step.res[2])
      rest == [k \in DOMAIN ProblemParts |->
                 IF ProblemParts[k] \in ToSet(own) THEN Nothing ELSE ProblemParts[k]]
  IN  CASE calls[r] = 1 -> Destroy(r, GridParts)
        [] calls[r] = 2 -> IF step.do = "bcast" \/ step.res = Heap("problem") THEN <<>>
                           ELSE Destroy(r, own \o rest)
        [] calls[r] = 3 -> Destroy(r, PlanParts)

---------------------------------------------------------------------------
(* Behaviour                                                               *)

Init ==
  /\ request \in Requests
  /\ shape = Shape(request)
  /\ calls = [r \in Procs |-> 0]
  /\ todo = [r \in Procs |-> <<>>]
  /\ waits = [r \in Procs |-> FALSE]
  /\ held = [r \in Procs |-> {}]
  /\ pointers = [r \in Procs |-> {}]
  /\ entered = [r \in Procs |-> [c \in Communicators |-> <<>>]]
  /\ failures = 0
  /\ brokenOff = {}

\* Rank r makes its next call.
Begin(r) ==
  /\ todo[r] = <<>>
  /\ calls[r] < LastCall
  /\ calls' = [calls EXCEPT ![r] = @ + 1]
  /\ todo' = [todo EXCEPT ![r] = Steps(r, calls[r] + 1)]
  /\ pointers' = [pointers EXCEPT ![r] = @ \ Destroyed(calls[r] + 1)]
  /\ UNCHANGED <<request, shape, waits, held, entered, failures, brokenOff>>

\* Mutant: the shape is checked with the number of a rank, counted from one, for
\* that of all ranks.
DoomedByRank(r) ==
  LET step == Head(todo[r]) IN
  \/ step.do = "shape" /\ ~ShapePasses([request EXCEPT !.nproc = r + 1], shape)
  \/ step.do = "plan" /\ step.res[2] \in request.unplannable

\* The next step of r succeeds unless the arguments doom it on every rank.
Doomed(r) ==
  LET step == Head(todo[r]) IN
  \/ step.do = "shape" /\ ~ShapePasses(request, shape)
  \/ step.do = "plan" /\ step.res[2] \in request.unplannable

\* The next step of r is over, and so is its effect.
Completes(r) ==
  LET step == Head(todo[r]) IN
  /\ ~Doomed(r)
  /\ todo' = [todo EXCEPT ![r] = Tail(@)]
  /\ held' = [held EXCEPT ![r] =
                CASE step.do = "free" -> @ \ {step.res}
                  [] step.do \in {"alloc", "cart", "sub", "dup", "plan", "noplan"} ->
                       @ \cup {step.res}
                  [] OTHER -> @]
  /\ pointers' = [pointers EXCEPT ![r] =
                    IF step.do = "return" THEN @ \cup {step.res[2]} ELSE @]

\* Mutant: the failure goes unnoticed.
FailsUnnoticed(r) ==
  /\ todo' = [todo EXCEPT ![r] = Tail(@)]
  /\ UNCHANGED <<held, pointers>>

Fails(r) ==
  /\ todo' = [todo EXCEPT ![r] = Cleanup(r)]
  /\ UNCHANGED <<held, pointers>>

Ends(r) == Completes(r) \/ (Doomed(r) /\ Fails(r))

Do(r) ==
  /\ todo[r] # <<>> /\ Head(todo[r]).on = "self"
  /\ Ends(r)
  /\ UNCHANGED <<request, shape, calls, waits, entered, failures, brokenOff>>

Enter(r) ==
  /\ todo[r] # <<>> /\ Head(todo[r]).on # "self"
  /\ ~waits[r]
  /\ waits' = [waits EXCEPT ![r] = TRUE]
  /\ entered' = [entered EXCEPT ![r][Head(todo[r]).on] =
                   Append(@, <<Head(todo[r]).do, Head(todo[r]).res>>)]
  /\ UNCHANGED <<request, shape, calls, todo, held, pointers, failures, brokenOff>>

\* Everybody who has to take part in the collective that r is in has entered
\* as many on its communicator, and they all entered the same one.
Arrived(r) ==
  LET c == Head(todo[r]).on IN
  \A q \in Members(r, c) : Len(entered[q][c]) >= Len(entered[r][c])

Complete(r) ==
  LET c == Head(todo[r]).on
      k == Len(entered[r][c])
  IN  Arrived(r) /\ \A q \in Members(r, c) : entered[q][c][k] = entered[r][c][k]

Return(r) ==
  /\ waits[r]
  /\ Complete(r)
  /\ waits' = [waits EXCEPT ![r] = FALSE]
  /\ Ends(r)
  /\ UNCHANGED <<request, shape, calls, entered, failures, brokenOff>>

\* MPI need not make a rank wait that broadcasts or frees a communicator, and
\* may do anything when ranks meet in different collectives.
ReturnEarly(r) ==
  /\ waits[r]
  /\ ~Complete(r)
  /\ \/ Head(todo[r]).do = "free"
     \/ Head(todo[r]).do = "bcast" /\ r = Min(Members(r, Head(todo[r]).on))
     \/ Arrived(r)
  /\ waits' = [waits EXCEPT ![r] = FALSE]
  /\ Completes(r)
  /\ UNCHANGED <<request, shape, calls, entered, failures, brokenOff>>

\* A step of r alone fails: no memory, or an MPI error before the rank takes
\* part or, in a collective, when it has.
Fail(r) ==
  /\ failures < request.failures
  /\ todo[r] # <<>>
  /\ Head(todo[r]).do \in
       {"alloc", "shape", "cart", "sub", "rank", "name", "bcast", "dup"}
  /\ waits[r] => Complete(r)
  /\ failures' = failures + 1
  /\ brokenOff' = IF Head(todo[r]).do = "bcast" THEN brokenOff \cup {r} ELSE brokenOff
  /\ waits' = [waits EXCEPT ![r] = FALSE]
  /\ Fails(r)
  /\ UNCHANGED <<request, shape, calls, entered>>

Proceed(r) == Begin(r) \/ Do(r) \/ Enter(r) \/ Return(r)

Next == \E r \in Procs : Proceed(r) \/ ReturnEarly(r) \/ Fail(r)

AllProcs == UNION {0 .. q.nproc - 1 : q \in Requests}

\* Ranks run on, and MPI completes a collective that all have entered.
Spec ==
  /\ Init
  /\ [][Next]_vars
  /\ \A r \in AllProcs : WF_vars(r \in Procs /\ Proceed(r))

---------------------------------------------------------------------------
(* Properties                                                              *)

Resources == {"heap", "comm", "plan"}
               \X ({"grid", "problem", "plan", "g", "A", "B"} \cup Transposes)

\* Calls and failures within their bounds, resources that exist, nobody inside a
\* collective without one to be inside of, and the plan a rank has belongs to a
\* problem it still has, and the problem to a grid.
TypeOK ==
  /\ request \in Requests
  /\ shape = Shape(request)
  /\ calls \in [Procs -> 0 .. LastCall]
  /\ waits \in [Procs -> BOOLEAN]
  /\ held \in [Procs -> SUBSET Resources]
  /\ pointers \in [Procs -> SUBSET {"grid", "problem", "plan"}]
  /\ failures \in 0 .. request.failures
  /\ brokenOff \subseteq Procs
  /\ \A r \in Procs :
       /\ waits[r] => todo[r] # <<>> /\ Head(todo[r]).on \in Communicators
       /\ "plan" \in pointers[r] => "problem" \in pointers[r]
       /\ "problem" \in pointers[r] => "grid" \in pointers[r]

\* A collective is entered and completed on a communicator that the rank still
\* has: none is used before it is made or after it was freed.
OnLiveCommunicator ==
  \A r \in Procs : waits[r] =>
    Head(todo[r]).on = "world" \/ Comm(Head(todo[r]).on) \in held[r]

\* A valid pointer is to a whole object: a problem with four transposes and
\* their communicators, a plan with all its FFTW plans.  Ranks that lost a
\* step in between have none (the @return sections of underling.h).
PointersAreWhole ==
  \A r \in Procs :
    /\ "grid" \in pointers[r] => ToSet(GridParts) \subseteq held[r]
    /\ "problem" \in pointers[r] => ToSet(ProblemParts) \subseteq held[r]
    /\ "plan" \in pointers[r] =>
         \A t \in Flags(request) : Plan(t) \in held[r]

\* A rank that is not in a call holds the objects it has pointers to and no
\* others, whichever step of whichever call failed on whichever rank.  Only a
\* rank on which a broadcast of underling_problem_create failed has lost the
\* block of the problem, the leak that the FIXME before that function admits.
NothingElseLeaks ==
  \A r \in Procs : todo[r] = <<>> =>
    held[r] \ (IF r \in brokenOff THEN {Heap("problem")} ELSE {}) \subseteq
      UNION {IF "grid" \in pointers[r] THEN ToSet(GridParts) ELSE {},
             IF "problem" \in pointers[r] THEN ToSet(ProblemParts) ELSE {},
             IF "plan" \in pointers[r] THEN ToSet(PlanParts) ELSE {}}

\* FFTW finds a plan, or the transpose is trivial on all ranks or on none.
PlansFailTogether ==
  \A t \in request.unplannable : \A r, q \in Procs :
    TrivialOn(request, r, t) <=> TrivialOn(request, q, t)

\* As long as no single rank fails, the k-th collective on a communicator is
\* the same on all its ranks, whatever is refused, degenerate or not plannable
\* for all: at any time so are the latest ones that two of its ranks both entered.
CollectivesMatch ==
  failures = 0 /\ PlansFailTogether =>
    \A r \in Procs, c \in Communicators : entered[r][c] # <<>> =>
      \A q \in Members(r, c) :
        LET k == Len(entered[r][c])
        IN  k <= Len(entered[q][c]) => entered[r][c][k] = entered[q][c][k]

\* underling.h:263-265: without wishes "the larger of pA and pB decomposes the
\* larger of n0 and n2".
GridAligned ==
  \A r \in Procs : "grid" \in pointers[r] /\ request.pA = 0 /\ request.pB = 0 =>
    /\ request.n[0] > request.n[2] => shape[2] >= shape[1]
    /\ request.n[2] > request.n[0] => shape[1] >= shape[2]

\* underling.h:252-253: "It must be true that n0 >= pB, n1 >= pA, pB, and
\* n2 >= pA".
GridAsDocumented ==
  \A r \in Procs : "grid" \in pointers[r] => request.n[2] >= shape[1]

\* Every rank gets through all its calls unless some rank failed alone: no
\* refusal, degenerate share or missing plan leaves ranks waiting for others
\* (underling.h:671: "On failure, calls underling_error and returns NULL").
EveryCallReturns ==
  <>(failures > 0 \/ \A r \in Procs : calls[r] = LastCall /\ todo[r] = <<>>)

=============================================================================
