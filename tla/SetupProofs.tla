---------------------------- MODULE SetupProofs ----------------------------
(***************************************************************************)
(* What Setup's run shows of a few requests, for any requests: whatever    *)
(* fails on whichever ranks, a rank keeps whole objects or none, frees     *)
(* each resource once, and uses a communicator only while it has it.       *)
(*                                                                         *)
(* A rank that is inside a call is either somewhere in a creation, holding *)
(* exactly what the steps behind it made, or freeing what it holds of the  *)
(* object of the call (Creating, Freeing).                                 *)
(*                                                                         *)
(* As long as no single rank fails, what a rank enters on a communicator   *)
(* is a list that the arguments determine (Script), as far as it has come  *)
(* (Recorded): ranks of the communicator have the same list, so they never *)
(* meet in different collectives.                                          *)
(***************************************************************************)
EXTENDS Setup, PencilsProofs, SequenceTheorems, TLAPS

Objects == {"grid", "problem", "plan"}

PartsOf(o) == CASE o = "grid"    -> ToSet(GridParts)
                [] o = "problem" -> ToSet(ProblemParts)
                [] o = "plan"    -> ToSet(PlanParts)

\* The call that creates an object, and the object of each call.
CreatedBy == [o \in Objects |-> CASE o = "grid" -> 1 [] o = "problem" -> 2 [] o = "plan" -> 3]

ObjectOf(k) == CASE k \in {1, 6} -> "grid" [] k \in {2, 5} -> "problem" [] k \in {3, 4} -> "plan"

Creation(r, k) == CASE k = 1 -> GridCreate [] k = 2 -> ProblemCreate [] k = 3 -> PlanCreate(r)

\* What has to be there before the k-th call creates anything.
Base(k) == CASE k = 1 -> {} [] k = 2 -> PartsOf("grid") [] k = 3 -> PartsOf("problem")

Acquires(step) == step.do \in {"alloc", "cart", "sub", "dup", "plan", "noplan"}

\* What the first k - 1 steps of c have made.
Made(c, k) == {c[j].res : j \in {i \in 1 .. k - 1 : Acquires(c[i])}}

\* What r holds of an object.
Has(r, o) == held[r] \cap PartsOf(o)

\* What r may still hold of an object it has no pointer to.
Leaked(r, o) ==
  IF o = "problem" /\ calls[r] >= 2 /\ r \in brokenOff THEN {Heap("problem")} ELSE {}

\* The k-th step of c is next, and what the steps before have made is there.
Reached(r, c, k) ==
  /\ todo[r] = SubSeq(c, k, Len(c))
  /\ Has(r, ObjectOf(calls[r])) = Made(c, k)
  /\ calls[r] = 1 /\ k > 2 => ShapePasses(request, shape)

Creating(r) ==
  /\ calls[r] \in 1 .. 3
  /\ calls[r] = 2 => "grid" \in pointers[r]
  /\ calls[r] = 3 => "problem" \in pointers[r]
  /\ \E k \in 1 .. Len(Creation(r, calls[r])) : Reached(r, Creation(r, calls[r]), k)

Frees == {Free(res) : res \in Resources}

\* The steps s free each of the given resources once.
Clears(s, resources) ==
  /\ s \in Seq(Frees \cup {Skip})
  /\ \A k \in 1 .. Len(s) : s[k] # Skip => \E res \in resources : s[k] = Free(res)
  /\ \A j, k \in 1 .. Len(s) : s[j] # Skip /\ s[j] = s[k] => j = k
  /\ \A res \in resources : \E k \in 1 .. Len(s) : s[k] = Free(res)

Freeing(r) == Clears(todo[r], Has(r, ObjectOf(calls[r])))

RankTyped(r) ==
  /\ calls[r] \in 0 .. LastCall
  /\ waits[r] \in BOOLEAN
  /\ held[r] \subseteq UNION {PartsOf(o) : o \in Objects}
  /\ pointers[r] \subseteq Objects

\* A pointer is to a whole object that a call has made.
Owns(r) ==
  \A o \in pointers[r] : PartsOf(o) \subseteq held[r] /\ CreatedBy[o] <= calls[r]

\* Of other objects there is nothing, apart from the one that is worked on.
Clean(r) ==
  \A o \in Objects \ pointers[r] :
    todo[r] = <<>> \/ o # ObjectOf(calls[r]) => Has(r, o) \subseteq Leaked(r, o)

Busy(r) ==
  todo[r] # <<>> =>
    /\ calls[r] # 0 /\ ObjectOf(calls[r]) \notin pointers[r]
    /\ Creating(r) \/ Freeing(r)

Inside(r) == waits[r] => todo[r] # <<>> /\ Head(todo[r]).on # "self"

Checked(r) == "grid" \in pointers[r] => ShapePasses(request, shape)

RankInv(r) ==
  RankTyped(r) /\ Owns(r) /\ Clean(r) /\ Busy(r) /\ Inside(r) /\ Checked(r)

Typed ==
  /\ request \in Requests
  /\ shape = Shape(request)
  /\ failures \in 0 .. request.failures
  /\ brokenOff \subseteq Procs
  /\ DOMAIN calls = Procs /\ DOMAIN todo = Procs /\ DOMAIN waits = Procs
  /\ DOMAIN held = Procs /\ DOMAIN pointers = Procs

IInv == Typed /\ \A r \in Procs : RankInv(r)

---------------------------------------------------------------------------
(* The resources of the objects.                                           *)

\* What a sequence is after one, two or three more elements.
LEMMA Longer ==
  ASSUME NEW S, NEW s \in Seq(S), NEW t \in Seq(S)
  PROVE  /\ s \o t \in Seq(S) /\ Len(s \o t) = Len(s) + Len(t)
         /\ \A i \in 1 .. Len(s) : (s \o t)[i] = s[i]
         /\ \A i \in 1 .. Len(t) : (s \o t)[Len(s) + i] = t[i]
<1>1. Len(s) \in Nat /\ Len(t) \in Nat
  OBVIOUS
<1>2. /\ s \o t \in Seq(S) /\ Len(s \o t) = Len(s) + Len(t)
      /\ \A i \in 1 .. Len(s) + Len(t) :
           (s \o t)[i] = IF i <= Len(s) THEN s[i] ELSE t[i - Len(s)]
  BY ConcatProperties
<1> QED BY <1>1, <1>2

\* A sequence with two more elements,
LEMMA LongerByTwo ==
  ASSUME NEW S, NEW s \in Seq(S), NEW x \in S, NEW y \in S
  PROVE  /\ s \o <<x, y>> \in Seq(S) /\ Len(s \o <<x, y>>) = Len(s) + 2
         /\ \A i \in 1 .. Len(s) : (s \o <<x, y>>)[i] = s[i]
         /\ (s \o <<x, y>>)[Len(s) + 1] = x /\ (s \o <<x, y>>)[Len(s) + 2] = y
<1>1. <<x, y>> \in Seq(S) /\ Len(<<x, y>>) = 2 /\ <<x, y>>[1] = x /\ <<x, y>>[2] = y
  OBVIOUS
<1> DEFINE t == <<x, y>>
<1> HIDE DEF t
<1>2. /\ s \o t \in Seq(S) /\ Len(s \o t) = Len(s) + 2
      /\ \A i \in 1 .. Len(s) : (s \o t)[i] = s[i]
      /\ \A i \in 1 .. 2 : (s \o t)[Len(s) + i] = t[i]
  BY <1>1, Longer DEF t
<1> QED BY <1>1, <1>2 DEF t

\* with three more,
LEMMA LongerByThree ==
  ASSUME NEW S, NEW s \in Seq(S), NEW x \in S, NEW y \in S, NEW z \in S
  PROVE  /\ s \o <<x, y, z>> \in Seq(S) /\ Len(s \o <<x, y, z>>) = Len(s) + 3
         /\ \A i \in 1 .. Len(s) : (s \o <<x, y, z>>)[i] = s[i]
         /\ (s \o <<x, y, z>>)[Len(s) + 1] = x /\ (s \o <<x, y, z>>)[Len(s) + 2] = y
         /\ (s \o <<x, y, z>>)[Len(s) + 3] = z
<1>1. /\ <<x, y, z>> \in Seq(S) /\ Len(<<x, y, z>>) = 3
      /\ <<x, y, z>>[1] = x /\ <<x, y, z>>[2] = y /\ <<x, y, z>>[3] = z
  OBVIOUS
<1> DEFINE t == <<x, y, z>>
<1> HIDE DEF t
<1>2. /\ s \o t \in Seq(S) /\ Len(s \o t) = Len(s) + 3
      /\ \A i \in 1 .. Len(s) : (s \o t)[i] = s[i]
      /\ \A i \in 1 .. 3 : (s \o t)[Len(s) + i] = t[i]
  BY <1>1, Longer DEF t
<1> QED BY <1>1, <1>2 DEF t

\* and with one more.
LEMMA LongerByOne ==
  ASSUME NEW S, NEW s \in Seq(S), NEW x \in S
  PROVE  /\ s \o <<x>> \in Seq(S) /\ Len(s \o <<x>>) = Len(s) + 1
         /\ \A i \in 1 .. Len(s) : (s \o <<x>>)[i] = s[i]
         /\ (s \o <<x>>)[Len(s) + 1] = x
<1>1. <<x>> \in Seq(S) /\ Len(<<x>>) = 1 /\ <<x>>[1] = x
  OBVIOUS
<1> DEFINE t == <<x>>
<1> HIDE DEF t
<1>2. /\ s \o t \in Seq(S) /\ Len(s \o t) = Len(s) + 1
      /\ \A i \in 1 .. Len(s) : (s \o t)[i] = s[i]
      /\ \A i \in 1 .. 1 : (s \o t)[Len(s) + i] = t[i]
  BY <1>1, Longer DEF t
<1> QED BY <1>1, <1>2 DEF t

\* No two resources are one.
LEMMA NamesApart ==
  /\ \A x, y : Heap(x) # Comm(y) /\ Heap(x) # Plan(y) /\ Comm(x) # Plan(y)
  /\ \A x, y : /\ Heap(x) = Heap(y) => x = y
               /\ Comm(x) = Comm(y) => x = y
               /\ Plan(x) = Plan(y) => x = y
  /\ \A x : Heap(x) # Nothing /\ Comm(x) # Nothing /\ Plan(x) # Nothing
BY DEF Heap, Comm, Plan, Nothing

\* What the code acquires is among the resources.
LEMMA ResourcesAre ==
  \A t \in {"grid", "problem", "plan", "g", "A", "B", "bA", "bB", "fB", "fA"} :
    Heap(t) \in Resources /\ Comm(t) \in Resources /\ Plan(t) \in Resources
BY DEF Comm, Heap, Plan, Resources, Transposes

\* A transpose adds its communicator and its memory to a list of parts.
LEMMA PairAdded ==
  ASSUME NEW s \in Seq(Resources), NEW t \in Transposes
  PROVE  LET u == s \o TransposeParts(t)
         IN  /\ u \in Seq(Resources) /\ Len(u) = Len(s) + 2
             /\ \A i \in 1 .. Len(s) : u[i] = s[i]
             /\ u[Len(s) + 1] = Comm(t) /\ u[Len(s) + 2] = Heap(t)
<1>1. Comm(t) \in Resources /\ Heap(t) \in Resources
  BY ResourcesAre DEF Transposes
<1> QED BY <1>1, LongerByTwo DEF TransposeParts

\* The parts that the destroy functions give back, one by one.
LEMMA PartsAre ==
  /\ GridParts = << Comm("g"), Comm("A"), Comm("B"), Heap("grid") >>
  /\ ProblemParts \in Seq(Resources) /\ Len(ProblemParts) = 9
  /\ ProblemParts[1] = Comm("bA") /\ ProblemParts[2] = Heap("bA")
  /\ ProblemParts[3] = Comm("bB") /\ ProblemParts[4] = Heap("bB")
  /\ ProblemParts[5] = Comm("fB") /\ ProblemParts[6] = Heap("fB")
  /\ ProblemParts[7] = Comm("fA") /\ ProblemParts[8] = Heap("fA")
  /\ ProblemParts[9] = Heap("problem")
  /\ PlanParts = << Plan("bA"), Plan("bB"), Plan("fA"), Plan("fB"), Heap("plan") >>
<1> DEFINE p1 == TransposeParts("bA")
           p2 == p1 \o TransposeParts("bB")
           p3 == p2 \o TransposeParts("fB")
           p4 == p3 \o TransposeParts("fA")
           p5 == p4 \o << Heap("problem") >>
<1>1. p1 \in Seq(Resources) /\ Len(p1) = 2 /\ p1[1] = Comm("bA") /\ p1[2] = Heap("bA")
  BY ResourcesAre DEF TransposeParts
<1> HIDE DEF p1
<1>2. /\ p2 \in Seq(Resources) /\ Len(p2) = 4 /\ \A i \in 1 .. 2 : p2[i] = p1[i]
      /\ p2[3] = Comm("bB") /\ p2[4] = Heap("bB")
  <2>1. "bB" \in Transposes
    BY DEF Transposes
  <2>2. /\ p2 \in Seq(Resources) /\ Len(p2) = Len(p1) + 2
        /\ \A i \in 1 .. Len(p1) : p2[i] = p1[i]
        /\ p2[Len(p1) + 1] = Comm("bB") /\ p2[Len(p1) + 2] = Heap("bB")
    BY <1>1, <2>1, PairAdded
  <2> HIDE DEF p2
  <2> QED BY <1>1, <2>2
<1> HIDE DEF p2
<1>3. /\ p3 \in Seq(Resources) /\ Len(p3) = 6 /\ \A i \in 1 .. 4 : p3[i] = p2[i]
      /\ p3[5] = Comm("fB") /\ p3[6] = Heap("fB")
  <2>1. "fB" \in Transposes
    BY DEF Transposes
  <2>2. /\ p3 \in Seq(Resources) /\ Len(p3) = Len(p2) + 2
        /\ \A i \in 1 .. Len(p2) : p3[i] = p2[i]
        /\ p3[Len(p2) + 1] = Comm("fB") /\ p3[Len(p2) + 2] = Heap("fB")
    BY <1>2, <2>1, PairAdded
  <2> HIDE DEF p3
  <2> QED BY <1>2, <2>2
<1> HIDE DEF p3
<1>4. /\ p4 \in Seq(Resources) /\ Len(p4) = 8 /\ \A i \in 1 .. 6 : p4[i] = p3[i]
      /\ p4[7] = Comm("fA") /\ p4[8] = Heap("fA")
  <2>1. "fA" \in Transposes
    BY DEF Transposes
  <2>2. /\ p4 \in Seq(Resources) /\ Len(p4) = Len(p3) + 2
        /\ \A i \in 1 .. Len(p3) : p4[i] = p3[i]
        /\ p4[Len(p3) + 1] = Comm("fA") /\ p4[Len(p3) + 2] = Heap("fA")
    BY <1>3, <2>1, PairAdded
  <2> HIDE DEF p4
  <2> QED BY <1>3, <2>2
<1> HIDE DEF p4
<1>5. /\ p5 \in Seq(Resources) /\ Len(p5) = 9 /\ \A i \in 1 .. 8 : p5[i] = p4[i]
      /\ p5[9] = Heap("problem")
  <2>1. Heap("problem") \in Resources
    BY ResourcesAre
  <2>2. /\ p5 \in Seq(Resources) /\ Len(p5) = Len(p4) + 1
        /\ \A i \in 1 .. Len(p4) : p5[i] = p4[i]
        /\ p5[Len(p4) + 1] = Heap("problem")
    <3>1. p4 \in Seq(Resources) /\ Len(p4) = 8
      BY <1>4
    <3> QED BY <2>1, <3>1, LongerByOne
  <2> HIDE DEF p5
  <2> QED BY <1>4, <2>2
<1>6. ProblemParts = p5
  BY DEF ProblemParts, p1, p2, p3, p4
<1> HIDE DEF p5
<1>7. p5[1] = p1[1] /\ p5[2] = p1[2]
  BY <1>2, <1>3, <1>4, <1>5
<1>8. p5[3] = p2[3] /\ p5[4] = p2[4] /\ p5[5] = p3[5] /\ p5[6] = p3[6]
  BY <1>3, <1>4, <1>5
<1>9. p5[7] = p4[7] /\ p5[8] = p4[8]
  BY <1>5
<1> QED BY <1>1, <1>2, <1>3, <1>4, <1>5, <1>6, <1>7, <1>8, <1>9 DEF GridParts, PlanParts

\* The parts that make up a whole object.
LEMMA PartsOfAre ==
  /\ PartsOf("grid") = {Comm("g"), Comm("A"), Comm("B"), Heap("grid")}
  /\ PartsOf("problem") = {Comm("bA"), Heap("bA"), Comm("bB"), Heap("bB"), Comm("fB"),
                           Heap("fB"), Comm("fA"), Heap("fA"), Heap("problem")}
  /\ PartsOf("plan") = {Plan("bA"), Plan("bB"), Plan("fA"), Plan("fB"), Heap("plan")}
<1>1. ToSet(GridParts) = {Comm("g"), Comm("A"), Comm("B"), Heap("grid")}
  BY PartsAre DEF ToSet
<1>2. ToSet(ProblemParts) = {Comm("bA"), Heap("bA"), Comm("bB"), Heap("bB"), Comm("fB"),
                             Heap("fB"), Comm("fA"), Heap("fA"), Heap("problem")}
  <2>1. ToSet(ProblemParts) = {ProblemParts[i] : i \in 1 .. 9}
    BY PartsAre DEF ToSet
  <2>2. 1 .. 9 = {1, 2, 3, 4, 5, 6, 7, 8, 9}
    OBVIOUS
  <2> QED BY <2>1, <2>2, PartsAre
<1>3. ToSet(PlanParts) = {Plan("bA"), Plan("bB"), Plan("fA"), Plan("fB"), Heap("plan")}
  BY PartsAre DEF ToSet
<1> QED BY <1>1, <1>2, <1>3 DEF PartsOf

\* Objects share no resource.
LEMMA PartsApart ==
  /\ \A o \in Objects : PartsOf(o) \subseteq Resources
  /\ \A o, x \in Objects : o # x => PartsOf(o) \cap PartsOf(x) = {}
  /\ Nothing \notin Resources
<1>2. /\ PartsOf("grid") \subseteq Resources /\ PartsOf("problem") \subseteq Resources
      /\ PartsOf("plan") \subseteq Resources
  BY ResourcesAre, PartsOfAre
<1>4. PartsOf("grid") \cap PartsOf("problem") = {}
  BY PartsOfAre, NamesApart
<1>5. PartsOf("grid") \cap PartsOf("plan") = {} /\ PartsOf("problem") \cap PartsOf("plan") = {}
  BY PartsOfAre, NamesApart
<1>6. Nothing \notin Resources
  BY DEF Nothing, Resources, Transposes
<1> QED BY <1>2, <1>4, <1>5, <1>6 DEF Objects

\* Freeing a resource takes the communicator itself, if it is one.
LEMMA FreeFacts ==
  ASSUME NEW res \in Resources
  PROVE  /\ Free(res).do = "free" /\ Free(res).res = res
         /\ Free(res) # Skip /\ Skip.on = "self" /\ Skip.do = "skip"
         /\ Free(res).on # "self" => res = Comm(Free(res).on)
<1>1. Free(res) = [do |-> "free", on |-> IF res[1] = "comm" THEN res[2] ELSE "self", res |-> res]
  BY DEF Free, Step
<1>2. Skip = [do |-> "skip", on |-> "self", res |-> Nothing]
  BY DEF Skip, Local, Step
<1>3. Free(res).do # Skip.do
  BY <1>1, <1>2
<1>4. res = <<res[1], res[2]>>
  BY DEF Resources
<1> QED BY <1>1, <1>2, <1>3, <1>4 DEF Comm

---------------------------------------------------------------------------
(* Creations.                                                              *)

\* Where a sequence has come to an element, it has that one next.
LEMMA RestNext ==
  ASSUME NEW S, NEW c \in Seq(S), NEW k \in 1 .. Len(c)
  PROVE  /\ SubSeq(c, k, Len(c)) # <<>> /\ Head(SubSeq(c, k, Len(c))) = c[k]
         /\ Tail(SubSeq(c, k, Len(c))) = SubSeq(c, k + 1, Len(c))
         /\ k = Len(c) => Tail(SubSeq(c, k, Len(c))) = <<>>
<1>1. Len(c) \in k .. Len(c) /\ Len(c) \in Int /\ k \in Int
  OBVIOUS
<1>2. \A i \in k .. Len(c) : c[i] \in S
  BY <1>1
<1>3. SubSeq(c, k, Len(c)) \in Seq(S) /\ Len(SubSeq(c, k, Len(c))) > 0
  BY <1>1, <1>2, SubSeqProperties
<1>4. k = Len(c) => SubSeq(c, k + 1, Len(c)) = <<>>
  BY <1>1, SubSeqEmpty
<1>5. /\ Head(SubSeq(c, k, Len(c))) = c[k]
      /\ Tail(SubSeq(c, k, Len(c))) = SubSeq(c, k + 1, Len(c))
  BY <1>1, HeadTailOfSubSeq
<1>6. \A s \in Seq(S) : Len(s) > 0 => s # <<>>
  OBVIOUS
<1> QED BY <1>3, <1>4, <1>5, <1>6

\* What is made grows by what a step acquires.
LEMMA MadeNext ==
  ASSUME NEW c, NEW k \in Nat \ {0}
  PROVE  /\ Made(c, 1) = {}
         /\ Made(c, k + 1) = Made(c, k) \cup (IF Acquires(c[k]) THEN {c[k].res} ELSE {})
<1>1. 1 .. (k + 1) - 1 = (1 .. k - 1) \cup {k}
  OBVIOUS
<1> QED BY <1>1 DEF Made

\* What a step of a creation acquires has been made once the step is done.
LEMMA MadeHas ==
  ASSUME NEW c, NEW k \in Nat, NEW i \in 1 .. k - 1, Acquires(c[i])
  PROVE  c[i].res \in Made(c, k)
BY DEF Made

AllSteps ==
  [do : {"alloc", "shape", "cart", "sub", "rank", "name", "bcast", "dup", "plan", "noplan",
         "return"},
   on : {"self"} \cup Communicators, res : Resources \cup {Nothing}]

\* A creation acquires all parts of its object and nothing else, each collective
\* on a communicator that is there by then; it returns when it has all.
Sound(c, o, base) ==
  /\ c \in Seq(AllSteps) /\ Len(c) > 0
  /\ \A j \in 1 .. Len(c) :
       /\ Acquires(c[j]) => c[j].res \in PartsOf(o)
       /\ c[j].do = "return" <=> j = Len(c)
       /\ c[j].on \in {"self", "world"} \/ Comm(c[j].on) \in base \cup Made(c, j)
  /\ c[Len(c)].res[2] = o
  /\ Made(c, Len(c)) = PartsOf(o)

\* underling_grid_create makes all of a grid, each part once, in an order in
\* which each step finds what it works on.
LEMMA GridCreateSound ==
  /\ Sound(GridCreate, "grid", {})
  /\ \A j \in 1 .. Len(GridCreate) : /\ GridCreate[j].do = "shape" <=> j = 2
                                     /\ GridCreate[j].do # "plan"
<1> DEFINE c == GridCreate
<1>1. c = << [do |-> "alloc", on |-> "self", res |-> Heap("grid")],
             [do |-> "shape", on |-> "self", res |-> Nothing],
             [do |-> "cart", on |-> "world", res |-> Comm("g")],
             [do |-> "sub", on |-> "g", res |-> Comm("A")],
             [do |-> "rank", on |-> "self", res |-> Nothing],
             [do |-> "sub", on |-> "g", res |-> Comm("B")],
             [do |-> "rank", on |-> "self", res |-> Nothing],
             [do |-> "name", on |-> "self", res |-> Nothing],
             [do |-> "return", on |-> "self", res |-> Heap("grid")] >>
  BY DEF GridCreate, Local, Step
<1>2. c \in Seq(AllSteps) /\ Len(c) = 9
  BY <1>1, ResourcesAre DEF AllSteps, Communicators
<1> HIDE DEF c
<1>3. /\ c[1].res \in Made(c, 9) /\ c[3].res \in Made(c, 9) /\ c[4].res \in Made(c, 9)
      /\ c[6].res \in Made(c, 9)
      /\ c[3].res \in Made(c, 4) /\ c[3].res \in Made(c, 6)
  BY <1>1, MadeHas DEF Acquires
<1>4. /\ c[1].res = Heap("grid") /\ c[3].res = Comm("g") /\ c[4].res = Comm("A")
      /\ c[6].res = Comm("B")
  BY <1>1
<1>5. PartsOf("grid") \subseteq Made(c, 9)
  BY <1>3, <1>4, PartsOfAre
<1>6. \A j \in 1 .. 9 : Acquires(c[j]) => c[j].res \in PartsOf("grid")
  BY <1>1, PartsOfAre DEF Acquires
<1>7. Made(c, 9) \subseteq PartsOf("grid")
  BY <1>6 DEF Made
<1>8. \A j \in 1 .. 9 : /\ c[j].do = "return" <=> j = 9
                        /\ c[j].do = "shape" <=> j = 2
                        /\ c[j].do # "plan"
  BY <1>1
<1>9. \A j \in 1 .. 9 : c[j].on \in {"self", "world"} \/ Comm(c[j].on) \in Made(c, j)
  BY <1>1, <1>3, <1>4
<1>10. c[9].res[2] = "grid"
  BY <1>1 DEF Heap
<1>11. Sound(c, "grid", {})
  BY <1>2, <1>5, <1>6, <1>7, <1>8, <1>9, <1>10 DEF Sound
<1> QED BY <1>2, <1>8, <1>11 DEF c

\* underling_plan_create does so for a plan, whatever the rank needs.
LEMMA PlanCreateSound ==
  ASSUME NEW r
  PROVE  LET c == PlanCreate(r)
         IN  /\ Sound(c, "plan", PartsOf("problem"))
             /\ \A j \in 1 .. Len(c) : c[j].do # "shape"
<1> DEFINE c == PlanCreate(r)
<1>1. \A t : Planned(request, t)
  BY DEF Planned
<1>2. \A t : \/ PlanStep(r, t) = [do |-> "noplan", on |-> "self", res |-> Plan(t)]
             \/ PlanStep(r, t) = [do |-> "plan", on |-> t, res |-> Plan(t)]
  BY <1>1 DEF PlanStep, Local, Step
<1>3. c = << [do |-> "alloc", on |-> "self", res |-> Heap("plan")],
             PlanStep(r, "bA"), PlanStep(r, "bB"), PlanStep(r, "fB"), PlanStep(r, "fA"),
             [do |-> "return", on |-> "self", res |-> Heap("plan")] >>
  BY DEF PlanCreate, Local, Step
<1>4. \A t \in Transposes : PlanStep(r, t) \in AllSteps
  BY <1>2, ResourcesAre DEF AllSteps, Communicators, Transposes
<1>5. c \in Seq(AllSteps) /\ Len(c) = 6
  <2>1. c[1] \in AllSteps /\ c[6] \in AllSteps
    BY <1>3, ResourcesAre DEF AllSteps
  <2> QED BY <1>3, <1>4, <2>1 DEF Transposes
<1>6. \A t : /\ PlanStep(r, t).res = Plan(t) /\ Acquires(PlanStep(r, t))
             /\ PlanStep(r, t).do # "return" /\ PlanStep(r, t).do # "shape"
             /\ PlanStep(r, t).on = "self" \/ PlanStep(r, t).on = t
  BY <1>2 DEF Acquires
<1>7. /\ c[1].res = Heap("plan") /\ c[1].do = "alloc" /\ c[1].on = "self" /\ Acquires(c[1])
      /\ c[2] = PlanStep(r, "bA") /\ c[3] = PlanStep(r, "bB")
      /\ c[4] = PlanStep(r, "fB") /\ c[5] = PlanStep(r, "fA")
      /\ c[6].res = Heap("plan") /\ c[6].do = "return" /\ c[6].on = "self" /\ ~Acquires(c[6])
  BY <1>3 DEF Acquires
<1> HIDE DEF c
<1>8. \A j \in 1 .. 5 : Acquires(c[j])
  BY <1>6, <1>7
<1>9. \A j \in 1 .. 5 : c[j].res \in Made(c, 6)
  BY <1>8, MadeHas
<1>10. /\ c[2].res = Plan("bA") /\ c[3].res = Plan("bB") /\ c[4].res = Plan("fB")
       /\ c[5].res = Plan("fA")
  BY <1>6, <1>7
<1>11. PartsOf("plan") \subseteq Made(c, 6)
  <2>1. /\ c[1].res \in Made(c, 6) /\ c[2].res \in Made(c, 6) /\ c[3].res \in Made(c, 6)
        /\ c[4].res \in Made(c, 6) /\ c[5].res \in Made(c, 6)
    BY <1>9
  <2> QED BY <2>1, <1>7, <1>10, PartsOfAre
<1>12. \A j \in 1 .. 6 : Acquires(c[j]) => c[j].res \in PartsOf("plan")
  BY <1>7, <1>10, PartsOfAre
<1>13. Made(c, 6) \subseteq PartsOf("plan")
  BY <1>12 DEF Made
<1>14. \A j \in 1 .. 6 : c[j].on = "self" \/ Comm(c[j].on) \in PartsOf("problem")
  <2>1. \A t \in Transposes : Comm(t) \in PartsOf("problem")
    BY PartsOfAre DEF Transposes
  <2> QED BY <2>1, <1>6, <1>7 DEF Transposes
<1>15. \A j \in 1 .. 6 : (c[j].do = "return" <=> j = 6) /\ c[j].do # "shape"
  BY <1>6, <1>7
<1>16. c[6].res[2] = "plan"
  BY <1>7 DEF Heap
<1>17. Sound(c, "plan", PartsOf("problem"))
  BY <1>5, <1>11, <1>12, <1>13, <1>14, <1>15, <1>16 DEF Sound
<1> QED BY <1>5, <1>15, <1>17 DEF c

\* underling_transpose_create's three steps, at the end of a program.
LEMMA TransposeCreateAdded ==
  ASSUME NEW s \in Seq(AllSteps), NEW t \in Transposes, NEW parent \in Communicators
  PROVE  LET u == s \o TransposeCreate(t, parent)
             n == Len(s)
         IN  /\ u \in Seq(AllSteps) /\ Len(u) = n + 3
             /\ \A i \in 1 .. n : u[i] = s[i]
             /\ u[n + 1] = Local("alloc", Heap(t)) /\ u[n + 2] = Step("dup", parent, Comm(t))
             /\ u[n + 3] = Local("name", Comm(t))
<1>1. Comm(t) \in Resources /\ Heap(t) \in Resources
  BY ResourcesAre DEF Transposes
<1>2. /\ Local("alloc", Heap(t)) \in AllSteps /\ Local("name", Comm(t)) \in AllSteps
      /\ Step("dup", parent, Comm(t)) \in AllSteps
  BY <1>1 DEF Local, Step, AllSteps
<1> QED BY <1>2, LongerByThree DEF TransposeCreate

\* The sixteen steps of underling_problem_create.
LEMMA ProblemCreateIs ==
  LET c == ProblemCreate
  IN  /\ c \in Seq(AllSteps) /\ Len(c) = 16
      /\ c[1] = Local("alloc", Heap("problem")) /\ c[2] = Step("bcast", "A", Nothing)
      /\ c[3] = Step("bcast", "B", Nothing)     /\ c[4] = Local("alloc", Heap("bA"))
      /\ c[5] = Step("dup", "A", Comm("bA"))    /\ c[6] = Local("name", Comm("bA"))
      /\ c[7] = Local("alloc", Heap("bB"))      /\ c[8] = Step("dup", "B", Comm("bB"))
      /\ c[9] = Local("name", Comm("bB"))       /\ c[10] = Local("alloc", Heap("fB"))
      /\ c[11] = Step("dup", "bB", Comm("fB"))  /\ c[12] = Local("name", Comm("fB"))
      /\ c[13] = Local("alloc", Heap("fA"))     /\ c[14] = Step("dup", "bA", Comm("fA"))
      /\ c[15] = Local("name", Comm("fA"))      /\ c[16] = Local("return", Heap("problem"))
<1> DEFINE p0 == << Local("alloc", Heap("problem")),
                    Step("bcast", "A", Nothing), Step("bcast", "B", Nothing) >>
           p1 == p0 \o TransposeCreate("bA", "A")
           p2 == p1 \o TransposeCreate("bB", "B")
           p3 == p2 \o TransposeCreate("fB", "bB")
           p4 == p3 \o TransposeCreate("fA", "bA")
           p5 == p4 \o << Local("return", Heap("problem")) >>
<1>1. /\ "bA" \in Transposes /\ "bB" \in Transposes /\ "fB" \in Transposes
      /\ "fA" \in Transposes /\ "A" \in Communicators /\ "B" \in Communicators
      /\ "bA" \in Communicators /\ "bB" \in Communicators
  BY DEF Transposes, Communicators
<1>2. /\ p0 \in Seq(AllSteps) /\ Len(p0) = 3
      /\ p0[1] = Local("alloc", Heap("problem")) /\ p0[2] = Step("bcast", "A", Nothing)
      /\ p0[3] = Step("bcast", "B", Nothing)
  <2>1. /\ Local("alloc", Heap("problem")) \in AllSteps
        /\ Step("bcast", "A", Nothing) \in AllSteps /\ Step("bcast", "B", Nothing) \in AllSteps
    BY <1>1, ResourcesAre DEF Local, Step, AllSteps
  <2> QED BY <2>1
<1> HIDE DEF p0
<1>3. /\ p1 \in Seq(AllSteps) /\ Len(p1) = 6
      /\ \A i \in 1 .. 3 : p1[i] = p0[i]
      /\ p1[4] = Local("alloc", Heap("bA"))
      /\ p1[5] = Step("dup", "A", Comm("bA"))
      /\ p1[6] = Local("name", Comm("bA"))
  <2>1. /\ p1 \in Seq(AllSteps) /\ Len(p1) = Len(p0) + 3
        /\ \A i \in 1 .. Len(p0) : p1[i] = p0[i]
        /\ p1[Len(p0) + 1] = Local("alloc", Heap("bA"))
        /\ p1[Len(p0) + 2] = Step("dup", "A", Comm("bA"))
        /\ p1[Len(p0) + 3] = Local("name", Comm("bA"))
    BY <1>1, <1>2, TransposeCreateAdded
  <2> HIDE DEF p1
  <2> QED BY <1>2, <2>1
<1> HIDE DEF p1
<1>4. /\ p2 \in Seq(AllSteps) /\ Len(p2) = 9
      /\ \A i \in 1 .. 6 : p2[i] = p1[i]
      /\ p2[7] = Local("alloc", Heap("bB"))
      /\ p2[8] = Step("dup", "B", Comm("bB"))
      /\ p2[9] = Local("name", Comm("bB"))
  <2>1. /\ p2 \in Seq(AllSteps) /\ Len(p2) = Len(p1) + 3
        /\ \A i \in 1 .. Len(p1) : p2[i] = p1[i]
        /\ p2[Len(p1) + 1] = Local("alloc", Heap("bB"))
        /\ p2[Len(p1) + 2] = Step("dup", "B", Comm("bB"))
        /\ p2[Len(p1) + 3] = Local("name", Comm("bB"))
    <3>1. p1 \in Seq(AllSteps)
      BY <1>3
    <3> QED BY <1>1, <3>1, TransposeCreateAdded
  <2> HIDE DEF p2
  <2> QED BY <1>3, <2>1
<1> HIDE DEF p2
<1>5. /\ p3 \in Seq(AllSteps) /\ Len(p3) = 12
      /\ \A i \in 1 .. 9 : p3[i] = p2[i]
      /\ p3[10] = Local("alloc", Heap("fB"))
      /\ p3[11] = Step("dup", "bB", Comm("fB"))
      /\ p3[12] = Local("name", Comm("fB"))
  <2>1. /\ p3 \in Seq(AllSteps) /\ Len(p3) = Len(p2) + 3
        /\ \A i \in 1 .. Len(p2) : p3[i] = p2[i]
        /\ p3[Len(p2) + 1] = Local("alloc", Heap("fB"))
        /\ p3[Len(p2) + 2] = Step("dup", "bB", Comm("fB"))
        /\ p3[Len(p2) + 3] = Local("name", Comm("fB"))
    <3>1. p2 \in Seq(AllSteps)
      BY <1>4
    <3> QED BY <1>1, <3>1, TransposeCreateAdded
  <2> HIDE DEF p3
  <2> QED BY <1>4, <2>1
<1> HIDE DEF p3
<1>6. /\ p4 \in Seq(AllSteps) /\ Len(p4) = 15
      /\ \A i \in 1 .. 12 : p4[i] = p3[i]
      /\ p4[13] = Local("alloc", Heap("fA"))
      /\ p4[14] = Step("dup", "bA", Comm("fA"))
      /\ p4[15] = Local("name", Comm("fA"))
  <2>1. /\ p4 \in Seq(AllSteps) /\ Len(p4) = Len(p3) + 3
        /\ \A i \in 1 .. Len(p3) : p4[i] = p3[i]
        /\ p4[Len(p3) + 1] = Local("alloc", Heap("fA"))
        /\ p4[Len(p3) + 2] = Step("dup", "bA", Comm("fA"))
        /\ p4[Len(p3) + 3] = Local("name", Comm("fA"))
    <3>1. p3 \in Seq(AllSteps) /\ "fA" \in Transposes /\ "bA" \in Communicators
      BY <1>1, <1>5
    <3> QED BY <3>1, TransposeCreateAdded
  <2> HIDE DEF p4
  <2> QED BY <1>5, <2>1
<1> HIDE DEF p4
<1>7. /\ p5 \in Seq(AllSteps) /\ Len(p5) = 16
      /\ \A i \in 1 .. 15 : p5[i] = p4[i]
      /\ p5[16] = Local("return", Heap("problem"))
  <2>1. Local("return", Heap("problem")) \in AllSteps
    BY ResourcesAre DEF Local, Step, AllSteps
  <2>2. /\ p5 \in Seq(AllSteps) /\ Len(p5) = Len(p4) + 1
        /\ \A i \in 1 .. Len(p4) : p5[i] = p4[i]
        /\ p5[Len(p4) + 1] = Local("return", Heap("problem"))
    <3>1. p4 \in Seq(AllSteps)
      BY <1>6
    <3> QED BY <2>1, <3>1, LongerByOne
  <2> HIDE DEF p5
  <2> QED BY <1>6, <2>2
<1>8. ProblemCreate = p5
  BY DEF ProblemCreate, p0, p1, p2, p3, p4
<1> HIDE DEF p5
<1>9. \A i \in 1 .. 3 : p5[i] = p0[i]
  BY <1>3, <1>4, <1>5, <1>6, <1>7, SMTT(20)
<1>10. \A i \in 4 .. 6 : p5[i] = p1[i]
  BY <1>4, <1>5, <1>6, <1>7, SMTT(20)
<1>11. \A i \in 7 .. 9 : p5[i] = p2[i]
  BY <1>5, <1>6, <1>7
<1>12. \A i \in 10 .. 12 : p5[i] = p3[i]
  BY <1>6, <1>7
<1>13. \A i \in 13 .. 15 : p5[i] = p4[i]
  BY <1>7
<1>14. /\ p5[4] = Local("alloc", Heap("bA")) /\ p5[5] = Step("dup", "A", Comm("bA"))
       /\ p5[6] = Local("name", Comm("bA"))
  BY <1>3, <1>10
<1>15. /\ p5[7] = Local("alloc", Heap("bB")) /\ p5[8] = Step("dup", "B", Comm("bB"))
       /\ p5[9] = Local("name", Comm("bB"))
  BY <1>4, <1>11
<1>16. /\ p5[10] = Local("alloc", Heap("fB")) /\ p5[11] = Step("dup", "bB", Comm("fB"))
       /\ p5[12] = Local("name", Comm("fB"))
  BY <1>5, <1>12
<1>17. /\ p5[13] = Local("alloc", Heap("fA")) /\ p5[14] = Step("dup", "bA", Comm("fA"))
       /\ p5[15] = Local("name", Comm("fA"))
  BY <1>6, <1>13
<1> QED BY <1>2, <1>7, <1>8, <1>9, <1>14, <1>15, <1>16, <1>17

\* A step that may fail is about one transpose, unless there is nothing yet but
\* the block of the problem.
LEMMA ProblemCreateSound ==
  LET c == ProblemCreate
  IN  /\ Sound(c, "problem", PartsOf("grid"))
      /\ \A j \in 1 .. Len(c) :
           /\ c[j].do # "shape" /\ c[j].do # "plan"
           /\ c[j].do # "return" =>
                \/ /\ c[j].do = "bcast" \/ c[j].res = Heap("problem")
                   /\ Made(c, j) \subseteq {Heap("problem")}
                   /\ c[j].res = Heap("problem") => Made(c, j) = {}
                \/ /\ c[j].do # "bcast" /\ c[j].res # Heap("problem")
                   /\ c[j].res[2] \in Transposes
<1> DEFINE c == ProblemCreate
<1>1. /\ c \in Seq(AllSteps) /\ Len(c) = 16
      /\ c[1] = [do |-> "alloc", on |-> "self", res |-> Heap("problem")]
      /\ c[2] = [do |-> "bcast", on |-> "A", res |-> Nothing]
      /\ c[3] = [do |-> "bcast", on |-> "B", res |-> Nothing]
      /\ c[4] = [do |-> "alloc", on |-> "self", res |-> Heap("bA")]
      /\ c[5] = [do |-> "dup", on |-> "A", res |-> Comm("bA")]
      /\ c[6] = [do |-> "name", on |-> "self", res |-> Comm("bA")]
      /\ c[7] = [do |-> "alloc", on |-> "self", res |-> Heap("bB")]
      /\ c[8] = [do |-> "dup", on |-> "B", res |-> Comm("bB")]
      /\ c[9] = [do |-> "name", on |-> "self", res |-> Comm("bB")]
      /\ c[10] = [do |-> "alloc", on |-> "self", res |-> Heap("fB")]
      /\ c[11] = [do |-> "dup", on |-> "bB", res |-> Comm("fB")]
      /\ c[12] = [do |-> "name", on |-> "self", res |-> Comm("fB")]
      /\ c[13] = [do |-> "alloc", on |-> "self", res |-> Heap("fA")]
      /\ c[14] = [do |-> "dup", on |-> "bA", res |-> Comm("fA")]
      /\ c[15] = [do |-> "name", on |-> "self", res |-> Comm("fA")]
      /\ c[16] = [do |-> "return", on |-> "self", res |-> Heap("problem")]
  BY ProblemCreateIs DEF Local, Step
<1> HIDE DEF c
<1>2. /\ Acquires(c[1]) /\ Acquires(c[4]) /\ Acquires(c[5]) /\ Acquires(c[7])
      /\ Acquires(c[8]) /\ Acquires(c[10]) /\ Acquires(c[11]) /\ Acquires(c[13])
      /\ Acquires(c[14]) /\ ~Acquires(c[2])
  BY <1>1 DEF Acquires
<1>3. /\ c[1].res \in Made(c, 16) /\ c[4].res \in Made(c, 16) /\ c[5].res \in Made(c, 16)
      /\ c[7].res \in Made(c, 16) /\ c[8].res \in Made(c, 16) /\ c[10].res \in Made(c, 16)
      /\ c[11].res \in Made(c, 16) /\ c[13].res \in Made(c, 16) /\ c[14].res \in Made(c, 16)
      /\ c[8].res \in Made(c, 11) /\ c[5].res \in Made(c, 14)
  BY <1>2, MadeHas
<1>4. PartsOf("problem") \subseteq Made(c, 16)
  <2>1. PartsOf("problem") \subseteq
          {c[1].res, c[4].res, c[5].res, c[7].res, c[8].res, c[10].res, c[11].res, c[13].res,
           c[14].res}
    BY <1>1, PartsOfAre
  <2> QED BY <1>3, <2>1
<1>5. \A j \in 1 .. 16 : Acquires(c[j]) => c[j].res \in PartsOf("problem")
  BY <1>1, PartsOfAre DEF Acquires
<1>6. Made(c, 16) \subseteq PartsOf("problem")
  BY <1>5 DEF Made
<1>7. \A j \in 1 .. 16 : /\ c[j].do = "return" <=> j = 16
                         /\ c[j].do # "shape" /\ c[j].do # "plan"
  BY <1>1
<1>8. \A j \in 1 .. 16 : \/ c[j].on \in {"self", "world"}
                         \/ Comm(c[j].on) \in PartsOf("grid") \cup Made(c, j)
  <2>1. Comm("A") \in PartsOf("grid") /\ Comm("B") \in PartsOf("grid")
    BY PartsOfAre
  <2>2. Comm("bB") \in Made(c, 11) /\ Comm("bA") \in Made(c, 14)
    BY <1>1, <1>3
  <2> QED BY <1>1, <2>1, <2>2
<1>9. c[16].res[2] = "problem"
  BY <1>1 DEF Heap
<1>10. Sound(c, "problem", PartsOf("grid"))
  BY <1>1, <1>4, <1>5, <1>6, <1>7, <1>8, <1>9 DEF Sound
<1>11. /\ Made(c, 1) = {} /\ Made(c, 2) = {Heap("problem")} /\ Made(c, 3) = {Heap("problem")}
  <2>1. /\ Made(c, 1) = {}
        /\ Made(c, 1 + 1) = Made(c, 1) \cup (IF Acquires(c[1]) THEN {c[1].res} ELSE {})
        /\ Made(c, 2 + 1) = Made(c, 2) \cup (IF Acquires(c[2]) THEN {c[2].res} ELSE {})
    BY MadeNext
  <2> QED BY <1>1, <1>2, <2>1
<1>12. \A j \in 4 .. 15 : /\ c[j].do # "bcast" /\ c[j].res # Heap("problem")
                          /\ c[j].res[2] \in Transposes
  <2>1. \A t : Heap(t)[2] = t /\ Comm(t)[2] = t
    BY DEF Heap, Comm
  <2>2. \A t \in Transposes : Heap(t) # Heap("problem") /\ Comm(t) # Heap("problem")
    BY NamesApart DEF Transposes
  <2>3. \A j \in 4 .. 15 : c[j].do # "bcast"
    BY <1>1
  <2>4. \A j \in 4 .. 15 : \E t \in Transposes : c[j].res = Heap(t) \/ c[j].res = Comm(t)
    BY <1>1 DEF Transposes
  <2> QED BY <2>1, <2>2, <2>3, <2>4
<1>13. ASSUME NEW j \in 1 .. 16, j # 16
       PROVE  \/ /\ c[j].do = "bcast" \/ c[j].res = Heap("problem")
                 /\ Made(c, j) \subseteq {Heap("problem")}
                 /\ c[j].res = Heap("problem") => Made(c, j) = {}
              \/ /\ c[j].do # "bcast" /\ c[j].res # Heap("problem")
                 /\ c[j].res[2] \in Transposes
  <2>1. j \in {1, 2, 3} \/ j \in 4 .. 15
    BY <1>13
  <2>2. /\ c[1].res = Heap("problem") /\ c[2].do = "bcast" /\ c[3].do = "bcast"
        /\ c[2].res # Heap("problem") /\ c[3].res # Heap("problem")
    BY <1>1, NamesApart
  <2> QED BY <1>11, <1>12, <2>1, <2>2
<1> QED BY <1>1, <1>7, <1>10, <1>13 DEF c

---------------------------------------------------------------------------
(* Destructions.                                                           *)

\* The list has each part of the object once, and otherwise Nothing.
Lists(parts, o) ==
  /\ parts \in Seq(PartsOf(o) \cup {Nothing})
  /\ \A i, j \in 1 .. Len(parts) : parts[i] # Nothing /\ parts[i] = parts[j] => i = j
  /\ \A res \in PartsOf(o) : \E i \in 1 .. Len(parts) : parts[i] = res

\* No part of a problem is listed twice.
LEMMA ProblemPartsDiffer ==
  \A i, j \in 1 .. 9 : ProblemParts[i] = ProblemParts[j] => i = j
<1>1. ASSUME NEW i \in {1, 3, 5, 7}, NEW j \in {1, 3, 5, 7}, ProblemParts[i] = ProblemParts[j]
      PROVE  i = j
  BY <1>1, PartsAre, NamesApart
<1>2. ASSUME NEW i \in {2, 4, 6, 8, 9}, NEW j \in {2, 4, 6, 8, 9},
             ProblemParts[i] = ProblemParts[j]
      PROVE  i = j
  BY <1>2, PartsAre, NamesApart
<1>3. ASSUME NEW i \in {1, 3, 5, 7}, NEW j \in {2, 4, 6, 8, 9}
      PROVE  ProblemParts[i] # ProblemParts[j]
  BY PartsAre, NamesApart
<1>4. 1 .. 9 = {1, 3, 5, 7} \cup {2, 4, 6, 8, 9}
  OBVIOUS
<1> QED BY <1>1, <1>2, <1>3, <1>4

\* The lists of parts hold exactly the parts of their objects.
LEMMA PartsListed ==
  Lists(GridParts, "grid") /\ Lists(ProblemParts, "problem") /\ Lists(PlanParts, "plan")
<1>1. Lists(GridParts, "grid")
  <2>1. GridParts \in Seq(PartsOf("grid") \cup {Nothing}) /\ Len(GridParts) = 4
    BY PartsAre, PartsOfAre
  <2>2. \A i, j \in 1 .. 4 : GridParts[i] = GridParts[j] => i = j
    BY PartsAre, NamesApart
  <2>3. \A res \in PartsOf("grid") : \E i \in 1 .. 4 : GridParts[i] = res
    BY PartsAre, PartsOfAre
  <2> QED BY <2>1, <2>2, <2>3 DEF Lists
<1>2. Lists(PlanParts, "plan")
  <2>1. PlanParts \in Seq(PartsOf("plan") \cup {Nothing}) /\ Len(PlanParts) = 5
    BY PartsAre, PartsOfAre
  <2>2. \A i, j \in 1 .. 5 : PlanParts[i] = PlanParts[j] => i = j
    BY PartsAre, NamesApart
  <2>3. \A res \in PartsOf("plan") : \E i \in 1 .. 5 : PlanParts[i] = res
    BY PartsAre, PartsOfAre
  <2> QED BY <2>1, <2>2, <2>3 DEF Lists
<1>3. Lists(ProblemParts, "problem")
  <2>1. \A i \in 1 .. 9 : ProblemParts[i] \in PartsOf("problem")
    BY PartsAre, PartsOfAre
  <2>2. ProblemParts \in Seq(PartsOf("problem") \cup {Nothing})
    <3>1. ProblemParts \in [1 .. 9 -> Resources]
      BY PartsAre, LenProperties
    <3>2. ProblemParts \in [1 .. 9 -> PartsOf("problem") \cup {Nothing}]
      BY <2>1, <3>1
    <3> QED BY <3>2, SeqDef
  <2>3. \A res \in PartsOf("problem") : \E i \in 1 .. 9 : ProblemParts[i] = res
    BY PartsAre, PartsOfAre
  <2> QED BY <2>2, <2>3, PartsAre, ProblemPartsDiffer DEF Lists
<1> QED BY <1>1, <1>2, <1>3

\* A transpose that could not be completed first, then all others.
LEMMA OthersListed ==
  ASSUME NEW t \in Transposes
  PROVE  LET own  == TransposeParts(t)
             rest == [k \in DOMAIN ProblemParts |->
                        IF ProblemParts[k] \in ToSet(own) THEN Nothing ELSE ProblemParts[k]]
         IN  Lists(own \o rest, "problem") /\ own \o rest # <<>>
<1> DEFINE own   == TransposeParts(t)
           rest  == [k \in DOMAIN ProblemParts |->
                       IF ProblemParts[k] \in ToSet(own) THEN Nothing ELSE ProblemParts[k]]
           S     == PartsOf("problem") \cup {Nothing}
           parts == own \o rest
<1>1. /\ ProblemParts \in Seq(S) /\ Len(ProblemParts) = 9
      /\ \A res \in PartsOf("problem") : \E i \in 1 .. 9 : ProblemParts[i] = res
      /\ \A i \in 1 .. 9 : ProblemParts[i] # Nothing
  <2>1. \A i \in 1 .. 9 : ProblemParts[i] # Nothing
    BY PartsAre, NamesApart
  <2> QED BY <2>1, PartsListed, PartsAre DEF Lists
<1>2. /\ own = << Comm(t), Heap(t) >> /\ ToSet(own) = {Comm(t), Heap(t)}
      /\ Comm(t) \in S /\ Heap(t) \in S /\ Comm(t) # Heap(t)
      /\ Comm(t) # Nothing /\ Heap(t) # Nothing
  BY NamesApart, PartsOfAre DEF TransposeParts, ToSet, Transposes
<1>3. own \in Seq(S) /\ Len(own) = 2 /\ own[1] = Comm(t) /\ own[2] = Heap(t)
  BY <1>2
<1>4. /\ rest \in Seq(S) /\ Len(rest) = 9
      /\ \A i \in 1 .. 9 : rest[i] = IF ProblemParts[i] \in {Comm(t), Heap(t)} THEN Nothing
                                     ELSE ProblemParts[i]
  <2>1. DOMAIN ProblemParts = 1 .. 9
    BY <1>1
  <2>2. \A i \in 1 .. 9 : ProblemParts[i] \in S
    BY PartsAre, PartsOfAre
  <2> QED BY <1>2, <2>1, <2>2
<1> HIDE DEF own, rest, S
<1>5. /\ parts \in Seq(S) /\ Len(parts) = Len(own) + Len(rest)
      /\ \A i \in 1 .. Len(own) : parts[i] = own[i]
      /\ \A i \in 1 .. Len(rest) : parts[Len(own) + i] = rest[i]
  <2>1. own \in Seq(S) /\ rest \in Seq(S)
    BY <1>3, <1>4
  <2> QED BY <2>1, Longer
<1> HIDE DEF parts
<1>6. /\ parts \in Seq(S) /\ Len(parts) = 11 /\ parts[1] = Comm(t) /\ parts[2] = Heap(t)
      /\ \A i \in 1 .. 9 : parts[2 + i] = rest[i]
  BY <1>3, <1>4, <1>5
<1>7. \A i \in 1 .. 11 : i = 1 \/ i = 2 \/ \E k \in 1 .. 9 : i = 2 + k
  <2>1. \A i \in 1 .. 11 : i = 1 \/ i = 2 \/ (i - 2 \in 1 .. 9 /\ i = 2 + (i - 2))
    OBVIOUS
  <2> QED BY <2>1
<1>8. ASSUME NEW i \in 1 .. 11, NEW j \in 1 .. 11, parts[i] # Nothing, parts[i] = parts[j]
      PROVE  i = j
  <2>1. \A k \in 1 .. 9 : rest[k] # Comm(t) /\ rest[k] # Heap(t)
    BY <1>2, <1>4
  <2>2. \A k, l \in 1 .. 9 : rest[k] # Nothing /\ rest[k] = rest[l] => k = l
    BY <1>4, ProblemPartsDiffer
  <2>3. CASE i \in {1, 2} /\ j \in {1, 2}
    BY <1>2, <1>6, <1>8, <2>3
  <2>4. CASE i \in {1, 2} /\ j \notin {1, 2}
    <3>1. PICK k \in 1 .. 9 : j = 2 + k
      BY <1>7, <2>4
    <3> QED BY <1>6, <1>8, <2>1, <2>4, <3>1
  <2>5. CASE i \notin {1, 2} /\ j \in {1, 2}
    <3>1. PICK k \in 1 .. 9 : i = 2 + k
      BY <1>7, <2>5
    <3> QED BY <1>6, <1>8, <2>1, <2>5, <3>1
  <2>6. CASE i \notin {1, 2} /\ j \notin {1, 2}
    <3>1. PICK k \in 1 .. 9 : i = 2 + k
      BY <1>7, <2>6
    <3>2. PICK l \in 1 .. 9 : j = 2 + l
      BY <1>7, <2>6
    <3> QED BY <1>6, <1>8, <2>2, <3>1, <3>2
  <2> QED BY <2>3, <2>4, <2>5, <2>6
<1>9. ASSUME NEW res \in PartsOf("problem")
      PROVE  \E i \in 1 .. 11 : parts[i] = res
  <2>1. PICK k \in 1 .. 9 : ProblemParts[k] = res
    BY <1>1
  <2>2. CASE res \in {Comm(t), Heap(t)}
    BY <1>6, <2>2
  <2>3. CASE res \notin {Comm(t), Heap(t)}
    <3>1. parts[2 + k] = res /\ 2 + k \in 1 .. 11
      BY <1>4, <1>6, <2>1, <2>3
    <3> QED BY <3>1
  <2> QED BY <2>2, <2>3
<1>10. Lists(parts, "problem") /\ parts # <<>>
  <2>1. parts # <<>>
    <3>1. Len(parts) # 0
      BY <1>6
    <3>2. Len(<<>>) = 0
      OBVIOUS
    <3> QED BY <3>1, <3>2, Zenon
  <2> QED BY <1>6, <1>8, <1>9, <2>1 DEF Lists, S
<1> QED BY <1>10 DEF parts, own, rest

\* Destroying gives back all that a rank has of an object, and nothing else.
LEMMA DestroyClears ==
  ASSUME NEW r, NEW o \in Objects, NEW parts, Lists(parts, o), parts # <<>>,
         Nothing \notin held[r]
  PROVE  Clears(Destroy(r, parts), Has(r, o)) /\ Destroy(r, parts) # <<>>
<1> DEFINE s == Destroy(r, parts)
           n == Len(parts)
<1>1. /\ n \in Nat /\ n > 0 /\ DOMAIN parts = 1 .. n
      /\ \A i \in 1 .. n : parts[i] \in PartsOf(o) \cup {Nothing}
      /\ \A i, j \in 1 .. n : parts[i] # Nothing /\ parts[i] = parts[j] => i = j
      /\ \A res \in PartsOf(o) : \E i \in 1 .. n : parts[i] = res
  BY DEF Lists
<1>2. PartsOf(o) \subseteq Resources
  BY PartsApart
<1> HIDE DEF n
<1>3. s = [k \in 1 .. n |-> IF parts[k] \in held[r] THEN Free(parts[k]) ELSE Skip]
  BY <1>1 DEF Destroy
<1>4. \A k \in 1 .. n : /\ s[k] = IF parts[k] \in held[r] THEN Free(parts[k]) ELSE Skip
                        /\ parts[k] \in held[r] => parts[k] \in Has(r, o)
  BY <1>1, <1>3 DEF Has
<1>5. \A k \in 1 .. n : s[k] \in Frees \cup {Skip}
  BY <1>2, <1>4 DEF Frees, Has
<1>6. s \in Seq(Frees \cup {Skip}) /\ Len(s) = n
  BY <1>1, <1>3, <1>5
<1> HIDE DEF s
<1>7. s # <<>>
  BY <1>1, <1>6
<1>8. \A k \in 1 .. n : s[k] # Skip => \E res \in Has(r, o) : s[k] = Free(res)
  BY <1>4
<1>9. ASSUME NEW j \in 1 .. n, NEW k \in 1 .. n, s[j] # Skip, s[j] = s[k]
      PROVE  j = k
  <2>1. s[j] = Free(parts[j]) /\ s[k] = Free(parts[k])
    BY <1>4, <1>9
  <2>2. parts[j] \in Resources /\ parts[k] \in Resources
    BY <1>2, <1>4, <1>9 DEF Has
  <2>3. Free(parts[j]).res = parts[j] /\ Free(parts[k]).res = parts[k]
    BY <2>2, FreeFacts
  <2>4. parts[j] = parts[k]
    BY <1>9, <2>1, <2>3
  <2> QED BY <1>1, <2>2, <2>4, PartsApart
<1>10. ASSUME NEW res \in Has(r, o)
       PROVE  \E k \in 1 .. n : s[k] = Free(res)
  BY <1>1, <1>4 DEF Has
<1>11. Clears(s, Has(r, o))
  BY <1>6, <1>8, <1>9, <1>10 DEF Clears
<1> QED BY <1>7, <1>11 DEF s

\* Each step of a destruction leaves one resource less to free, or is skipped.
LEMMA ClearsNext ==
  ASSUME NEW s, NEW rs \in SUBSET Resources, Clears(s, rs), s # <<>>
  PROVE  \/ Head(s) = Skip /\ Clears(Tail(s), rs)
         \/ \E res \in rs : Head(s) = Free(res) /\ Clears(Tail(s), rs \ {res})
<1> DEFINE T == Frees \cup {Skip}
           n == Len(s)
<1>1. /\ s \in Seq(T) /\ n \in Nat /\ n > 0 /\ Head(s) = s[1]
      /\ Tail(s) \in Seq(T) /\ Len(Tail(s)) = n - 1
      /\ \A i \in 1 .. n - 1 : Tail(s)[i] = s[i + 1]
  BY HeadTailProperties DEF Clears
<1>2. /\ \A k \in 1 .. n : s[k] # Skip => \E res \in rs : s[k] = Free(res)
      /\ \A j, k \in 1 .. n : s[j] # Skip /\ s[j] = s[k] => j = k
      /\ \A res \in rs : \E k \in 1 .. n : s[k] = Free(res)
  BY DEF Clears
<1> HIDE DEF n, T
<1> DEFINE u == Tail(s)
<1>3. u \in Seq(T) /\ Len(u) = n - 1 /\ \A i \in 1 .. n - 1 : u[i] = s[i + 1]
  BY <1>1
<1> HIDE DEF u
<1>4. \A i \in 1 .. n - 1 : i + 1 \in 1 .. n /\ i + 1 # 1
  BY <1>1
<1>5. \A j, k \in 1 .. n - 1 : u[j] # Skip /\ u[j] = u[k] => j = k
  <2>1. ASSUME NEW j \in 1 .. n - 1, NEW k \in 1 .. n - 1, u[j] # Skip, u[j] = u[k]
        PROVE  j = k
    <3>1. j + 1 = k + 1
      BY <1>2, <1>3, <1>4, <2>1
    <3> QED BY <3>1
  <2> QED BY <2>1
<1>6. \A k \in 2 .. n : k - 1 \in 1 .. n - 1 /\ (k - 1) + 1 = k
  BY <1>1
<1>7. CASE s[1] = Skip
  <2>1. \A k \in 1 .. n - 1 : u[k] # Skip => \E res \in rs : u[k] = Free(res)
    BY <1>2, <1>3, <1>4
  <2>2. ASSUME NEW res \in rs PROVE \E k \in 1 .. n - 1 : u[k] = Free(res)
    <3>1. PICK k \in 1 .. n : s[k] = Free(res)
      BY <1>2
    <3>2. k \in 2 .. n
      BY <1>7, <3>1, FreeFacts
    <3> QED BY <1>3, <1>6, <3>1, <3>2
  <2>3. Clears(u, rs)
    BY <1>3, <1>5, <2>1, <2>2 DEF Clears, T
  <2> QED BY <1>1, <1>7, <2>3 DEF u
<1>8. CASE s[1] # Skip
  <2>1. PICK x \in rs : s[1] = Free(x)
    BY <1>1, <1>2, <1>8
  <2>2. \A k \in 2 .. n : s[k] # Free(x)
    BY <1>1, <1>2, <1>8, <2>1
  <2>3. \A k \in 1 .. n - 1 : u[k] # Free(x)
    BY <1>3, <1>4, <2>2
  <2>4. \A k \in 1 .. n - 1 : u[k] # Skip => \E res \in rs \ {x} : u[k] = Free(res)
    BY <1>2, <1>3, <1>4, <2>3
  <2>5. ASSUME NEW res \in rs \ {x} PROVE \E k \in 1 .. n - 1 : u[k] = Free(res)
    <3>1. PICK k \in 1 .. n : s[k] = Free(res)
      BY <1>2
    <3>2. Free(res) # Free(x)
      BY <2>1, FreeFacts
    <3>3. k \in 2 .. n
      BY <2>1, <3>1, <3>2
    <3> QED BY <1>3, <1>6, <3>1, <3>3
  <2>6. Clears(u, rs \ {x})
    BY <1>3, <1>5, <2>4, <2>5 DEF Clears, T
  <2> QED BY <1>1, <2>1, <2>6 DEF u
<1> QED BY <1>7, <1>8

\* A program with no step gives back nothing.
LEMMA NothingToClear ==
  ASSUME NEW rs, Clears(<<>>, rs)
  PROVE  rs = {}
BY DEF Clears

---------------------------------------------------------------------------
(* The steps of a rank.                                                    *)

\* Each of the three creations makes its object from the one before.
LEMMA CreationSound ==
  ASSUME NEW r, NEW k \in 1 .. 3
  PROVE  LET c == Creation(r, k)
         IN  /\ Sound(c, ObjectOf(k), Base(k))
             /\ \A j \in 1 .. Len(c) : /\ c[j].do = "shape" <=> k = 1 /\ j = 2
                                       /\ c[j].do = "plan" => k = 3
<1>1. CASE k = 1
  BY <1>1, GridCreateSound DEF Creation, ObjectOf, Base
<1>2. CASE k = 2
  BY <1>2, ProblemCreateSound DEF Creation, ObjectOf, Base
<1>3. CASE k = 3
  BY <1>3, PlanCreateSound DEF Creation, ObjectOf, Base
<1> QED BY <1>1, <1>2, <1>3

\* What a rank is to create does not change under way.
LEMMA CreationStays ==
  ASSUME NEW r, NEW k, UNCHANGED <<request, shape>>
  PROVE  Creation(r, k)' = Creation(r, k)
<1>1. \A t : TrivialOn(request, r, t)' = TrivialOn(request, r, t)
  BY DEF TrivialOn, Coordinates
<1>2. \A t : Planned(request, t)' = Planned(request, t)
  BY DEF Planned, Flags
<1>3. \A t : PlanStep(r, t)' = PlanStep(r, t)
  BY <1>1, <1>2 DEF PlanStep
<1>4. PlanCreate(r)' = PlanCreate(r)
  BY <1>3 DEF PlanCreate
<1> QED BY <1>4 DEF Creation

\* Each object is created by one of the first three calls.
LEMMA ObjectFacts ==
  /\ \A k \in 1 .. 6 : ObjectOf(k) \in Objects
  /\ \A k \in 1 .. 3 : CreatedBy[ObjectOf(k)] = k
  /\ \A o \in Objects : CreatedBy[o] \in 1 .. 3 /\ ObjectOf(CreatedBy[o]) = o
BY DEF ObjectOf, Objects, CreatedBy

\* A rank holds resources only.
LEMMA HeldExists ==
  ASSUME NEW r, RankTyped(r)
  PROVE  held[r] \subseteq Resources /\ Nothing \notin held[r]
BY PartsApart DEF RankTyped

\* A creation goes one step further.
LEMMA CreationAdvances ==
  ASSUME Typed, NEW r \in Procs, RankInv(r), todo[r] # <<>>, Creating(r), Completes(r),
         UNCHANGED <<request, shape, calls, brokenOff>>, waits'[r] = FALSE
  PROVE  RankInv(r)'
<1>1. PICK n, o, c : n = calls[r] /\ o = ObjectOf(n) /\ c = Creation(r, n)
  OBVIOUS
<1>2. n \in 1 .. 3 /\ o \in Objects /\ CreatedBy[o] = n /\ o \notin pointers[r]
  BY <1>1, ObjectFacts DEF Creating, RankInv, Busy
<1>3. /\ Sound(c, o, Base(n))
      /\ \A j \in 1 .. Len(c) : /\ c[j].do = "shape" <=> n = 1 /\ j = 2
                                /\ c[j].do = "plan" => n = 3
  BY <1>1, <1>2, CreationSound
<1>4. PICK k \in 1 .. Len(c) : /\ todo[r] = SubSeq(c, k, Len(c)) /\ Has(r, o) = Made(c, k)
                               /\ n = 1 /\ k > 2 => ShapePasses(request, shape)
  BY <1>1 DEF Creating, Reached
<1>5. /\ Len(c) \in Nat /\ c \in Seq(AllSteps) /\ c[k] \in AllSteps
  BY <1>3, ElementOfSeq DEF Sound
<1>6. /\ Head(todo[r]) = c[k] /\ Tail(todo[r]) = SubSeq(c, k + 1, Len(c))
      /\ k = Len(c) => Tail(todo[r]) = <<>>
  BY <1>4, <1>5, RestNext
<1>7. /\ c[k].do # "free" /\ (c[k].do = "return" <=> k = Len(c))
      /\ Acquires(c[k]) => c[k].res \in PartsOf(o)
  BY <1>3, <1>5 DEF Sound, AllSteps
<1>8. /\ todo'[r] = Tail(todo[r])
      /\ held'[r] = IF Acquires(c[k]) THEN held[r] \cup {c[k].res} ELSE held[r]
      /\ pointers'[r] = IF c[k].do = "return" THEN pointers[r] \cup {c[k].res[2]}
                        ELSE pointers[r]
  BY <1>6, <1>7 DEF Completes, Typed, Acquires
<1>9. /\ calls'[r] = n /\ Creation(r, n)' = c /\ brokenOff' = brokenOff
      /\ Creation(r, calls[r])' = c /\ ObjectOf(calls[r])' = o
  <2>1. Creation(r, n)' = c
    BY <1>1, CreationStays
  <2> QED BY <1>1, <2>1 DEF Creation, ObjectOf
<1>10. ASSUME NEW x \in Objects, x # o
       PROVE  Has(r, x)' = Has(r, x)
  BY <1>2, <1>7, <1>8, <1>10, PartsApart DEF Has
<1>11. Has(r, o)' = IF Acquires(c[k]) THEN Made(c, k) \cup {c[k].res} ELSE Made(c, k)
  BY <1>4, <1>7, <1>8 DEF Has
<1>12. \A x : Leaked(r, x)' = Leaked(r, x)
  BY <1>1, <1>9 DEF Leaked
<1>13. held[r] \subseteq held'[r] /\ pointers[r] \subseteq pointers'[r]
  BY <1>8
<1>14. RankTyped(r)'
  <2>1. held'[r] \subseteq UNION {PartsOf(x) : x \in Objects}
    BY <1>2, <1>7, <1>8 DEF RankInv, RankTyped
  <2>2. k = Len(c) => c[k].res[2] = o
    BY <1>3 DEF Sound
  <2>3. pointers'[r] \subseteq Objects
    BY <1>2, <1>7, <1>8, <2>2 DEF RankInv, RankTyped
  <2>4. calls'[r] \in 0 .. LastCall
    BY <1>1, <1>9 DEF RankInv, RankTyped
  <2> QED BY <2>1, <2>3, <2>4 DEF RankTyped
<1>15. Inside(r)'
  BY DEF Inside
<1>16. CASE k # Len(c)
  <2>1. pointers'[r] = pointers[r]
    BY <1>7, <1>8, <1>16
  <2>2. k + 1 \in 1 .. Len(c) /\ k \in Nat \ {0}
    BY <1>5, <1>16
  <2>3. Has(r, o)' = Made(c, k + 1)
    <3>1. Made(c, k + 1) = Made(c, k) \cup (IF Acquires(c[k]) THEN {c[k].res} ELSE {})
      BY <2>2, MadeNext
    <3> QED BY <1>11, <3>1
  <2>4. n = 1 /\ k + 1 > 2 => ShapePasses(request, shape)
    <3>1. CASE n = 1 /\ k = 2
      <4>1. c[k].do = "shape"
        BY <1>3, <3>1
      <4> QED BY <1>6, <4>1 DEF Completes, Doomed
    <3> QED BY <1>4, <3>1
  <2>5. Creating(r)'
    BY <1>1, <1>2, <1>6, <1>8, <1>9, <2>1, <2>2, <2>3, <2>4 DEF Creating, Reached, RankInv, ShapePasses
  <2>6. todo'[r] # <<>>
    BY <1>5, <1>6, <1>8, <2>2, RestNext
  <2>7. Owns(r)'
    BY <1>1, <1>9, <1>13, <2>1 DEF RankInv, Owns
  <2>8. Clean(r)'
    BY <1>1, <1>9, <1>10, <1>12, <2>1, <2>6 DEF RankInv, Clean
  <2>9. Busy(r)'
    BY <1>1, <1>2, <1>9, <2>1, <2>5 DEF Busy
  <2>10. Checked(r)'
    BY <2>1 DEF RankInv, Checked, ShapePasses
  <2> QED BY <1>14, <1>15, <2>7, <2>8, <2>9, <2>10 DEF RankInv
<1>17. CASE k = Len(c)
  <2>1. pointers'[r] = pointers[r] \cup {o} /\ held'[r] = held[r] /\ todo'[r] = <<>>
    BY <1>3, <1>6, <1>7, <1>8, <1>17 DEF Sound, Acquires
  <2>2. PartsOf(o) \subseteq held'[r]
    BY <1>3, <1>4, <1>17, <2>1 DEF Sound, Has
  <2>3. Owns(r)'
    BY <1>1, <1>2, <1>9, <2>1, <2>2 DEF RankInv, Owns
  <2>4. Clean(r)'
    BY <1>1, <1>9, <1>10, <1>12, <2>1 DEF RankInv, Clean
  <2>5. Busy(r)'
    BY <2>1 DEF Busy
  <2>6. Checked(r)'
    <3>1. CASE o = "grid"
      <4>1. n = 1
        BY <1>2, <3>1 DEF CreatedBy, Objects
      <4>2. k > 2
        <5>1. Len(GridCreate) = 9
          BY DEF GridCreate
        <5>2. c = GridCreate
          BY <1>1, <4>1 DEF Creation
        <5>3. Len(c) = 9
          BY <5>1, <5>2
        <5> QED BY <1>17, <5>3
      <4> QED BY <1>4, <4>1, <4>2 DEF Checked, ShapePasses
    <3>2. CASE o # "grid"
      BY <2>1, <3>2 DEF RankInv, Checked, ShapePasses
    <3> QED BY <3>1, <3>2
  <2> QED BY <1>14, <1>15, <2>3, <2>4, <2>5, <2>6 DEF RankInv
<1> QED BY <1>16, <1>17

\* A destruction goes one step further.
LEMMA FreeingAdvances ==
  ASSUME Typed, NEW r \in Procs, RankInv(r), todo[r] # <<>>, Freeing(r), Completes(r),
         UNCHANGED <<request, shape, calls, brokenOff>>, waits'[r] = FALSE
  PROVE  RankInv(r)'
<1>1. PICK n, o : n = calls[r] /\ o = ObjectOf(n)
  OBVIOUS
<1>2. n \in 1 .. 6 /\ o \in Objects /\ o \notin pointers[r]
  BY <1>1, ObjectFacts DEF RankInv, RankTyped, Busy, LastCall
<1>3. calls'[r] = n /\ ObjectOf(calls[r])' = o /\ brokenOff' = brokenOff
  BY <1>1 DEF ObjectOf
<1>4. Has(r, o) \in SUBSET Resources
  BY <1>2, PartsApart DEF Has
<1>5. \/ Head(todo[r]) = Skip /\ Clears(Tail(todo[r]), Has(r, o))
      \/ \E res \in Has(r, o) : /\ Head(todo[r]) = Free(res)
                                /\ Clears(Tail(todo[r]), Has(r, o) \ {res})
  BY <1>1, <1>4, ClearsNext DEF Freeing
<1>6. PICK rs : /\ rs \subseteq Has(r, o) /\ Clears(Tail(todo[r]), Has(r, o) \ rs)
                /\ todo'[r] = Tail(todo[r]) /\ held'[r] = held[r] \ rs
                /\ pointers'[r] = pointers[r]
  <2>1. CASE Head(todo[r]) = Skip /\ Clears(Tail(todo[r]), Has(r, o))
    <3>1. Head(todo[r]).do = "skip"
      BY <2>1 DEF Skip, Local, Step
    <3>2. /\ todo'[r] = Tail(todo[r]) /\ held'[r] = held[r] /\ pointers'[r] = pointers[r]
      BY <3>1 DEF Completes, Typed
    <3>3. PICK none : none = {}
      OBVIOUS
    <3>4. /\ Has(r, o) \ none = Has(r, o) /\ held[r] \ none = held[r]
          /\ none \subseteq Has(r, o)
      BY <3>3
    <3> QED BY <2>1, <3>2, <3>4
  <2>2. ASSUME NEW res \in Has(r, o), Head(todo[r]) = Free(res),
               Clears(Tail(todo[r]), Has(r, o) \ {res})
        PROVE  /\ {res} \subseteq Has(r, o) /\ Clears(Tail(todo[r]), Has(r, o) \ {res})
               /\ todo'[r] = Tail(todo[r]) /\ held'[r] = held[r] \ {res}
               /\ pointers'[r] = pointers[r]
    <3>1. Head(todo[r]).do = "free" /\ Head(todo[r]).res = res
      BY <1>4, <2>2, FreeFacts
    <3> QED BY <2>2, <3>1 DEF Completes, Typed
  <2> QED BY <1>5, <2>1, <2>2
<1>7. \A x \in Objects : x # o => Has(r, x)' = Has(r, x)
  BY <1>2, <1>6, PartsApart DEF Has
<1>8. Has(r, o)' = Has(r, o) \ rs
  BY <1>6 DEF Has
<1>9. \A x : Leaked(r, x)' = Leaked(r, x)
  BY <1>1, <1>3 DEF Leaked
<1>10. RankTyped(r)'
  BY <1>1, <1>3, <1>6 DEF RankInv, RankTyped
<1>11. Inside(r)'
  BY DEF Inside
<1>12. Owns(r)'
  <2>1. \A x \in pointers[r] : PartsOf(x) \subseteq held[r] /\ x \in Objects /\ x # o
    BY <1>2 DEF RankInv, Owns, RankTyped
  <2>2. \A x \in pointers[r] : PartsOf(x) \cap rs = {}
    BY <1>2, <1>6, <2>1, PartsApart DEF Has
  <2> QED BY <1>1, <1>3, <1>6, <2>1, <2>2 DEF RankInv, Owns
<1>13. Clean(r)'
  <2>1. ASSUME NEW x \in Objects \ pointers[r], todo'[r] = <<>> \/ x # o
        PROVE  Has(r, x)' \subseteq Leaked(r, x)'
    <3>1. CASE x # o
      BY <1>1, <1>7, <1>9, <3>1 DEF RankInv, Clean
    <3>2. CASE x = o
      <4>1. Clears(<<>>, Has(r, o) \ rs)
        BY <1>6, <2>1, <3>2
      <4>2. Has(r, o) \ rs = {}
        BY <4>1, NothingToClear
      <4> QED BY <1>8, <3>2, <4>2
    <3> QED BY <3>1, <3>2
  <2> QED BY <1>3, <1>6, <2>1 DEF Clean
<1>14. Busy(r)'
  <2>1. Freeing(r)'
    BY <1>3, <1>6, <1>8 DEF Freeing
  <2> QED BY <1>1, <1>2, <1>3, <1>6, <2>1 DEF Busy
<1>15. Checked(r)'
  BY <1>6 DEF RankInv, Checked, ShapePasses
<1> QED BY <1>10, <1>11, <1>12, <1>13, <1>14, <1>15 DEF RankInv

\* What is done when a step fails frees what there is; only a failed broadcast
\* forgets the block of a problem.
LEMMA CleanupClears ==
  ASSUME NEW r, RankInv(r), todo[r] # <<>>, Creating(r), Head(todo[r]).do # "return"
  PROVE  LET o == ObjectOf(calls[r])
         IN  \/ Cleanup(r) # <<>> /\ Clears(Cleanup(r), Has(r, o))
             \/ /\ Cleanup(r) = <<>> /\ o = "problem" /\ calls[r] = 2
                /\ Has(r, o) \subseteq {Heap("problem")}
                /\ Head(todo[r]).do = "bcast" \/ Has(r, o) = {}
<1>1. PICK n, o, c : n = calls[r] /\ o = ObjectOf(n) /\ c = Creation(r, n)
  OBVIOUS
<1>2. n \in 1 .. 3 /\ o \in Objects
  BY <1>1, ObjectFacts DEF Creating
<1>3. PICK k \in 1 .. Len(c) : todo[r] = SubSeq(c, k, Len(c)) /\ Has(r, o) = Made(c, k)
  BY <1>1 DEF Creating, Reached
<1>4. c \in Seq(AllSteps)
  BY <1>1, <1>2, CreationSound DEF Sound
<1>5. Head(todo[r]) = c[k]
  BY <1>3, <1>4, RestNext
<1>6. Nothing \notin held[r]
  BY HeldExists DEF RankInv
<1>7. CASE n = 1
  <2>1. Cleanup(r) = Destroy(r, GridParts) /\ o = "grid"
    BY <1>1, <1>7 DEF Cleanup, ObjectOf
  <2>2. GridParts # <<>>
    BY DEF GridParts
  <2> QED BY <1>1, <1>2, <1>6, <2>1, <2>2, PartsListed, DestroyClears
<1>8. CASE n = 3
  <2>1. Cleanup(r) = Destroy(r, PlanParts) /\ o = "plan"
    BY <1>1, <1>8 DEF Cleanup, ObjectOf
  <2>2. PlanParts # <<>>
    BY DEF PlanParts
  <2> QED BY <1>1, <1>2, <1>6, <2>1, <2>2, PartsListed, DestroyClears
<1>9. CASE n = 2
  <2>1. o = "problem" /\ c = ProblemCreate
    BY <1>1, <1>9 DEF ObjectOf, Creation
  <2>2. \/ /\ c[k].do = "bcast" \/ c[k].res = Heap("problem")
           /\ Made(c, k) \subseteq {Heap("problem")}
           /\ c[k].do = "bcast" \/ Made(c, k) = {}
        \/ /\ c[k].do # "bcast" /\ c[k].res # Heap("problem")
           /\ c[k].res[2] \in Transposes
    BY <1>3, <1>5, <2>1, ProblemCreateSound
  <2>3. CASE c[k].do = "bcast" \/ c[k].res = Heap("problem")
    <3>1. Cleanup(r) = <<>>
      BY <1>1, <1>5, <1>9, <2>3 DEF Cleanup
    <3> QED BY <1>1, <1>3, <1>5, <1>9, <2>1, <2>2, <2>3, <3>1
  <2>4. CASE ~(c[k].do = "bcast" \/ c[k].res = Heap("problem"))
    <3> DEFINE t    == c[k].res[2]
               own  == TransposeParts(t)
               rest == [i \in DOMAIN ProblemParts |->
                          IF ProblemParts[i] \in ToSet(own) THEN Nothing ELSE ProblemParts[i]]
    <3>1. Cleanup(r) = Destroy(r, own \o rest)
      BY <1>1, <1>5, <1>9, <2>4 DEF Cleanup
    <3>2. Lists(own \o rest, "problem") /\ own \o rest # <<>>
      BY <2>2, <2>4, OthersListed
    <3> HIDE DEF own, rest
    <3> QED BY <1>1, <1>2, <1>6, <2>1, <3>1, <3>2, DestroyClears
  <2> QED BY <2>3, <2>4
<1> QED BY <1>2, <1>7, <1>8, <1>9

\* A step of a creation fails, on this rank alone or on all.
LEMMA CreationFails ==
  ASSUME Typed, NEW r \in Procs, RankInv(r), todo[r] # <<>>, Fails(r),
         Head(todo[r]).do \notin {"free", "skip", "return"},
         UNCHANGED <<request, shape, calls>>, waits'[r] = FALSE,
         brokenOff \subseteq brokenOff', Head(todo[r]).do = "bcast" => r \in brokenOff'
  PROVE  RankInv(r)'
<1>1. PICK n, o : n = calls[r] /\ o = ObjectOf(n)
  OBVIOUS
<1>2. n \in 1 .. 6 /\ o \in Objects /\ o \notin pointers[r]
  BY <1>1, ObjectFacts DEF RankInv, RankTyped, Busy, LastCall
<1>4. Creating(r)
  <2>1. CASE Freeing(r)
    <3>1. Has(r, o) \in SUBSET Resources
      BY <1>2, PartsApart DEF Has
    <3>2. Head(todo[r]) = Skip \/ \E res \in Has(r, o) : Head(todo[r]) = Free(res)
      BY <1>1, <2>1, <3>1, ClearsNext DEF Freeing
    <3>3. Head(todo[r]).do \in {"skip", "free"}
      <4>1. Skip.do = "skip"
        BY DEF Skip, Local, Step
      <4>2. \A res \in Has(r, o) : Free(res).do = "free"
        BY <3>1, FreeFacts
      <4> QED BY <3>2, <4>1, <4>2
    <3> QED BY <3>3
  <2> QED BY <2>1 DEF RankInv, Busy
<1>5. /\ calls'[r] = n /\ ObjectOf(calls[r])' = o /\ todo'[r] = Cleanup(r)
      /\ held' = held /\ pointers' = pointers
  BY <1>1 DEF Fails, ObjectOf, Typed
<1>6. \A x : Has(r, x)' = Has(r, x)
  BY <1>5 DEF Has
<1>7. \/ Cleanup(r) # <<>> /\ Clears(Cleanup(r), Has(r, o))
      \/ /\ Cleanup(r) = <<>> /\ o = "problem" /\ n = 2 /\ Has(r, o) \subseteq {Heap("problem")}
         /\ Head(todo[r]).do = "bcast" \/ Has(r, o) = {}
  BY <1>1, <1>4, CleanupClears
<1>8. calls'[r] = calls[r]
  OBVIOUS
<1>9. \A x : Leaked(r, x) \subseteq Leaked(r, x)'
  BY <1>8 DEF Leaked
<1>10. RankTyped(r)'
  BY <1>1, <1>5 DEF RankInv, RankTyped
<1>11. Inside(r)'
  BY DEF Inside
<1>12. Owns(r)'
  BY <1>1, <1>5 DEF RankInv, Owns
<1>13. Clean(r)'
  <2>1. ASSUME NEW x \in Objects \ pointers[r], todo'[r] = <<>> \/ x # o
        PROVE  Has(r, x)' \subseteq Leaked(r, x)'
    <3>1. CASE x # o
      <4>1. Has(r, x) \subseteq Leaked(r, x)
        BY <1>1, <2>1, <3>1 DEF RankInv, Clean
      <4> QED BY <1>6, <1>9, <4>1
    <3>2. CASE x = o
      <4>1. /\ o = "problem" /\ n = 2 /\ Has(r, o) \subseteq {Heap("problem")}
            /\ Head(todo[r]).do = "bcast" \/ Has(r, o) = {}
        BY <1>5, <1>7, <2>1, <3>2
      <4>2. r \in brokenOff' => Leaked(r, o)' = {Heap("problem")}
        BY <1>5, <4>1 DEF Leaked
      <4> QED BY <1>6, <3>2, <4>1, <4>2
    <3> QED BY <3>1, <3>2
  <2> QED BY <1>5, <2>1 DEF Clean
<1>14. Busy(r)'
  <2>1. todo'[r] # <<>> => Freeing(r)'
    BY <1>5, <1>6, <1>7 DEF Freeing
  <2> QED BY <1>1, <1>2, <1>5, <2>1 DEF Busy
<1>15. Checked(r)'
  BY <1>5 DEF RankInv, Checked, ShapePasses
<1> QED BY <1>10, <1>11, <1>12, <1>13, <1>14, <1>15 DEF RankInv

\* A call that destroys an object frees its parts; without a pointer it does
\* nothing.
LEMMA CallDestroys ==
  ASSUME NEW r, NEW k \in 4 .. 6, Steps(r, k) # <<>> \/ ObjectOf(k) \in pointers[r]
  PROVE  /\ ObjectOf(k) \in pointers[r]
         /\ \E parts : /\ Steps(r, k) = Destroy(r, parts) /\ parts # <<>>
                       /\ Lists(parts, ObjectOf(k))
<1>1. CASE k = 4
  <2>1. PlanParts # <<>>
    BY DEF PlanParts
  <2>2. ObjectOf(k) = "plan" /\ Lists(PlanParts, "plan")
    BY <1>1, PartsListed DEF ObjectOf
  <2>3. Steps(r, k) = IF "plan" \in pointers[r] THEN Destroy(r, PlanParts) ELSE <<>>
    BY <1>1 DEF Steps
  <2> QED BY <2>1, <2>2, <2>3
<1>2. CASE k = 5
  <2>1. ProblemParts # <<>>
    <3>1. Len(ProblemParts) # 0
      BY PartsAre
    <3>2. Len(<<>>) = 0
      OBVIOUS
    <3> QED BY <3>1, <3>2, Zenon
  <2>2. ObjectOf(k) = "problem" /\ Lists(ProblemParts, "problem")
    BY <1>2, PartsListed DEF ObjectOf
  <2>3. Steps(r, k) = IF "problem" \in pointers[r] THEN Destroy(r, ProblemParts) ELSE <<>>
    BY <1>2 DEF Steps
  <2> QED BY <2>1, <2>2, <2>3
<1>3. CASE k = 6
  <2>1. GridParts # <<>>
    BY DEF GridParts
  <2>2. ObjectOf(k) = "grid" /\ Lists(GridParts, "grid")
    BY <1>3, PartsListed DEF ObjectOf
  <2>3. Steps(r, k) = IF "grid" \in pointers[r] THEN Destroy(r, GridParts) ELSE <<>>
    BY <1>3 DEF Steps
  <2> QED BY <2>1, <2>2, <2>3
<1> QED BY <1>1, <1>2, <1>3

\* A rank begins its next call.
LEMMA CallBegins ==
  ASSUME Typed, NEW r \in Procs, RankInv(r), Begin(r)
  PROVE  RankInv(r)'
<1>1. PICK n, o, k : n = calls[r] /\ k = n + 1 /\ o = ObjectOf(k)
  OBVIOUS
<1>2. n \in 0 .. 5 /\ k \in 1 .. 6 /\ o \in Objects
  BY <1>1, ObjectFacts DEF RankInv, RankTyped, Begin, LastCall
<1>3. /\ todo[r] = <<>> /\ calls'[r] = k /\ todo'[r] = Steps(r, k) /\ ObjectOf(calls[r])' = o
      /\ pointers'[r] = pointers[r] \ Destroyed(k) /\ held' = held /\ waits' = waits
      /\ brokenOff' = brokenOff /\ shape' = shape /\ request' = request
  BY <1>1 DEF Begin, Typed, ObjectOf
<1>4. k > 3 => Destroyed(k) = {o}
  BY <1>1, <1>2 DEF Destroyed, ObjectOf
<1>5. k <= 3 => Destroyed(k) = {} /\ o \notin pointers[r] /\ CreatedBy[o] = k
  <2>1. k <= 3 => CreatedBy[o] = k
    BY <1>1, <1>2, ObjectFacts
  <2>2. k <= 3 => Destroyed(k) = {}
    BY <1>2 DEF Destroyed
  <2> QED BY <1>1, <1>2, <2>1, <2>2 DEF RankInv, Owns
<1>6. o \notin pointers'[r] /\ pointers'[r] \subseteq pointers[r]
  BY <1>2, <1>3, <1>4, <1>5
<1>7. k >= 2 \/ n < 2
  BY <1>1, <1>2
<1>8. \A x : Has(r, x)' = Has(r, x) /\ Leaked(r, x) \subseteq Leaked(r, x)'
  BY <1>1, <1>2, <1>3, <1>7 DEF Has, Leaked
<1>9. \A x \in Objects \ pointers[r] : Has(r, x) \subseteq Leaked(r, x)
  BY <1>3 DEF RankInv, Clean
<1>10. RankTyped(r)'
  BY <1>2, <1>3, <1>6 DEF RankInv, RankTyped, LastCall
<1>11. Inside(r)'
  BY <1>3 DEF RankInv, Inside
<1>12. Owns(r)'
  <2>1. \A x \in pointers[r] : CreatedBy[x] \in 1 .. 3
    BY ObjectFacts DEF RankInv, RankTyped
  <2> QED BY <1>1, <1>2, <1>3, <1>6, <2>1 DEF RankInv, Owns
<1>13. Checked(r)'
  BY <1>3, <1>6 DEF RankInv, Checked, ShapePasses
<1>14. CASE todo'[r] = <<>>
  <2>1. \A x \in Objects \ pointers'[r] : x \in pointers[r] => k > 3 /\ x = o
    BY <1>3, <1>4, <1>5, <1>2
  <2>2. k > 3 => o \notin pointers[r]
    <3>1. CASE k > 3 /\ o \in pointers[r]
      <4>1. \E parts : todo'[r] = Destroy(r, parts) /\ parts # <<>> /\ Lists(parts, o)
        BY <1>1, <1>2, <1>3, <3>1, CallDestroys
      <4>2. Nothing \notin held[r]
        BY HeldExists DEF RankInv
      <4> QED BY <1>2, <1>14, <4>1, <4>2, DestroyClears
    <3> QED BY <3>1
  <2>3. Clean(r)'
    BY <1>3, <1>8, <1>9, <2>1, <2>2 DEF Clean
  <2>4. Busy(r)'
    BY <1>14 DEF Busy
  <2> QED BY <1>10, <1>11, <1>12, <1>13, <2>3, <2>4 DEF RankInv
<1>15. CASE todo'[r] # <<>>
  <2>1. \A x \in Objects \ pointers'[r] : x # o => x \notin pointers[r]
    BY <1>2, <1>3, <1>4, <1>5
  <2>2. Clean(r)'
    BY <1>3, <1>8, <1>9, <1>15, <2>1 DEF Clean
  <2>3. CASE k > 3
    <3>1. o \in pointers[r] /\ \E parts : /\ todo'[r] = Destroy(r, parts) /\ parts # <<>>
                                          /\ Lists(parts, o)
      BY <1>1, <1>2, <1>3, <1>15, <2>3, CallDestroys
    <3>2. Nothing \notin held[r]
      BY HeldExists DEF RankInv
    <3>3. Clears(todo'[r], Has(r, o))
      BY <1>2, <3>1, <3>2, DestroyClears
    <3>4. Freeing(r)'
      BY <1>3, <1>8, <3>3 DEF Freeing
    <3>5. Busy(r)'
      BY <1>2, <1>3, <1>6, <3>4 DEF Busy
    <3> QED BY <1>10, <1>11, <1>12, <1>13, <2>2, <3>5 DEF RankInv
  <2>4. CASE k <= 3
    <3>1. PICK c : c = Creation(r, k)
      OBVIOUS
    <3>2. c \in Seq(AllSteps) /\ Len(c) > 0 /\ Len(c) \in Nat
      BY <1>2, <2>4, <3>1, CreationSound DEF Sound
    <3>3. /\ todo'[r] = c
          /\ k = 2 => "grid" \in pointers[r]
          /\ k = 3 => "problem" \in pointers[r]
      BY <1>2, <1>3, <1>15, <2>4, <3>1 DEF Steps, Creation
    <3>4. c = SubSeq(c, 1, Len(c))
      BY <3>2, SubSeqFull
    <3>5. Made(c, 1) = {}
      BY DEF Made
    <3>6. Has(r, o) = {}
      <4>1. Leaked(r, o) = {}
        <5>1. o = "problem" => n = 1
          BY <1>1, <1>2, <2>4 DEF ObjectOf
        <5> QED BY <1>1, <5>1 DEF Leaked
      <4> QED BY <1>2, <1>5, <1>9, <2>4, <4>1
    <3>7. Creation(r, calls[r])' = c /\ Creation(r, k)' = c
      <4>1. Creation(r, k)' = Creation(r, k)
        BY <1>3, CreationStays
      <4> QED BY <1>3, <3>1, <4>1 DEF Creation
    <3>8. pointers'[r] = pointers[r]
      BY <1>3, <1>5, <2>4
    <3>9. Creating(r)'
      <4>1. 1 \in 1 .. Len(c)
        BY <3>2
      <4>2. todo'[r] = SubSeq(c, 1, Len(c)) /\ Has(r, o)' = Made(c, 1)
        BY <1>8, <3>3, <3>4, <3>5, <3>6
      <4>3. k \in 1 .. 3
        BY <1>2, <2>4
      <4>4. calls'[r] \in 1 .. 3 /\ ObjectOf(calls[r])' = o /\ calls'[r] = k
        BY <1>3, <4>3
      <4>5. /\ calls'[r] = 2 => "grid" \in pointers'[r]
            /\ calls'[r] = 3 => "problem" \in pointers'[r]
        BY <1>3, <3>3, <3>8
      <4>6. ShapePasses(request, shape)' = ShapePasses(request, shape)
        BY <1>3 DEF ShapePasses
      <4>7. Has(r, ObjectOf(calls[r]))' = Has(r, o)'
        BY <4>4 DEF Has
      <4>8. Reached(r, c, 1)'
        BY <4>2, <4>6, <4>7 DEF Reached
      <4> QED BY <3>7, <4>1, <4>4, <4>5, <4>8 DEF Creating
    <3>10. Busy(r)'
      BY <1>2, <1>3, <1>6, <3>9 DEF Busy
    <3> QED BY <1>10, <1>11, <1>12, <1>13, <2>2, <3>10 DEF RankInv
  <2> QED BY <1>2, <2>3, <2>4
<1> QED BY <1>14, <1>15


\* A rank of which nothing changes but, at most, that it enters a collective.
LEMMA RankStays ==
  ASSUME NEW q, RankInv(q), brokenOff \subseteq brokenOff',
         UNCHANGED <<request, shape>>, calls'[q] = calls[q], todo'[q] = todo[q],
         held'[q] = held[q], pointers'[q] = pointers[q], waits'[q] \in BOOLEAN, Inside(q)'
  PROVE  RankInv(q)'
<1>1. PICK n, o, c : n = calls[q] /\ o = ObjectOf(n) /\ c = Creation(q, n)
  OBVIOUS
<1>2. calls'[q] = n /\ ObjectOf(calls[q])' = o /\ Creation(q, calls[q])' = c
  <2>1. Creation(q, n)' = c
    BY <1>1, CreationStays
  <2> QED BY <1>1, <2>1 DEF ObjectOf, Creation
<1>3. \A x : Has(q, x)' = Has(q, x) /\ Leaked(q, x) \subseteq Leaked(q, x)'
  BY <1>1, <1>2 DEF Has, Leaked
<1>4. RankTyped(q)'
  BY DEF RankInv, RankTyped
<1>5. Owns(q)'
  BY DEF RankInv, Owns
<1>6. Clean(q)'
  <2>1. ASSUME NEW x \in Objects \ pointers[q], todo[q] = <<>> \/ x # o
        PROVE  Has(q, x)' \subseteq Leaked(q, x)'
    <3>1. Has(q, x) \subseteq Leaked(q, x)
      BY <1>1, <2>1 DEF RankInv, Clean
    <3> QED BY <1>3, <3>1
  <2> QED BY <1>2, <2>1 DEF Clean
<1>7. Busy(q)'
  <2>1. CASE todo[q] # <<>> /\ Creating(q)
    <3>1. PICK k \in 1 .. Len(c) : Reached(q, c, k)
      BY <1>1, <2>1 DEF Creating
    <3>2. Has(q, ObjectOf(calls[q]))' = Has(q, ObjectOf(calls[q]))
      BY <1>1, <1>2 DEF Has
    <3>3. ShapePasses(request, shape)' = ShapePasses(request, shape)
      BY DEF ShapePasses
    <3>4. Reached(q, c, k)'
      BY <3>1, <3>2, <3>3 DEF Reached
    <3>5. /\ calls'[q] \in 1 .. 3
          /\ calls'[q] = 2 => "grid" \in pointers'[q]
          /\ calls'[q] = 3 => "problem" \in pointers'[q]
      BY <2>1 DEF Creating
    <3>6. Creating(q)'
      BY <1>2, <3>4, <3>5 DEF Creating
    <3> QED BY <1>1, <1>2, <2>1, <3>6 DEF RankInv, Busy
  <2>2. CASE todo[q] # <<>> /\ Freeing(q)
    <3>1. Has(q, ObjectOf(calls[q]))' = Has(q, ObjectOf(calls[q]))
      BY <1>1, <1>2 DEF Has
    <3>2. Freeing(q)'
      BY <2>2, <3>1 DEF Freeing
    <3> QED BY <1>1, <1>2, <2>2, <3>2 DEF RankInv, Busy
  <2>3. CASE todo[q] = <<>>
    BY <2>3 DEF Busy
  <2> QED BY <2>1, <2>2, <2>3 DEF RankInv, Busy
<1>8. Checked(q)'
  BY DEF RankInv, Checked, ShapePasses
<1> QED BY <1>4, <1>5, <1>6, <1>7, <1>8 DEF RankInv

\* The number of failures is a number.
LEMMA FailuresCounted ==
  ASSUME Typed
  PROVE  failures \in Nat /\ request.failures \in Nat
BY RequestsAssumption DEF Typed, Request

\* A step ends, with or without success, and the rank is in no collective.
LEMMA StepEnds ==
  ASSUME Typed, NEW r \in Procs, RankInv(r), todo[r] # <<>>, Ends(r),
         UNCHANGED <<request, shape, calls, brokenOff>>, waits'[r] = FALSE
  PROVE  RankInv(r)'
<1>1. CASE Completes(r)
  BY <1>1, CreationAdvances, FreeingAdvances DEF RankInv, Busy
<1>2. CASE Doomed(r) /\ Fails(r)
  <2>1. Head(todo[r]).do \in {"shape", "plan"}
    BY <1>2 DEF Doomed
  <2>2. Head(todo[r]).do \notin {"free", "skip", "return", "bcast"}
    BY <2>1
  <2> QED BY <1>2, <2>1, <2>2, CreationFails
<1> QED BY <1>1, <1>2 DEF Ends

\* Every step of a rank keeps what holds of the rank.
LEMMA OwnStep ==
  ASSUME Typed, NEW r \in Procs, RankInv(r), Proceed(r) \/ ReturnEarly(r) \/ Fail(r)
  PROVE  RankInv(r)'
<1>1. DOMAIN waits = Procs /\ waits[r] \in BOOLEAN
  BY DEF Typed, RankInv, RankTyped
<1>2. CASE Begin(r)
  BY <1>2, CallBegins
<1>3. CASE Do(r)
  <2>1. waits[r] = FALSE
    BY <1>1, <1>3 DEF Do, RankInv, Inside
  <2> QED BY <1>3, <2>1, StepEnds DEF Do
<1>4. CASE Enter(r)
  <2>1. Inside(r)' /\ waits'[r] \in BOOLEAN
    BY <1>1, <1>4 DEF Enter, Inside
  <2> QED BY <1>4, <2>1, RankStays DEF Enter
<1>5. CASE Return(r)
  <2>1. todo[r] # <<>> /\ waits'[r] = FALSE
    BY <1>1, <1>5 DEF Return, RankInv, Inside
  <2> QED BY <1>5, <2>1, StepEnds DEF Return
<1>6. CASE ReturnEarly(r)
  <2>1. todo[r] # <<>> /\ waits'[r] = FALSE /\ Ends(r)
    BY <1>1, <1>6 DEF ReturnEarly, RankInv, Inside, Ends
  <2> QED BY <1>6, <2>1, StepEnds DEF ReturnEarly
<1>7. CASE Fail(r)
  <2>1. /\ waits'[r] = FALSE /\ brokenOff \subseteq brokenOff'
        /\ Head(todo[r]).do = "bcast" => r \in brokenOff'
    BY <1>1, <1>7 DEF Fail
  <2>2. Head(todo[r]).do \notin {"free", "skip", "return"}
    BY <1>7 DEF Fail
  <2> QED BY <1>7, <2>1, <2>2, CreationFails DEF Fail
<1> QED BY <1>2, <1>3, <1>4, <1>5, <1>6, <1>7 DEF Proceed

\* It touches nothing of another rank, and failures and brokenOff only grow.
LEMMA OthersStay ==
  ASSUME Typed, NEW r \in Procs, NEW q \in Procs, q # r,
         Proceed(r) \/ ReturnEarly(r) \/ Fail(r)
  PROVE  /\ UNCHANGED <<request, shape>> /\ failures' \in {failures, failures + 1}
         /\ brokenOff \subseteq brokenOff'
         /\ calls'[q] = calls[q] /\ todo'[q] = todo[q] /\ waits'[q] = waits[q]
         /\ held'[q] = held[q] /\ pointers'[q] = pointers[q]
<1>1. CASE Begin(r)
  BY <1>1 DEF Begin, Typed
<1>2. CASE Do(r)
  BY <1>2 DEF Do, Ends, Completes, Fails, Typed
<1>3. CASE Enter(r)
  BY <1>3 DEF Enter, Typed
<1>4. CASE Return(r)
  BY <1>4 DEF Return, Ends, Completes, Fails, Typed
<1>5. CASE ReturnEarly(r)
  BY <1>5 DEF ReturnEarly, Completes, Typed
<1>6. CASE Fail(r)
  BY <1>6 DEF Fail, Fails, Typed
<1> QED BY <1>1, <1>2, <1>3, <1>4, <1>5, <1>6 DEF Proceed

\* The number of ranks, the shape and the bound on failures stay as they are.
LEMMA TypedStays ==
  ASSUME Typed, NEW r \in Procs, Proceed(r) \/ ReturnEarly(r) \/ Fail(r)
  PROVE  Typed' /\ Procs' = Procs
<1>1. /\ UNCHANGED <<request, shape>> /\ failures' \in 0 .. request.failures
      /\ brokenOff' \subseteq Procs
  <2>1. CASE Fail(r)
    BY <2>1, FailuresCounted DEF Fail, Typed
  <2>2. CASE ~Fail(r)
    BY <2>2 DEF Proceed, Begin, Do, Enter, Return, ReturnEarly, Typed
  <2> QED BY <2>1, <2>2 DEF Fail
<1>2. /\ DOMAIN calls' = DOMAIN calls /\ DOMAIN todo' = DOMAIN todo
      /\ DOMAIN waits' = DOMAIN waits /\ DOMAIN held' = DOMAIN held
      /\ DOMAIN pointers' = DOMAIN pointers
  BY DEF Proceed, Begin, Do, Enter, Return, ReturnEarly, Fail, Ends, Completes, Fails
<1>3. Procs' = Procs
  BY <1>1 DEF Procs
<1>4. Shape(request)' = Shape(request)
  BY <1>1 DEF Shape, BalancedDims
<1> QED BY <1>1, <1>2, <1>3, <1>4 DEF Typed

---------------------------------------------------------------------------
(* The invariant.                                                          *)

\* The invariant holds before the first call,
LEMMA IInvInitially ==
  ASSUME Init
  PROVE  IInv
<1>1. Typed
  BY RequestsAssumption DEF Init, Typed, Request
<1>2. ASSUME NEW r \in Procs PROVE RankInv(r)
  <2>1. calls[r] = 0 /\ todo[r] = <<>> /\ waits[r] = FALSE /\ held[r] = {} /\ pointers[r] = {}
    BY DEF Init
  <2>2. RankTyped(r)
    <3>1. held[r] \subseteq UNION {PartsOf(o) : o \in Objects} /\ pointers[r] \subseteq Objects
      BY <2>1
    <3>2. calls[r] \in 0 .. LastCall
      BY <2>1 DEF LastCall
    <3>3. waits[r] \in BOOLEAN
      BY <2>1, Zenon
    <3> QED BY <3>1, <3>2, <3>3 DEF RankTyped
  <2>3. Owns(r) /\ Busy(r) /\ Inside(r) /\ Checked(r)
    BY <2>1 DEF Owns, Busy, Inside, Checked
  <2>4. Clean(r)
    BY <2>1 DEF Clean, Has
  <2> QED BY <2>2, <2>3, <2>4 DEF RankInv
<1> QED BY <1>1, <1>2 DEF IInv

\* and every step of every rank keeps it.
LEMMA IInvStays ==
  ASSUME IInv, [Next]_vars
  PROVE  IInv'
<1>1. Typed /\ \A q \in Procs : RankInv(q)
  BY DEF IInv
<1>2. ASSUME NEW r \in Procs, Proceed(r) \/ ReturnEarly(r) \/ Fail(r)
      PROVE  IInv'
  <2>1. Typed' /\ Procs' = Procs
    BY <1>1, <1>2, TypedStays
  <2>2. ASSUME NEW q \in Procs PROVE RankInv(q)'
    <3>1. CASE q = r
      BY <1>1, <1>2, <3>1, OwnStep
    <3>2. CASE q # r
      <4>1. RankInv(q)
        BY <1>1
      <4>2. /\ UNCHANGED <<request, shape>> /\ brokenOff \subseteq brokenOff'
            /\ calls'[q] = calls[q] /\ todo'[q] = todo[q] /\ waits'[q] = waits[q]
            /\ held'[q] = held[q] /\ pointers'[q] = pointers[q]
        BY <1>1, <1>2, <3>2, OthersStay
      <4>3. waits'[q] \in BOOLEAN /\ Inside(q)'
        BY <4>1, <4>2 DEF RankInv, RankTyped, Inside
      <4> QED BY <4>1, <4>2, <4>3, RankStays
    <3> QED BY <3>1, <3>2
  <2> QED BY <2>1, <2>2 DEF IInv
<1>3. CASE UNCHANGED vars
  <2>1. Typed' /\ Procs' = Procs
    <3>1. Shape(request)' = Shape(request)
      BY <1>3 DEF vars, Shape, BalancedDims
    <3> QED BY <1>1, <1>3, <3>1 DEF Typed, vars, Procs
  <2>2. ASSUME NEW q \in Procs PROVE RankInv(q)'
    <3>1. RankInv(q)
      BY <1>1
    <3>2. /\ UNCHANGED <<request, shape>> /\ brokenOff' = brokenOff
          /\ calls'[q] = calls[q] /\ todo'[q] = todo[q] /\ waits'[q] = waits[q]
          /\ held'[q] = held[q] /\ pointers'[q] = pointers[q]
      BY <1>3 DEF vars
    <3>3. waits'[q] \in BOOLEAN /\ Inside(q)' /\ brokenOff \subseteq brokenOff'
      BY <3>1, <3>2 DEF RankInv, RankTyped, Inside
    <3> QED BY <3>1, <3>2, <3>3, RankStays
  <2> QED BY <2>1, <2>2 DEF IInv
<1> QED BY <1>2, <1>3 DEF Next

\* Creations and destructions of each rank are as described, at any time.
THEOREM RanksKeepTrack == Spec => []IInv
<1>1. Init => IInv
  BY IInvInitially
<1>2. IInv /\ [Next]_vars => IInv'
  BY IInvStays
<1> QED BY <1>1, <1>2, PTL DEF Spec


---------------------------------------------------------------------------
(* What callers rely on.                                                   *)

\* The communicator a step waits on is one that exists, and the rank has it.
LEMMA CollectiveFacts ==
  ASSUME NEW r, RankInv(r), todo[r] # <<>>, Head(todo[r]).on # "self"
  PROVE  LET on == Head(todo[r]).on
         IN  on \in Communicators /\ (on = "world" \/ Comm(on) \in held[r])
<1>1. PICK n, o, c, on : /\ n = calls[r] /\ o = ObjectOf(n) /\ c = Creation(r, n)
                         /\ on = Head(todo[r]).on
  OBVIOUS
<1>2. n \in 1 .. 6 /\ o \in Objects
  BY <1>1, ObjectFacts DEF RankInv, RankTyped, Busy, LastCall
<1>3. CASE Creating(r)
  <2>1. n \in 1 .. 3 /\ Sound(c, o, Base(n))
    BY <1>1, <1>3, CreationSound DEF Creating
  <2>2. PICK k \in 1 .. Len(c) : Reached(r, c, k)
    BY <1>1, <1>3 DEF Creating
  <2>3. c \in Seq(AllSteps) /\ c[k] \in AllSteps
    BY <2>1, ElementOfSeq DEF Sound
  <2>4. on = c[k].on
    BY <1>1, <2>2, <2>3, RestNext DEF Reached
  <2>5. on \in Communicators
    BY <1>1, <2>3, <2>4 DEF AllSteps
  <2>6. on = "world" \/ Comm(on) \in Base(n) \cup Made(c, k)
    BY <1>1, <2>1, <2>4 DEF Sound
  <2>7. Made(c, k) \subseteq held[r]
    BY <1>1, <2>2 DEF Reached, Has
  <2>8. Base(n) \subseteq held[r]
    BY <1>1, <1>3, <2>1 DEF Base, Creating, RankInv, Owns
  <2> QED BY <1>1, <2>5, <2>6, <2>7, <2>8
<1>4. CASE Freeing(r)
  <2>1. Has(r, o) \in SUBSET Resources /\ Has(r, o) \subseteq held[r] /\ Has(r, o) \subseteq PartsOf(o)
    BY <1>2, PartsApart DEF Has
  <2>2. Head(todo[r]) = Skip \/ \E res \in Has(r, o) : Head(todo[r]) = Free(res)
    BY <1>1, <1>4, <2>1, ClearsNext DEF Freeing
  <2>3. Skip.on = "self"
    BY DEF Skip, Local, Step
  <2>4. PICK res \in Has(r, o) : Head(todo[r]) = Free(res)
    BY <2>2, <2>3
  <2>5. res = Comm(on)
    BY <1>1, <2>1, <2>4, FreeFacts
  <2>6. \A x \in Objects : \A y : Comm(y) \in PartsOf(x) => y \in Communicators
    BY PartsOfAre, NamesApart DEF Objects, Communicators, Transposes
  <2> QED BY <1>1, <1>2, <2>1, <2>5, <2>6
<1> QED BY <1>3, <1>4 DEF RankInv, Busy

\* Collectives only on communicators that the rank has.
THEOREM CollectivesOnLiveCommunicators == Spec => []OnLiveCommunicator
<1>1. IInv => OnLiveCommunicator
  BY CollectiveFacts DEF IInv, RankInv, Inside, OnLiveCommunicator
<1> QED BY <1>1, RanksKeepTrack, PTL

\* Whatever a caller has a valid pointer to is complete.
THEOREM PointersStayWhole == Spec => []PointersAreWhole
<1>1. IInv => PointersAreWhole
  <2>1. SUFFICES ASSUME IInv, NEW r \in Procs
                 PROVE  /\ "grid" \in pointers[r] => ToSet(GridParts) \subseteq held[r]
                        /\ "problem" \in pointers[r] => ToSet(ProblemParts) \subseteq held[r]
                        /\ "plan" \in pointers[r] =>
                             \A t \in Flags(request) : Plan(t) \in held[r]
    BY DEF PointersAreWhole
  <2>2. \A o \in pointers[r] : PartsOf(o) \subseteq held[r]
    BY <2>1 DEF IInv, RankInv, Owns
  <2>3. Flags(request) \subseteq Transposes
    BY <2>1, RequestsAssumption DEF IInv, Typed, Request, Flags
  <2>4. \A t \in Transposes : Plan(t) \in PartsOf("plan")
    BY PartsOfAre DEF Transposes
  <2>5. PartsOf("grid") = ToSet(GridParts) /\ PartsOf("problem") = ToSet(ProblemParts)
    BY DEF PartsOf
  <2> QED BY <2>2, <2>3, <2>4, <2>5
<1> QED BY <1>1, RanksKeepTrack, PTL

\* Between calls a rank has its objects and nothing else, but for the block of a
\* problem where a broadcast failed on that rank.
THEOREM OnlyTheKnownLeak == Spec => []NothingElseLeaks
<1>1. IInv => NothingElseLeaks
  <2> DEFINE Leak(r) == IF r \in brokenOff THEN {Heap("problem")} ELSE {}
             Owned(r) == UNION {IF "grid" \in pointers[r] THEN ToSet(GridParts) ELSE {},
                                IF "problem" \in pointers[r] THEN ToSet(ProblemParts) ELSE {},
                                IF "plan" \in pointers[r] THEN ToSet(PlanParts) ELSE {}}
  <2>1. SUFFICES ASSUME IInv, NEW r \in Procs, todo[r] = <<>>, NEW x \in held[r], x \notin Leak(r)
                 PROVE  x \in Owned(r)
    BY DEF NothingElseLeaks
  <2>2. PICK o \in Objects : x \in PartsOf(o)
    BY <2>1 DEF IInv, RankInv, RankTyped
  <2>3. o \in pointers[r]
    <3>1. o \notin pointers[r] => Has(r, o) \subseteq Leaked(r, o)
      BY <2>1 DEF IInv, RankInv, Clean
    <3>2. Leaked(r, o) \subseteq Leak(r)
      BY DEF Leaked
    <3> QED BY <2>1, <2>2, <3>1, <3>2 DEF Has
  <2>4. CASE o = "grid"
    BY <2>2, <2>3, <2>4 DEF PartsOf
  <2>5. CASE o = "problem"
    BY <2>2, <2>3, <2>5 DEF PartsOf
  <2>6. CASE o = "plan"
    BY <2>2, <2>3, <2>6 DEF PartsOf
  <2> QED BY <2>4, <2>5, <2>6 DEF Objects
<1> QED BY <1>1, RanksKeepTrack, PTL

\* Every number of ranks has a most balanced grid.
LEMMA BalancedDimsExist ==
  ASSUME NEW n \in Nat \ {0}
  PROVE  LET d == BalancedDims(n, 0, 0)
         IN  /\ d \in (1 .. n) \X (1 .. n) /\ d[1] * d[2] = n /\ d[1] >= d[2]
<1> DEFINE Pairs == (1 .. n) \X (1 .. n)
           Fits(d) == d[1] * d[2] = n /\ d[1] >= d[2]
           T == {x \in 1 .. n : \E y \in 1 .. n : Fits(<<x, y>>)}
<1>1. Fits(<<n, 1>>)
  OBVIOUS
<1>2. T \in SUBSET Nat /\ T # {}
  BY <1>1
<1>3. PICK m \in T : \A x \in T : m <= x
  BY <1>2, LeastNumber
<1>4. PICK k \in 1 .. n : Fits(<<m, k>>)
  BY <1>3
<1>5. \A e \in Pairs : Fits(e) => m <= e[1]
  BY <1>3
<1>6. \E d \in Pairs : Fits(d) /\ \A e \in Pairs : Fits(e) => d[1] <= e[1]
  <2>1. <<m, k>> \in Pairs
    BY <1>3, <1>4
  <2> QED BY <1>4, <1>5, <2>1
<1>7. BalancedDims(n, 0, 0) = CHOOSE d \in Pairs :
                                /\ d[1] * d[2] = n /\ d[1] >= d[2]
                                /\ \A e \in Pairs :
                                     e[1] * e[2] = n /\ e[1] >= e[2] => d[1] <= e[1]
  BY DEF BalancedDims
<1> QED BY <1>6, <1>7

\* Left to itself a grid gives the larger share to the larger of n0 and n2.
THEOREM GridsAligned == Spec => []GridAligned
<1>1. IInv => GridAligned
  <2>1. SUFFICES ASSUME IInv, request.pA = 0, request.pB = 0
                 PROVE  /\ request.n[0] > request.n[2] => shape[2] >= shape[1]
                        /\ request.n[2] > request.n[0] => shape[1] >= shape[2]
    BY DEF GridAligned
  <2>2. /\ request.nproc \in Nat \ {0} /\ shape = Shape(request)
        /\ request.n[0] \in Int /\ request.n[2] \in Int
    BY <2>1, RequestsAssumption DEF IInv, Typed, Request, Directions
  <2>3. PICK d : d = BalancedDims(request.nproc, request.pA, request.pB)
    OBVIOUS
  <2>4. d[1] \in Int /\ d[2] \in Int
    BY <2>1, <2>2, <2>3, BalancedDimsExist
  <2>5. PICK s : s = IF d[1] > d[2] THEN Swapped(d) ELSE d
    OBVIOUS
  <2>6. s[1] \in Int /\ s[2] \in Int /\ s[1] <= s[2]
    BY <2>4, <2>5 DEF Swapped
  <2>7. shape = IF request.n[2] < request.n[0] THEN s ELSE Swapped(s)
    BY <2>1, <2>2, <2>3, <2>5 DEF Shape
  <2> QED BY <2>2, <2>6, <2>7 DEF Swapped
<1> QED BY <1>1, RanksKeepTrack, PTL


\* The variables that have a value for each rank are functions.
PerRank ==
  /\ calls = [q \in Procs |-> calls[q]]
  /\ waits = [q \in Procs |-> waits[q]]
  /\ held = [q \in Procs |-> held[q]]
  /\ pointers = [q \in Procs |-> pointers[q]]

\* Pointers and what is held stay functions of the ranks.
LEMMA PerRankStays ==
  ASSUME PerRank, [Next]_vars
  PROVE  PerRank'
<1>1. CASE UNCHANGED vars
  BY <1>1 DEF vars, PerRank, Procs
<1>2. ASSUME NEW r \in Procs, Proceed(r) \/ ReturnEarly(r) \/ Fail(r)
      PROVE  PerRank'
  <2>1. Procs' = Procs
    BY <1>2 DEF Procs, Proceed, Begin, Do, Enter, Return, ReturnEarly, Fail
  <2>2. \/ calls' = calls
        \/ \E x : calls' = [calls EXCEPT ![r] = x]
    BY <1>2 DEF Proceed, Begin, Do, Enter, Return, ReturnEarly, Fail
  <2>3. \/ waits' = waits
        \/ \E x : waits' = [waits EXCEPT ![r] = x]
    BY <1>2 DEF Proceed, Begin, Do, Enter, Return, ReturnEarly, Fail
  <2>4. \/ held' = held
        \/ \E x : held' = [held EXCEPT ![r] = x]
    BY <1>2 DEF Proceed, Begin, Do, Enter, Return, ReturnEarly, Fail, Ends, Completes, Fails
  <2>5. \/ pointers' = pointers
        \/ \E x : pointers' = [pointers EXCEPT ![r] = x]
    BY <1>2 DEF Proceed, Begin, Do, Enter, Return, ReturnEarly, Fail, Ends, Completes, Fails
  <2>6. calls' = [q \in Procs |-> calls'[q]]
    BY <2>2 DEF PerRank
  <2>7. waits' = [q \in Procs |-> waits'[q]]
    BY <2>3 DEF PerRank
  <2>8. held' = [q \in Procs |-> held'[q]]
    BY <2>4 DEF PerRank
  <2>9. pointers' = [q \in Procs |-> pointers'[q]]
    BY <2>5 DEF PerRank
  <2> QED BY <2>1, <2>6, <2>7, <2>8, <2>9 DEF PerRank
<1> QED BY <1>1, <1>2 DEF Next

\* A pointer lasts until its object is destroyed, those made with it earlier.
Chain(r) ==
  /\ \A o \in pointers[r] : calls[r] < 7 - CreatedBy[o]
  /\ "plan" \in pointers[r] => "problem" \in pointers[r]
  /\ "problem" \in pointers[r] => "grid" \in pointers[r]

\* What a step that returns a pointer returns is what the call creates.
LEMMA ReturnsObject ==
  ASSUME Typed, NEW r \in Procs, RankInv(r), todo[r] # <<>>, Head(todo[r]).do = "return"
  PROVE  Creating(r) /\ Head(todo[r]).res[2] = ObjectOf(calls[r])
<1>1. PICK n, o, c : n = calls[r] /\ o = ObjectOf(n) /\ c = Creation(r, n)
  OBVIOUS
<1>2. n \in 1 .. 6 /\ o \in Objects
  BY <1>1, ObjectFacts DEF RankInv, RankTyped, Busy, LastCall
<1>3. Creating(r)
  <2>1. CASE Freeing(r)
    <3>1. Has(r, o) \in SUBSET Resources
      BY <1>2, PartsApart DEF Has
    <3>2. Head(todo[r]) = Skip \/ \E res \in Has(r, o) : Head(todo[r]) = Free(res)
      BY <1>1, <2>1, <3>1, ClearsNext DEF Freeing
    <3>3. Skip.do = "skip" /\ \A res \in Has(r, o) : Free(res).do = "free"
      BY <3>1, FreeFacts DEF Skip, Local, Step
    <3> QED BY <3>2, <3>3
  <2> QED BY <2>1 DEF RankInv, Busy
<1>4. n \in 1 .. 3 /\ Sound(c, o, Base(n))
  BY <1>1, <1>3, CreationSound DEF Creating
<1>5. PICK k \in 1 .. Len(c) : todo[r] = SubSeq(c, k, Len(c))
  BY <1>1, <1>3 DEF Creating, Reached
<1>6. Head(todo[r]) = c[k]
  BY <1>4, <1>5, RestNext DEF Sound
<1>7. k = Len(c) /\ c[k].res[2] = o
  BY <1>4, <1>6 DEF Sound
<1> QED BY <1>1, <1>3, <1>6, <1>7

\* The chain from a plan to its problem and its grid stays whole.
LEMMA ChainStays ==
  ASSUME Typed, NEW r \in Procs, RankInv(r), Chain(r),
         Proceed(r) \/ ReturnEarly(r) \/ Fail(r)
  PROVE  Chain(r)'
<1>1. /\ calls[r] \in 0 .. 6 /\ pointers[r] \subseteq Objects
      /\ CreatedBy["grid"] = 1 /\ CreatedBy["problem"] = 2 /\ CreatedBy["plan"] = 3
  BY DEF RankInv, RankTyped, LastCall, CreatedBy, Objects
<1>2. CASE Begin(r)
  <2>1. PICK n : n = calls[r]
    OBVIOUS
  <2>2. /\ n \in 0 .. 5 /\ calls'[r] = n + 1
        /\ pointers'[r] = pointers[r] \ Destroyed(n + 1)
    BY <1>1, <1>2, <2>1 DEF Begin, Typed, LastCall
  <2>3. Destroyed(n + 1) = IF n = 3 THEN {"plan"} ELSE IF n = 4 THEN {"problem"}
                           ELSE IF n = 5 THEN {"grid"} ELSE {}
    BY <2>2 DEF Destroyed
  <2>4. /\ "plan" \in pointers[r] => n < 4 /\ "problem" \in pointers[r]
        /\ "problem" \in pointers[r] => n < 5 /\ "grid" \in pointers[r]
        /\ "grid" \in pointers[r] => n < 6
    BY <1>1, <2>1 DEF Chain
  <2>5. ASSUME NEW o \in pointers'[r] PROVE n + 1 < 7 - CreatedBy[o]
    <3>1. o \in pointers[r] /\ o \notin Destroyed(n + 1)
      BY <2>2, <2>5
    <3>2. o = "grid" \/ o = "problem" \/ o = "plan"
      BY <1>1, <3>1 DEF Objects
    <3> QED BY <1>1, <2>2, <2>3, <2>4, <3>1, <3>2
  <2>6. /\ "plan" \in pointers'[r] => "problem" \in pointers'[r]
        /\ "problem" \in pointers'[r] => "grid" \in pointers'[r]
    <3>1. CASE n = 3
      BY <2>2, <2>3, <2>4, <3>1
    <3>2. CASE n = 4
      BY <2>2, <2>3, <2>4, <3>2
    <3>3. CASE n = 5
      BY <2>2, <2>3, <2>4, <3>3
    <3>4. CASE n \notin {3, 4, 5}
      BY <2>2, <2>3, <2>4, <3>4
    <3> QED BY <3>1, <3>2, <3>3, <3>4
  <2> QED BY <2>2, <2>5, <2>6 DEF Chain
<1>3. ASSUME calls' = calls, pointers'[r] = pointers[r]
      PROVE  Chain(r)'
  BY <1>3 DEF Chain
<1>4. ASSUME calls' = calls, todo[r] # <<>>, Completes(r)
      PROVE  Chain(r)'
  <2>1. CASE Head(todo[r]).do # "return"
    <3>1. pointers'[r] = pointers[r]
      BY <1>4, <2>1 DEF Completes, Typed
    <3> QED BY <1>3, <1>4, <3>1
  <2>2. CASE Head(todo[r]).do = "return"
    <3>1. PICK n, o : n = calls[r] /\ o = ObjectOf(n)
      OBVIOUS
    <3>2. /\ Creating(r) /\ n \in 1 .. 3 /\ Head(todo[r]).res[2] = o
          /\ n = 2 => "grid" \in pointers[r]
          /\ n = 3 => "problem" \in pointers[r]
      BY <1>4, <2>2, <3>1, ReturnsObject DEF Creating
    <3>3. CreatedBy[o] = n /\ calls'[r] = n
      BY <1>4, <3>1, <3>2, ObjectFacts
    <3>4. pointers'[r] = pointers[r] \cup {o}
      BY <1>4, <2>2, <3>2 DEF Completes, Typed
    <3>5. o = IF n = 1 THEN "grid" ELSE IF n = 2 THEN "problem" ELSE "plan"
      BY <3>1, <3>2 DEF ObjectOf
    <3>6. \A x \in pointers'[r] : n < 7 - CreatedBy[x]
      <4>1. \A x \in pointers[r] : n < 7 - CreatedBy[x]
        BY <3>1 DEF Chain
      <4>2. n < 7 - n
        BY <3>2
      <4> QED BY <3>3, <3>4, <4>1, <4>2
    <3>7. /\ "plan" \in pointers'[r] => "problem" \in pointers'[r]
          /\ "problem" \in pointers'[r] => "grid" \in pointers'[r]
      BY <3>2, <3>4, <3>5 DEF Chain
    <3> QED BY <3>3, <3>6, <3>7 DEF Chain
  <2> QED BY <2>1, <2>2
<1>5. CASE Do(r)
  BY <1>3, <1>4, <1>5 DEF Do, Ends, Fails
<1>6. CASE Enter(r)
  BY <1>3, <1>6 DEF Enter
<1>7. CASE Return(r)
  BY <1>3, <1>4, <1>7 DEF Return, Ends, Fails, RankInv, Inside
<1>8. CASE ReturnEarly(r)
  BY <1>4, <1>8 DEF ReturnEarly, RankInv, Inside
<1>9. CASE Fail(r)
  BY <1>3, <1>9 DEF Fail, Fails
<1> QED BY <1>2, <1>5, <1>6, <1>7, <1>8, <1>9 DEF Proceed

\* On all ranks, whoever moves.
LEMMA ChainsStay ==
  ASSUME IInv, \A q \in Procs : Chain(q), [Next]_vars
  PROVE  (\A q \in Procs : Chain(q))'
<1>1. Typed /\ \A q \in Procs : RankInv(q)
  BY DEF IInv
<1>2. ASSUME NEW r \in Procs, Proceed(r) \/ ReturnEarly(r) \/ Fail(r)
      PROVE  (\A q \in Procs : Chain(q))'
  <2>1. Procs' = Procs
    BY <1>1, <1>2, TypedStays
  <2>2. ASSUME NEW q \in Procs PROVE Chain(q)'
    <3>1. CASE q = r
      BY <1>1, <1>2, <3>1, ChainStays
    <3>2. CASE q # r
      <4>1. calls'[q] = calls[q] /\ pointers'[q] = pointers[q]
        BY <1>1, <1>2, <3>2, OthersStay
      <4> QED BY <4>1 DEF Chain
    <3> QED BY <3>1, <3>2
  <2> QED BY <2>1, <2>2
<1>3. CASE UNCHANGED vars
  BY <1>3 DEF vars, Chain, Procs
<1> QED BY <1>2, <1>3 DEF Next

\* Calls, failures and resources stay within their bounds, whoever is inside a
\* collective has one to be inside of, and a plan has its problem and its grid.
THEOREM TypesStay == Spec => []TypeOK
<1>1. Init => PerRank
  BY DEF Init, PerRank
<1>2. PerRank /\ [Next]_vars => PerRank'
  BY PerRankStays
<1>3. Spec => []PerRank
  BY <1>1, <1>2, PTL DEF Spec
<1> DEFINE Chains == \A q \in Procs : Chain(q)
<1>4. Init => Chains
  BY DEF Init, Chain
<1>5. IInv /\ Chains /\ [Next]_vars => Chains'
  BY ChainsStay
<1>6. Spec => []Chains
  <2> HIDE DEF Chains
  <2> QED BY <1>4, <1>5, RanksKeepTrack, PTL DEF Spec
<1>7. IInv /\ PerRank /\ Chains => TypeOK
  <2>1. SUFFICES ASSUME IInv, PerRank, Chains PROVE TypeOK
    OBVIOUS
  <2>2. /\ request \in Requests /\ shape = Shape(request) /\ failures \in 0 .. request.failures
        /\ brokenOff \subseteq Procs
    BY <2>1 DEF IInv, Typed
  <2>3. \A r \in Procs : /\ calls[r] \in 0 .. LastCall /\ waits[r] \in BOOLEAN
                         /\ held[r] \subseteq Resources
                         /\ pointers[r] \subseteq {"grid", "problem", "plan"}
    BY <2>1, HeldExists DEF IInv, RankInv, RankTyped, Objects
  <2>4. calls \in [Procs -> 0 .. LastCall] /\ waits \in [Procs -> BOOLEAN]
    BY <2>1, <2>3 DEF PerRank
  <2>5. held \in [Procs -> SUBSET Resources]
    BY <2>1, <2>3 DEF PerRank
  <2>6. pointers \in [Procs -> SUBSET {"grid", "problem", "plan"}]
    BY <2>1, <2>3 DEF PerRank
  <2>7. \A r \in Procs : waits[r] => todo[r] # <<>> /\ Head(todo[r]).on \in Communicators
    BY <2>1, CollectiveFacts DEF IInv, RankInv, Inside
  <2>8. \A r \in Procs : /\ "plan" \in pointers[r] => "problem" \in pointers[r]
                         /\ "problem" \in pointers[r] => "grid" \in pointers[r]
    BY <2>1 DEF Chain
  <2> QED BY <2>2, <2>4, <2>5, <2>6, <2>7, <2>8 DEF TypeOK
<1> HIDE DEF Chains
<1> QED BY <1>3, <1>6, <1>7, RanksKeepTrack, PTL

---------------------------------------------------------------------------
(* The collectives of a rank's whole life, as long as no single rank fails:*)
(* what is entered on a communicator is a script that its ranks share.     *)

GridOK    == ArgumentsPass(request) /\ ShapePasses(request, shape)
ProblemOK == GridOK /\ request.howmany >= 0

\* FFTW finds no plan for t.
Stops(r, t) == t \in request.unplannable /\ ~TrivialOn(request, r, t)

\* What underling_plan_create plans before a transpose.
Before(t) == CASE t = "bA" -> {} [] t = "bB" -> {"bA"} [] t = "fB" -> {"bA", "bB"}
               [] t = "fA" -> {"bA", "bB", "fB"}

\* r comes to plan t, and takes part in it.
Plans(r, t) == ~TrivialOn(request, r, t) /\ \A u \in Before(t) : ~Stops(r, u)

PlanOf(t) == Step("plan", t, Plan(t))
DupOf(t)  == CASE t = "bA" -> Step("dup", "A", Comm("bA"))
               [] t = "bB" -> Step("dup", "B", Comm("bB"))
               [] t = "fB" -> Step("dup", "bB", Comm("fB"))
               [] t = "fA" -> Step("dup", "bA", Comm("fA"))

\* The collectives of r on a transpose's communicator.
OnTranspose(r, t) ==
  CASE t = "bA" -> IF Plans(r, t) THEN <<DupOf("fA"), PlanOf(t), Free(Comm(t))>>
                   ELSE <<DupOf("fA"), Free(Comm(t))>>
    [] t = "bB" -> IF Plans(r, t) THEN <<DupOf("fB"), PlanOf(t), Free(Comm(t))>>
                   ELSE <<DupOf("fB"), Free(Comm(t))>>
    [] t \in {"fB", "fA"} -> IF Plans(r, t) THEN <<PlanOf(t), Free(Comm(t))>>
                             ELSE <<Free(Comm(t))>>

OnSide(c) ==
  IF ProblemOK
  THEN <<Step("bcast", c, Nothing), DupOf(IF c = "A" THEN "bA" ELSE "bB"), Free(Comm(c))>>
  ELSE <<Free(Comm(c))>>

\* The collectives of rank r on communicator c.
Script(r, c) ==
  IF ~GridOK THEN <<>>
  ELSE CASE c = "world"      -> <<Step("cart", "world", Comm("g"))>>
         [] c = "g"          -> <<Step("sub", "g", Comm("A")), Step("sub", "g", Comm("B")),
                                  Free(Comm("g"))>>
         [] c \in {"A", "B"} -> OnSide(c)
         [] c \in Transposes -> IF ProblemOK THEN OnTranspose(r, c) ELSE <<>>

\* The call that a collective is part of.
CallOf(e) ==
  CASE e.do \in {"cart", "sub"}                -> 1
    [] e.do \in {"bcast", "dup"}               -> 2
    [] e.do = "plan"                           -> 3
    [] e.do = "free" /\ e.on \in Transposes    -> 5
    [] e.do = "free" /\ e.on \notin Transposes -> 6

\* The collectives of rank r in its k-th call.
Collectives(r, k) ==
  CASE k = 1 -> IF GridOK THEN {Step("cart", "world", Comm("g")), Step("sub", "g", Comm("A")),
                                Step("sub", "g", Comm("B"))}
                ELSE {}
    [] k = 2 -> IF ProblemOK THEN {Step("bcast", c, Nothing) : c \in {"A", "B"}}
                                    \cup {DupOf(t) : t \in Transposes}
                ELSE {}
    [] k = 3 -> IF ProblemOK THEN {PlanOf(t) : t \in {u \in Transposes : Plans(r, u)}} ELSE {}
    [] k = 5 -> IF ProblemOK THEN {Free(Comm(t)) : t \in Transposes} ELSE {}
    [] k = 6 -> IF GridOK THEN {Free(Comm(c)) : c \in {"g", "A", "B"}} ELSE {}
    [] OTHER -> {}

\* d comes before e in one call, or at all.
Paired(d, e) ==
  \/ d = Step("sub", "g", Comm("A")) /\ e = Step("sub", "g", Comm("B"))
  \/ d = Step("bcast", "A", Nothing) /\ e = DupOf("bA")
  \/ d = Step("bcast", "B", Nothing) /\ e = DupOf("bB")

Sooner(d, e) == CallOf(d) < CallOf(e) \/ Paired(d, e)

\* Rank r has not entered e yet.
Pending(r, e) ==
  \/ calls[r] < CallOf(e)
  \/ calls[r] = CallOf(e) /\ \E i \in 1 .. Len(todo[r]) : todo[r][i] = e /\ (i = 1 => ~waits[r])

\* What r has entered on a communicator is its script up to what is pending.
RecordedOn(r, c, s) ==
  \E n \in 0 .. Len(s) :
    /\ entered[r][c] = [j \in 1 .. n |-> <<s[j].do, s[j].res>>]
    /\ \A j \in 1 .. Len(s) : j <= n <=> ~Pending(r, s[j])

Recorded(r) == \A c \in Communicators : RecordedOn(r, c, Script(r, c))

\* No collective is left.
Quiet(r) == \A i \in 1 .. Len(todo[r]) : todo[r][i].on = "self"

\* A creation that will have succeeded when all its steps have.
Returns(r) == todo[r] # <<>> /\ todo[r][Len(todo[r])].do = "return"

\* What there was to begin with.
Grounds(r) ==
  /\ "grid" \in pointers[r] => GridOK
  /\ "problem" \in pointers[r] => ProblemOK
  /\ todo[r] # <<>> =>
       /\ calls[r] = 1 => ArgumentsPass(request)
       /\ calls[r] \in {2, 3, 5} => ProblemOK
       /\ calls[r] = 6 => GridOK

\* Without failures of single ranks, what can be made is made.
Succeeds(r) ==
  /\ GridOK /\ (calls[r] \in 2 .. 5 \/ (calls[r] = 1 /\ todo[r] = <<>>)) => "grid" \in pointers[r]
  /\ ProblemOK /\ (calls[r] \in 3 .. 4 \/ (calls[r] = 2 /\ todo[r] = <<>>)) =>
       "problem" \in pointers[r]
  /\ calls[r] \in 1 .. 3 /\ todo[r] # <<>> =>
       \/ Returns(r)
       \/ Quiet(r) /\ calls[r] # 2 /\ (calls[r] = 1 => ~GridOK)
  /\ calls[r] = 4 => Quiet(r)
  /\ calls[r] = 3 /\ Returns(r) =>
       \A t \in Transposes :
         (\A i \in 1 .. Len(todo[r]) : todo[r][i].res # Plan(t)) => ~Stops(r, t)

Logged == DOMAIN entered = Procs /\ \A r \in Procs : DOMAIN entered[r] = Communicators

History(r) == Grounds(r) /\ (failures = 0 => Succeeds(r) /\ Recorded(r))

HInv == Logged /\ \A r \in Procs : History(r)

\* The calls that the collectives are part of.
LEMMA CallsAre ==
  /\ \A on, res : /\ CallOf(Step("cart", on, res)) = 1 /\ CallOf(Step("sub", on, res)) = 1
                  /\ CallOf(Step("bcast", on, res)) = 2 /\ CallOf(Step("dup", on, res)) = 2
                  /\ CallOf(Step("plan", on, res)) = 3
  /\ \A t : CallOf(PlanOf(t)) = 3
  /\ \A t \in Transposes : CallOf(DupOf(t)) = 2
  /\ \A t \in Transposes : CallOf(Free(Comm(t))) = 5
  /\ \A c \in {"g", "A", "B"} : CallOf(Free(Comm(c))) = 6
<1>1. \A on, res : /\ CallOf(Step("cart", on, res)) = 1 /\ CallOf(Step("sub", on, res)) = 1
                   /\ CallOf(Step("bcast", on, res)) = 2 /\ CallOf(Step("dup", on, res)) = 2
                   /\ CallOf(Step("plan", on, res)) = 3
  BY DEF CallOf, Step
<1>2. \A c : Free(Comm(c)) = Step("free", c, Comm(c))
  BY DEF Free, Comm
<1>3. \A t \in Transposes : CallOf(Step("free", t, Comm(t))) = 5
  BY DEF CallOf, Step
<1>4. \A c \in {"g", "A", "B"} : CallOf(Step("free", c, Comm(c))) = 6
  BY DEF CallOf, Step, Transposes
<1>5. \A t \in Transposes : \E on : DupOf(t) = Step("dup", on, Comm(t))
  BY DEF DupOf, Transposes
<1> QED BY <1>1, <1>2, <1>3, <1>4, <1>5 DEF PlanOf

\* The communicators they are on.
LEMMA OnAre ==
  /\ \A do, on, res : Step(do, on, res).on = on /\ Step(do, on, res).do = do
  /\ \A t : PlanOf(t).on = t
  /\ DupOf("bA").on = "A" /\ DupOf("bB").on = "B" /\ DupOf("fB").on = "bB"
  /\ DupOf("fA").on = "bA"
  /\ \A c : Free(Comm(c)).on = c
<1>1. \A c : Free(Comm(c)) = Step("free", c, Comm(c))
  BY DEF Free, Comm
<1> QED BY <1>1 DEF Step, PlanOf, DupOf

\* The script has the collectives of its communicator, in order.
Ordered(r, c, s) ==
  /\ Len(s) \in Nat
  /\ \A j \in 1 .. Len(s) :
       s[j].on = c /\ CallOf(s[j]) \in 1 .. 6 /\ s[j] \in Collectives(r, CallOf(s[j]))
  /\ \A i, j \in 1 .. Len(s) : i < j => Sooner(s[i], s[j])

\* A script is in the order of the calls, and has collectives of its rank only.
LEMMA ScriptFacts ==
  ASSUME NEW r, NEW c \in Communicators
  PROVE  Ordered(r, c, Script(r, c))
<1> DEFINE s == Script(r, c)
<1>1. CASE s = <<>>
  BY <1>1 DEF Ordered
<1>2. CASE GridOK /\ c = "world"
  <2>1. s = <<Step("cart", "world", Comm("g"))>>
    BY <1>2 DEF Script, Transposes
  <2>2. PICK e : e = Step("cart", "world", Comm("g"))
    OBVIOUS
  <2>3. e.on = c /\ CallOf(e) = 1 /\ e \in Collectives(r, 1)
    BY <1>2, <2>2, CallsAre, OnAre DEF Collectives
  <2> QED BY <2>1, <2>2, <2>3 DEF Ordered
<1>3. CASE GridOK /\ c = "g"
  <2>1. PICK e1, e2, e3 : /\ e1 = Step("sub", "g", Comm("A")) /\ e2 = Step("sub", "g", Comm("B"))
                          /\ e3 = Free(Comm("g"))
    OBVIOUS
  <2>2. s = <<e1, e2, e3>>
    BY <1>3, <2>1 DEF Script, Transposes
  <2>3. CallOf(e1) = 1 /\ CallOf(e2) = 1 /\ CallOf(e3) = 6
    BY <2>1, CallsAre
  <2>4. e1.on = c /\ e2.on = c /\ e3.on = c
    BY <1>3, <2>1, OnAre
  <2>5. e1 \in Collectives(r, 1) /\ e2 \in Collectives(r, 1) /\ e3 \in Collectives(r, 6)
    BY <1>3, <2>1 DEF Collectives
  <2>6. Sooner(e1, e2) /\ Sooner(e1, e3) /\ Sooner(e2, e3)
    BY <2>1, <2>3 DEF Sooner, Paired
  <2> QED BY <2>2, <2>3, <2>4, <2>5, <2>6 DEF Ordered
<1>4. CASE GridOK /\ c \in {"A", "B"}
  <2>1. PICK t : t = IF c = "A" THEN "bA" ELSE "bB"
    OBVIOUS
  <2>2. PICK e1, e2, e3 : /\ e1 = Step("bcast", c, Nothing) /\ e2 = DupOf(t)
                          /\ e3 = Free(Comm(c))
    OBVIOUS
  <2>3. s = IF ProblemOK THEN <<e1, e2, e3>> ELSE <<e3>>
    BY <1>4, <2>1, <2>2 DEF Script, OnSide, Transposes
  <2>4. CallOf(e1) = 2 /\ CallOf(e2) = 2 /\ CallOf(e3) = 6
    <3>1. t \in Transposes
      BY <2>1 DEF Transposes
    <3> QED BY <1>4, <2>2, <3>1, CallsAre
  <2>5. e1.on = c /\ e2.on = c /\ e3.on = c
    BY <1>4, <2>1, <2>2, OnAre
  <2>6. ProblemOK => e1 \in Collectives(r, 2) /\ e2 \in Collectives(r, 2)
    BY <1>4, <2>1, <2>2 DEF Collectives, Transposes
  <2>7. e3 \in Collectives(r, 6)
    BY <1>4, <2>2 DEF Collectives
  <2>8. Sooner(e1, e2) /\ Sooner(e1, e3) /\ Sooner(e2, e3)
    BY <1>4, <2>1, <2>2, <2>4 DEF Sooner, Paired
  <2> QED BY <2>3, <2>4, <2>5, <2>6, <2>7, <2>8 DEF Ordered
<1>5. CASE ProblemOK /\ c \in Transposes
  <2>1. PICK u, e1, e2, e3 : /\ u = (IF c = "bA" THEN "fA" ELSE "fB") /\ e1 = DupOf(u)
                             /\ e2 = PlanOf(c) /\ e3 = Free(Comm(c))
    OBVIOUS
  <2>2. s = OnTranspose(r, c)
    <3>1. GridOK /\ c \notin {"world", "g", "A", "B"}
      BY <1>5 DEF ProblemOK, Transposes
    <3> QED BY <1>5, <3>1 DEF Script
  <2>3. s = IF c \in {"bA", "bB"} THEN IF Plans(r, c) THEN <<e1, e2, e3>> ELSE <<e1, e3>>
            ELSE IF Plans(r, c) THEN <<e2, e3>> ELSE <<e3>>
    BY <1>5, <2>1, <2>2 DEF OnTranspose, Transposes
  <2>4. CallOf(e1) = 2 /\ CallOf(e2) = 3 /\ CallOf(e3) = 5
    <3>1. u \in Transposes
      BY <2>1 DEF Transposes
    <3> QED BY <1>5, <2>1, <3>1, CallsAre
  <2>5. (c \in {"bA", "bB"} => e1.on = c) /\ e2.on = c /\ e3.on = c
    BY <1>5, <2>1, OnAre
  <2>6. e1 \in Collectives(r, 2) /\ e3 \in Collectives(r, 5)
    BY <1>5, <2>1 DEF Collectives, Transposes
  <2>7. Plans(r, c) => e2 \in Collectives(r, 3)
    BY <1>5, <2>1 DEF Collectives
  <2>8. Sooner(e1, e2) /\ Sooner(e1, e3) /\ Sooner(e2, e3)
    BY <2>4 DEF Sooner, Paired
  <2> QED BY <2>3, <2>4, <2>5, <2>6, <2>7, <2>8 DEF Ordered
<1>6. s = <<>> \/ GridOK
  BY DEF Script
<1>7. c \in Transposes /\ ~ProblemOK => s = <<>>
  <2>1. c \in Transposes => c \notin {"world", "g", "A", "B"}
    BY DEF Transposes
  <2> QED BY <2>1 DEF Script
<1>8. c \in {"world", "g", "A", "B"} \/ c \in Transposes
  BY DEF Communicators
<1> QED BY <1>1, <1>2, <1>3, <1>4, <1>5, <1>6, <1>7, <1>8

\* Every collective is in a script.
LEMMA ScriptHas ==
  ASSUME NEW r, NEW k, NEW e \in Collectives(r, k)
  PROVE  /\ e.on \in Communicators /\ CallOf(e) = k
         /\ \E j \in 1 .. Len(Script(r, e.on)) : Script(r, e.on)[j] = e
<1> DEFINE Found(c) == /\ e.on = c /\ c \in Communicators /\ CallOf(e) = k
                       /\ \E j \in 1 .. Len(Script(r, c)) : Script(r, c)[j] = e
<1>1. CASE k = 1
  <2>1. GridOK
    BY <1>1 DEF Collectives
  <2>2. CASE e = Step("cart", "world", Comm("g"))
    <3>1. Script(r, "world") = <<e>>
      BY <2>1, <2>2 DEF Script, Transposes
    <3>2. CallOf(e) = 1 /\ e.on = "world" /\ "world" \in Communicators
      BY <2>2, CallsAre, OnAre DEF Communicators
    <3>3. Len(Script(r, "world")) = 1 /\ Script(r, "world")[1] = e
      BY <3>1
    <3> QED BY <1>1, <3>2, <3>3
  <2>3. CASE e \in {Step("sub", "g", Comm("A")), Step("sub", "g", Comm("B"))}
    <3>1. Script(r, "g") = <<Step("sub", "g", Comm("A")), Step("sub", "g", Comm("B")),
                               Free(Comm("g"))>>
      BY <2>1 DEF Script, Transposes
    <3>2. CallOf(e) = 1 /\ e.on = "g" /\ "g" \in Communicators
      BY <2>3, CallsAre, OnAre DEF Communicators
    <3>3. Len(Script(r, "g")) = 3 /\ (Script(r, "g")[1] = e \/ Script(r, "g")[2] = e)
      BY <2>3, <3>1
    <3> QED BY <1>1, <3>2, <3>3
  <2> QED BY <1>1, <2>2, <2>3 DEF Collectives
<1>2. CASE k = 2
  <2>1. ProblemOK /\ GridOK
    BY <1>2 DEF Collectives, ProblemOK
  <2>2. ASSUME NEW c \in {"A", "B"},
               e = Step("bcast", c, Nothing) \/ e = DupOf(IF c = "A" THEN "bA" ELSE "bB")
        PROVE  Found(c)
    <3>1. Script(r, c) = <<Step("bcast", c, Nothing), DupOf(IF c = "A" THEN "bA" ELSE "bB"),
                           Free(Comm(c))>>
      BY <2>1 DEF Script, OnSide, Transposes
    <3>2. CallOf(e) = 2 /\ e.on = c /\ c \in Communicators
      <4>1. CASE e = Step("bcast", c, Nothing)
        BY <4>1, CallsAre, OnAre DEF Communicators
      <4>2. CASE e = DupOf(IF c = "A" THEN "bA" ELSE "bB")
        BY <4>2, CallsAre, OnAre DEF Communicators, Transposes
      <4> QED BY <2>2, <4>1, <4>2
    <3>3. Len(Script(r, c)) = 3 /\ (Script(r, c)[1] = e \/ Script(r, c)[2] = e)
      BY <2>2, <3>1
    <3> QED BY <1>2, <3>2, <3>3
  <2>3. ASSUME NEW c \in {"bA", "bB"}, e = DupOf(IF c = "bA" THEN "fA" ELSE "fB")
        PROVE  Found(c)
    <3>1. PICK s : s = Script(r, c)
      OBVIOUS
    <3>2. s = OnTranspose(r, c)
      BY <2>1, <3>1 DEF Script, Transposes
    <3>3. s = IF Plans(r, c) THEN <<e, PlanOf(c), Free(Comm(c))>> ELSE <<e, Free(Comm(c))>>
      BY <2>3, <3>2 DEF OnTranspose
    <3>4. CallOf(e) = 2 /\ e.on = c /\ c \in Communicators
      BY <2>3, CallsAre, OnAre DEF Communicators, Transposes
    <3>5. 1 \in 1 .. Len(s) /\ s[1] = e
      BY <3>3
    <3> QED BY <1>2, <3>1, <3>4, <3>5
  <2>4. \/ \E c \in {"A", "B"} :
             e = Step("bcast", c, Nothing) \/ e = DupOf(IF c = "A" THEN "bA" ELSE "bB")
        \/ \E c \in {"bA", "bB"} : e = DupOf(IF c = "bA" THEN "fA" ELSE "fB")
    BY <1>2, <2>1 DEF Collectives, Transposes
  <2> QED BY <2>2, <2>3, <2>4
<1>3. ASSUME NEW t \in Transposes, ProblemOK,
             (k = 3 /\ Plans(r, t) /\ e = PlanOf(t)) \/ (k = 5 /\ e = Free(Comm(t)))
      PROVE  Found(t)
  <2>1. PICK s : s = Script(r, t)
    OBVIOUS
  <2>2. s = OnTranspose(r, t)
    <3>1. GridOK /\ t \notin {"world", "g", "A", "B"}
      BY <1>3 DEF ProblemOK, Transposes
    <3> QED BY <1>3, <2>1, <3>1 DEF Script
  <2>3. e.on = t /\ CallOf(e) = k /\ t \in Communicators
    BY <1>3, CallsAre, OnAre DEF Communicators
  <2>4. PICK d : d \in {DupOf("fA"), DupOf("fB")} /\
                 s = IF t \in {"bA", "bB"}
                     THEN IF Plans(r, t) THEN <<d, PlanOf(t), Free(Comm(t))>>
                          ELSE <<d, Free(Comm(t))>>
                     ELSE IF Plans(r, t) THEN <<PlanOf(t), Free(Comm(t))>>
                          ELSE <<Free(Comm(t))>>
    BY <2>2 DEF OnTranspose, Transposes
  <2>5. \E j \in 1 .. Len(s) : s[j] = e
    <3>1. (Len(s) = 3 /\ s[2] = PlanOf(t) /\ s[3] = Free(Comm(t)) /\ Plans(r, t))
          \/ (Len(s) = 2 /\ s[2] = Free(Comm(t)) /\ ~Plans(r, t))
          \/ (Len(s) = 2 /\ s[1] = PlanOf(t) /\ s[2] = Free(Comm(t)) /\ Plans(r, t))
          \/ (Len(s) = 1 /\ s[1] = Free(Comm(t)) /\ ~Plans(r, t))
      BY <2>4
    <3> QED BY <1>3, <3>1
  <2> QED BY <2>1, <2>3, <2>5
<1>4. CASE k = 6
  <2>1. PICK c \in {"g", "A", "B"} : GridOK /\ e = Free(Comm(c))
    BY <1>4 DEF Collectives
  <2>2. e.on = c /\ CallOf(e) = 6 /\ c \in Communicators
    BY <2>1, CallsAre, OnAre DEF Communicators
  <2>3. PICK s : s = Script(r, c)
    OBVIOUS
  <2>4. \/ \E x, y : s = <<x, y, e>>
        \/ s = <<e>>
    BY <2>1, <2>3 DEF Script, OnSide, Transposes
  <2>5. \E j \in 1 .. Len(s) : s[j] = e
    BY <2>4
  <2> QED BY <1>4, <2>2, <2>3, <2>5
<1>5. k \in {1, 2, 3, 5, 6}
  BY DEF Collectives
<1>6. k = 3 => \E t \in Transposes : ProblemOK /\ Plans(r, t) /\ e = PlanOf(t)
  BY DEF Collectives
<1>7. k = 5 => \E t \in Transposes : ProblemOK /\ e = Free(Comm(t))
  BY DEF Collectives
<1>8. CASE k = 3
  <2>1. PICK t \in Transposes : ProblemOK /\ Plans(r, t) /\ e = PlanOf(t)
    BY <1>6, <1>8
  <2>2. Found(t)
    BY <1>3, <1>8, <2>1
  <2> QED BY <2>2
<1>9. CASE k = 5
  <2>1. PICK t \in Transposes : ProblemOK /\ e = Free(Comm(t))
    BY <1>7, <1>9
  <2>2. Found(t)
    BY <1>3, <1>9, <2>1
  <2> QED BY <2>2
<1> QED BY <1>1, <1>2, <1>4, <1>5, <1>8, <1>9

\* Scripts depend on the arguments alone.
LEMMA ScriptStays ==
  ASSUME NEW r, UNCHANGED <<request, shape>>
  PROVE  /\ GridOK' = GridOK /\ ProblemOK' = ProblemOK
         /\ \A t : Stops(r, t)' = Stops(r, t)
         /\ \A c : Script(r, c)' = Script(r, c)
         /\ \A k : Collectives(r, k)' = Collectives(r, k)
<1>1. GridOK' = GridOK /\ ProblemOK' = ProblemOK
  BY DEF ProblemOK, GridOK, ShapePasses, ArgumentsPass
<1>2. \A t : TrivialOn(request, r, t)' = TrivialOn(request, r, t)
  BY DEF TrivialOn, Coordinates
<1>3. \A t : Stops(r, t)' = Stops(r, t)
  BY <1>2 DEF Stops
<1>4. \A t : Plans(r, t)' = Plans(r, t)
  BY <1>2, <1>3 DEF Plans
<1>5. \A t : OnTranspose(r, t)' = OnTranspose(r, t)
  BY <1>4 DEF OnTranspose
<1>6. \A c : OnSide(c)' = OnSide(c)
  BY <1>1 DEF OnSide
<1>7. \A c : Script(r, c)' = Script(r, c)
  BY <1>1, <1>5, <1>6 DEF Script
<1>8. {u \in Transposes : Plans(r, u)}' = {u \in Transposes : Plans(r, u)}
  BY <1>4
<1>9. {PlanOf(t) : t \in {u \in Transposes : Plans(r, u)}}'
        = {PlanOf(t) : t \in {u \in Transposes : Plans(r, u)}}
  BY <1>8
<1>10. \A k : Collectives(r, k)' = Collectives(r, k)
  BY <1>1, <1>9 DEF Collectives
<1> QED BY <1>1, <1>3, <1>7, <1>10

\* The ranks of a communicator have the same script for it.
LEMMA ScriptShared ==
  ASSUME PlansFailTogether, NEW r \in Procs, NEW c \in Communicators, NEW q \in Members(r, c)
  PROVE  Script(q, c) = Script(r, c)
<1>1. q \in Procs
  BY DEF Members, Communicators, Transposes
<1>2. \A u : Stops(q, u) <=> Stops(r, u)
  BY <1>1 DEF PlansFailTogether, Stops
<1>3. ASSUME c \in Transposes
      PROVE  TrivialOn(request, q, c) <=> TrivialOn(request, r, c)
  <2>1. PICK p, x, y : /\ p = [n |-> request.n, pA |-> shape[1], pB |-> shape[2],
                                howmany |-> request.howmany, tn2 |-> FALSE, tn0 |-> FALSE]
                       /\ x = Coordinates(q) /\ y = Coordinates(r)
    OBVIOUS
  <2>2. CASE c \in {"bA", "fA"}
    <3>1. x.b = y.b
      BY <2>1, <2>2 DEF Members, Transposes
    <3>2. BackwardA(p, x).d0 = BackwardA(p, y).d0
      <4>1. Size(p, x, 2, 0) = Size(p, y, 2, 0)
        BY <3>1 DEF Size, SplitOverB
      <4> QED BY <4>1 DEF BackwardA
    <3>3. /\ BackwardA(p, x).d1 = BackwardA(p, y).d1
          /\ BackwardA(p, x).howmany = BackwardA(p, y).howmany
      BY DEF BackwardA
    <3>4. TransposeOf(p, x, WayOf[c]) \in {BackwardA(p, x), InverseTranspose(BackwardA(p, x))}
      BY <2>2 DEF TransposeOf, WayOf
    <3>5. TransposeOf(p, y, WayOf[c]) \in {BackwardA(p, y), InverseTranspose(BackwardA(p, y))}
      BY <2>2 DEF TransposeOf, WayOf
    <3>6. Trivial(TransposeOf(p, x, WayOf[c])) <=> Trivial(TransposeOf(p, y, WayOf[c]))
      BY <3>2, <3>3, <3>4, <3>5 DEF Trivial, InverseTranspose
    <3> QED BY <2>1, <3>6 DEF TrivialOn
  <2>3. CASE c \in {"bB", "fB"}
    <3>1. x.a = y.a
      BY <2>1, <2>3 DEF Members, Transposes
    <3>2. BackwardB(p, x).d0 = BackwardB(p, y).d0
      <4>1. Size(p, x, 1, 2) = Size(p, y, 1, 2)
        BY <3>1 DEF Size, SplitOverB
      <4> QED BY <4>1 DEF BackwardB
    <3>3. /\ BackwardB(p, x).d1 = BackwardB(p, y).d1
          /\ BackwardB(p, x).howmany = BackwardB(p, y).howmany
      BY DEF BackwardB
    <3>4. TransposeOf(p, x, WayOf[c]) \in {BackwardB(p, x), InverseTranspose(BackwardB(p, x))}
      BY <2>3 DEF TransposeOf, WayOf
    <3>5. TransposeOf(p, y, WayOf[c]) \in {BackwardB(p, y), InverseTranspose(BackwardB(p, y))}
      BY <2>3 DEF TransposeOf, WayOf
    <3>6. Trivial(TransposeOf(p, x, WayOf[c])) <=> Trivial(TransposeOf(p, y, WayOf[c]))
      BY <3>2, <3>3, <3>4, <3>5 DEF Trivial, InverseTranspose
    <3> QED BY <2>1, <3>6 DEF TrivialOn
  <2> QED BY <1>3, <2>2, <2>3 DEF Transposes
<1>4. c \in Transposes => (Plans(q, c) <=> Plans(r, c))
  BY <1>2, <1>3 DEF Plans
<1>5. c \in Transposes => OnTranspose(q, c) = OnTranspose(r, c)
  BY <1>4 DEF OnTranspose
<1> QED BY <1>5 DEF Script, Communicators, Transposes

\* No collective comes before itself.
LEMMA SoonerApart ==
  ASSUME NEW e, CallOf(e) \in Int
  PROVE  ~Sooner(e, e)
<1>1. Step("sub", "g", Comm("A")) # Step("sub", "g", Comm("B"))
  BY NamesApart DEF Step
<1>2. \A c : Step("bcast", c, Nothing).do # DupOf("bA").do
              /\ Step("bcast", c, Nothing).do # DupOf("bB").do
  BY DEF Step, DupOf
<1> QED BY <1>1, <1>2 DEF Sooner, Paired

\* A step that enters nothing and leaves the collectives that are pending.
LEMMA RecordStays ==
  ASSUME NEW r, Recorded(r), UNCHANGED <<request, shape>>, entered'[r] = entered[r],
         \A k \in 1 .. 6 : \A e \in Collectives(r, k) : Pending(r, e)' <=> Pending(r, e)
  PROVE  Recorded(r)'
<1>1. \A c : Script(r, c)' = Script(r, c)
  BY ScriptStays
<1>2. ASSUME NEW c \in Communicators
      PROVE  RecordedOn(r, c, Script(r, c))'
  <2>1. PICK s : s = Script(r, c)
    OBVIOUS
  <2>2. \A j \in 1 .. Len(s) : Pending(r, s[j])' <=> Pending(r, s[j])
    BY <1>2, <2>1, ScriptFacts DEF Ordered
  <2>3. RecordedOn(r, c, s)
    BY <1>2, <2>1 DEF Recorded
  <2>4. PICK n \in 0 .. Len(s) :
          /\ entered[r][c] = [j \in 1 .. n |-> <<s[j].do, s[j].res>>]
          /\ \A j \in 1 .. Len(s) : j <= n <=> ~Pending(r, s[j])
    BY <2>3 DEF RecordedOn
  <2>5. \A j \in 1 .. Len(s) : j <= n <=> ~Pending(r, s[j])'
    BY <2>2, <2>4
  <2>6. RecordedOn(r, c, s)'
    BY <2>4, <2>5 DEF RecordedOn
  <2>7. Script(r, c)' = s
    BY <1>1, <2>1
  <2> QED BY <2>6, <2>7
<1> QED BY <1>2 DEF Recorded

\* A function on the first n numbers with one more value.
LEMMA OneMore ==
  ASSUME NEW n \in Nat, NEW f, NEW x, f = [j \in 1 .. n |-> f[j]]
  PROVE  Append(f, x) = [j \in 1 .. n + 1 |-> IF j = n + 1 THEN x ELSE f[j]]
<1> DEFINE S == {f[j] : j \in 1 .. n} \cup {x}
           g == [j \in 1 .. n + 1 |-> IF j = n + 1 THEN x ELSE f[j]]
<1>1. f \in [1 .. n -> S]
  OBVIOUS
<1>2. f \in Seq(S) /\ Len(f) = n
  BY <1>1, SeqDef, LenProperties
<1>3. Append(f, x) \in Seq(S) /\ Len(Append(f, x)) = n + 1
      /\ \A i \in 1 .. n + 1 : Append(f, x)[i] = IF i <= n THEN f[i] ELSE x
  BY <1>2, AppendProperties
<1>4. Append(f, x) \in [1 .. n + 1 -> S]
  BY <1>3, LenProperties
<1>5. g \in [1 .. n + 1 -> S]
  OBVIOUS
<1>6. \A i \in 1 .. n + 1 : Append(f, x)[i] = g[i]
  BY <1>3
<1> QED BY <1>4, <1>5, <1>6

\* A rank enters the next collective of the script.
LEMMA RecordEnters ==
  ASSUME NEW r, Recorded(r), UNCHANGED <<request, shape>>,
         NEW k \in 1 .. 6, NEW h \in Collectives(r, k), Pending(r, h),
         \A c \in Communicators :
           entered'[r][c] = IF c = h.on THEN Append(entered[r][c], <<h.do, h.res>>)
                            ELSE entered[r][c],
         \A i \in 1 .. 6 : \A e \in Collectives(r, i) : Sooner(e, h) => ~Pending(r, e),
         \A i \in 1 .. 6 : \A e \in Collectives(r, i) :
           Pending(r, e)' <=> Pending(r, e) /\ e # h
  PROVE  Recorded(r)'
<1>1. \A c : Script(r, c)' = Script(r, c)
  BY ScriptStays
<1>2. ASSUME NEW c \in Communicators
      PROVE  RecordedOn(r, c, Script(r, c))'
  <2>1. PICK s : s = Script(r, c)
    OBVIOUS
  <2>2. Ordered(r, c, s)
    BY <2>1, ScriptFacts
  <2>3. RecordedOn(r, c, s)
    BY <2>1 DEF Recorded
  <2>4. PICK n \in 0 .. Len(s) :
          /\ entered[r][c] = [j \in 1 .. n |-> <<s[j].do, s[j].res>>]
          /\ \A j \in 1 .. Len(s) : j <= n <=> ~Pending(r, s[j])
    BY <2>3 DEF RecordedOn
  <2>5. \A j \in 1 .. Len(s) : Pending(r, s[j])' <=> Pending(r, s[j]) /\ s[j] # h
    BY <2>2 DEF Ordered
  <2>6. CASE c # h.on
    <3>1. \A j \in 1 .. Len(s) : s[j] # h
      BY <2>2, <2>6 DEF Ordered
    <3>2. \A j \in 1 .. Len(s) : j <= n <=> ~Pending(r, s[j])'
      BY <2>4, <2>5, <3>1
    <3>3. entered'[r][c] = entered[r][c]
      BY <2>6
    <3>4. RecordedOn(r, c, s)'
      BY <2>4, <3>2, <3>3 DEF RecordedOn
    <3> QED BY <1>1, <2>1, <3>4
  <2>7. CASE c = h.on
    <3>1. PICK m \in 1 .. Len(s) : s[m] = h
      BY <2>1, <2>7, ScriptHas
    <3>2. \A j \in 1 .. Len(s) : j < m => j <= n
      BY <2>2, <2>4, <3>1 DEF Ordered
    <3>3. Len(s) \in Nat /\ n < m
      BY <2>2, <2>4, <3>1 DEF Ordered
    <3>4. m = n + 1
      BY <3>2, <3>3
    <3>5. \A j \in 1 .. Len(s) : s[j] = h => j = m
      <4>1. ~Sooner(h, h)
        BY <2>2, <3>1, SoonerApart DEF Ordered
      <4> QED BY <2>2, <3>1, <3>3, <4>1 DEF Ordered
    <3>6. \A j \in 1 .. Len(s) : j <= m <=> ~Pending(r, s[j])'
      BY <2>4, <2>5, <3>1, <3>3, <3>4, <3>5
    <3>7. PICK f : f = entered[r][c]
      OBVIOUS
    <3>8. f = [j \in 1 .. n |-> f[j]]
      BY <2>4, <3>7
    <3>9. Append(f, <<h.do, h.res>>)
            = [j \in 1 .. n + 1 |-> IF j = n + 1 THEN <<h.do, h.res>> ELSE f[j]]
      BY <3>8, OneMore
    <3>10. Append(f, <<h.do, h.res>>) = [j \in 1 .. m |-> <<s[j].do, s[j].res>>]
      BY <2>4, <3>1, <3>4, <3>7, <3>9
    <3>11. entered'[r][c] = [j \in 1 .. m |-> <<s[j].do, s[j].res>>]
      BY <2>7, <3>7, <3>10
    <3>12. m \in 0 .. Len(s)
      BY <3>3
    <3>13. RecordedOn(r, c, s)'
      BY <3>6, <3>11, <3>12 DEF RecordedOn
    <3> QED BY <1>1, <2>1, <3>13
  <2> QED BY <2>6, <2>7
<1> QED BY <1>2 DEF Recorded

---------------------------------------------------------------------------
(* The collectives of a call among its steps.                              *)

\* The collectives of a creation: where they are, and none twice.
Holding(r, k, c) ==
  /\ \A e \in Collectives(r, k) : \E j \in 1 .. Len(c) : c[j] = e
  /\ \A i, j \in 1 .. Len(c) : c[i].on # "self" /\ c[i] = c[j] => i = j
  /\ \A i, j \in 1 .. Len(c) : Paired(c[i], c[j]) => i < j

\* The collectives of a grid's creation.
LEMMA GridCollectives ==
  ASSUME NEW r
  PROVE  /\ Holding(r, 1, GridCreate) /\ Len(GridCreate) = 9
         /\ GridCreate[9].do = "return"
         /\ \A j \in 1 .. 9 : GridCreate[j].on # "self" =>
              j > 2 /\ (GridOK => GridCreate[j] \in Collectives(r, 1))
<1> DEFINE c == GridCreate
<1>1. c = << Step("alloc", "self", Heap("grid")), Step("shape", "self", Nothing),
             Step("cart", "world", Comm("g")),
             Step("sub", "g", Comm("A")), Step("rank", "self", Nothing),
             Step("sub", "g", Comm("B")), Step("rank", "self", Nothing),
             Step("name", "self", Nothing), Step("return", "self", Heap("grid")) >>
  BY DEF GridCreate, Local
<1>2. /\ Len(c) = 9 /\ c[3] = Step("cart", "world", Comm("g"))
      /\ c[4] = Step("sub", "g", Comm("A")) /\ c[6] = Step("sub", "g", Comm("B"))
      /\ c[9] = Step("return", "self", Heap("grid"))
  BY <1>1
<1>3. \A j \in 1 .. 9 : j \notin {3, 4, 6} => c[j].on = "self"
  BY <1>1, OnAre
<1>4. c[3].on = "world" /\ c[4].on = "g" /\ c[6].on = "g"
  BY <1>2, OnAre
<1>5. c[4] # c[6]
  BY <1>2, NamesApart DEF Step
<1> HIDE DEF c
<1>6. \A j \in 1 .. 9 : c[j].on # "self" => j \in {3, 4, 6}
  BY <1>3
<1>7. \A i, j \in 1 .. 9 : c[i].on # "self" /\ c[i] = c[j] => i = j
  BY <1>4, <1>5, <1>6
<1>8. \A i, j \in 1 .. 9 : Paired(c[i], c[j]) => i = 4 /\ j = 6
  <2>1. ASSUME NEW i \in 1 .. 9, NEW j \in 1 .. 9, Paired(c[i], c[j])
        PROVE  c[i] = c[4] /\ c[j] = c[6]
    <3>1. \A a \in {"A", "B"} : c[i] # Step("bcast", a, Nothing)
      BY <1>4, <1>3, OnAre
    <3> QED BY <1>2, <2>1, <3>1 DEF Paired
  <2> QED BY <1>4, <1>7, <2>1
<1>9. c[9].do = "return"
  BY <1>2, OnAre
<1>10. GridOK => /\ c[3] \in Collectives(r, 1) /\ c[4] \in Collectives(r, 1)
                 /\ c[6] \in Collectives(r, 1)
  BY <1>2 DEF Collectives
<1>11. \A e \in Collectives(r, 1) : e = c[3] \/ e = c[4] \/ e = c[6]
  BY <1>2 DEF Collectives
<1> QED BY <1>2, <1>6, <1>7, <1>8, <1>9, <1>10, <1>11 DEF Holding, c

\* Those of a problem's creation.
LEMMA ProblemCollectives ==
  ASSUME NEW r
  PROVE  /\ Holding(r, 2, ProblemCreate) /\ Len(ProblemCreate) = 16
         /\ ProblemCreate[16].do = "return"
         /\ ProblemOK => \A j \in 1 .. 16 : ProblemCreate[j].on # "self" =>
                           ProblemCreate[j] \in Collectives(r, 2)
<1> DEFINE c == ProblemCreate
<1>1. /\ Len(c) = 16
      /\ c[2] = Step("bcast", "A", Nothing) /\ c[3] = Step("bcast", "B", Nothing)
      /\ c[5] = DupOf("bA") /\ c[8] = DupOf("bB") /\ c[11] = DupOf("fB") /\ c[14] = DupOf("fA")
      /\ c[16].do = "return"
  BY ProblemCreateIs DEF DupOf, Local, Step
<1>2. \A j \in 1 .. 16 : j \notin {2, 3, 5, 8, 11, 14} => c[j].on = "self"
  BY ProblemCreateIs DEF Local, Step
<1>3. /\ c[2].on = "A" /\ c[3].on = "B" /\ c[5].on = "A" /\ c[8].on = "B"
      /\ c[11].on = "bB" /\ c[14].on = "bA"
      /\ c[2].do = "bcast" /\ c[3].do = "bcast" /\ c[5].do = "dup" /\ c[8].do = "dup"
  BY <1>1 DEF Step, DupOf
<1> HIDE DEF c
<1>4. \A j \in 1 .. 16 : c[j].on # "self" => j \in {2, 3, 5, 8, 11, 14}
  BY <1>2
<1>5. \A i, j \in 1 .. 16 : c[i].on # "self" /\ c[i] = c[j] => i = j
  BY <1>3, <1>4
<1>6. \A i, j \in 1 .. 16 : Paired(c[i], c[j]) => i < j
  <2>1. ASSUME NEW i \in 1 .. 16, NEW j \in 1 .. 16, Paired(c[i], c[j])
        PROVE  (c[i] = c[2] /\ c[j] = c[5]) \/ (c[i] = c[3] /\ c[j] = c[8])
    <3>1. c[i] # Step("sub", "g", Comm("A"))
      BY <1>3, <1>4, OnAre
    <3> QED BY <1>1, <2>1, <3>1 DEF Paired
  <2>2. ASSUME NEW i \in 1 .. 16, NEW j \in 1 .. 16, Paired(c[i], c[j])
        PROVE  i < j
    <3>1. CASE c[i] = c[2] /\ c[j] = c[5]
      <4>1. 2 = i /\ 5 = j
        BY <1>3, <1>5, <3>1
      <4> QED BY <4>1
    <3>2. CASE c[i] = c[3] /\ c[j] = c[8]
      <4>1. 3 = i /\ 8 = j
        BY <1>3, <1>5, <3>2
      <4> QED BY <4>1
    <3> QED BY <2>1, <2>2, <3>1, <3>2
  <2> QED BY <2>2
<1>7. ProblemOK => \A j \in {2, 3, 5, 8, 11, 14} : c[j] \in Collectives(r, 2)
  BY <1>1 DEF Collectives, Transposes
<1>8. \A e \in Collectives(r, 2) : \E j \in {2, 3, 5, 8, 11, 14} : c[j] = e
  BY <1>1 DEF Collectives, Transposes
<1> QED BY <1>1, <1>4, <1>5, <1>6, <1>7, <1>8 DEF Holding, c

\* Of a plan's creation: a transpose is planned after those before it.
LEMMA PlanCollectives ==
  ASSUME NEW r
  PROVE  LET c == PlanCreate(r)
         IN  /\ Holding(r, 3, c) /\ Len(c) = 6
             /\ c[6].do = "return"
             /\ \A j \in 1 .. 6 : c[j].on # "self" =>
                  \E t \in Transposes :
                    /\ c[j] = PlanOf(t) /\ ~TrivialOn(request, r, t)
                    /\ \A u \in Before(t) : \A i \in j .. 6 : c[i].res # Plan(u)
             /\ \A t \in Transposes : \A i, j \in 1 .. 6 :
                  c[i] = PlanOf(t) /\ j > i =>
                    \A u \in Transposes : c[j] = PlanOf(u) => t \in Before(u)
             /\ \A t \in Transposes : \E j \in 1 .. 6 : c[j].res = Plan(t)
             /\ \A t \in Transposes : \A j \in 1 .. 6 :
                  c[j].res = Plan(t) => c[j].do = "plan" \/ TrivialOn(request, r, t)
             /\ \A j \in 1 .. 6 : c[j].do = "plan" => c[j].on # "self"
<1> DEFINE c == PlanCreate(r)
<1>1. \A t : Planned(request, t)
  BY DEF Planned
<1>2. \A t : PlanStep(r, t) = IF TrivialOn(request, r, t) THEN Step("noplan", "self", Plan(t))
                              ELSE PlanOf(t)
  BY <1>1 DEF PlanStep, Local, PlanOf
<1>3. /\ Len(c) = 6 /\ c[1] = Step("alloc", "self", Heap("plan"))
      /\ c[2] = PlanStep(r, "bA") /\ c[3] = PlanStep(r, "bB")
      /\ c[4] = PlanStep(r, "fB") /\ c[5] = PlanStep(r, "fA")
      /\ c[6] = Step("return", "self", Heap("plan"))
  BY DEF PlanCreate, Local
<1> HIDE DEF c
<1>4. /\ c[1].on = "self" /\ c[6].on = "self" /\ c[6].do = "return"
      /\ c[1].res = Heap("plan") /\ c[6].res = Heap("plan")
      /\ c[1].do = "alloc"
  BY <1>3 DEF Step
<1>5. \A t : /\ PlanStep(r, t).res = Plan(t) /\ PlanOf(t).do = "plan" /\ PlanOf(t).res = Plan(t)
             /\ PlanStep(r, t).on # "self" =>
                  PlanStep(r, t) = PlanOf(t) /\ ~TrivialOn(request, r, t)
             /\ PlanStep(r, t).do = "plan" \/ TrivialOn(request, r, t)
  BY <1>2 DEF Step, PlanOf
<1>6. /\ c[2].res = Plan("bA") /\ c[3].res = Plan("bB") /\ c[4].res = Plan("fB")
      /\ c[5].res = Plan("fA")
  BY <1>3, <1>5
<1>7. \A i, j \in 1 .. 6 : c[i].on # "self" /\ c[i] = c[j] => i = j
  <2>1. \A i \in 1 .. 6 : c[i].on # "self" => i \in 2 .. 5
    BY <1>4
  <2>2. \A i, j \in 2 .. 5 : c[i].res = c[j].res => i = j
    BY <1>6, NamesApart
  <2>3. \A i \in 2 .. 5 : c[i].on # "self" => c[i] # c[1] /\ c[i] # c[6]
    BY <1>4
  <2>4. ASSUME NEW i \in 1 .. 6, NEW j \in 1 .. 6, c[i].on # "self", c[i] = c[j]
        PROVE  i = j
    <3>1. i \in 2 .. 5 /\ j \in 2 .. 5
      BY <2>1, <2>4
    <3> QED BY <2>2, <2>4, <3>1
  <2> QED BY <2>4
<1>8. \A i, j \in 1 .. 6 : ~Paired(c[i], c[j])
  <2>1. \A i \in 1 .. 6 : c[i].do \in {"alloc", "noplan", "plan", "return"}
    BY <1>2, <1>3 DEF Step, PlanOf
  <2>2. \A x, y : Paired(x, y) => x.do \in {"sub", "bcast"}
    BY DEF Paired, Step
  <2> QED BY <2>1, <2>2
<1>9. \A e \in Collectives(r, 3) : \E j \in 1 .. 6 : c[j] = e
  <2>1. ASSUME NEW t \in Transposes, Plans(r, t) PROVE \E j \in 1 .. 6 : c[j] = PlanOf(t)
    <3>1. PlanStep(r, t) = PlanOf(t)
      BY <1>2, <2>1 DEF Plans
    <3> QED BY <1>3, <2>1, <3>1 DEF Transposes
  <2> QED BY <2>1 DEF Collectives
<1>10. ASSUME NEW j \in 1 .. 6, c[j].on # "self"
       PROVE  \E t \in Transposes :
                /\ c[j] = PlanOf(t) /\ ~TrivialOn(request, r, t)
                /\ \A u \in Before(t) : \A i \in j .. 6 : c[i].res # Plan(u)
  <2>1. j \in {2, 3, 4, 5}
    BY <1>4, <1>10
  <2>2. PICK t \in Transposes : /\ c[j] = PlanOf(t) /\ ~TrivialOn(request, r, t)
                                /\ t = IF j = 2 THEN "bA" ELSE IF j = 3 THEN "bB"
                                       ELSE IF j = 4 THEN "fB" ELSE "fA"
    BY <1>3, <1>5, <1>10, <2>1 DEF Transposes
  <2>3. ASSUME NEW u \in Before(t), NEW i \in j .. 6 PROVE c[i].res # Plan(u)
    <3>1. c[6].res # Plan(u)
      BY <1>4, NamesApart
    <3>2. CASE j = 2
      BY <2>2, <2>3, <3>2 DEF Before
    <3>3. CASE j = 3
      <4>1. u = "bA"
        BY <2>2, <2>3, <3>3 DEF Before
      <4> QED BY <1>6, <3>1, <3>3, <4>1, NamesApart
    <3>4. CASE j = 4
      <4>1. u = "bA" \/ u = "bB"
        BY <2>2, <2>3, <3>4 DEF Before
      <4> QED BY <1>6, <3>1, <3>4, <4>1, NamesApart
    <3>5. CASE j = 5
      <4>1. u = "bA" \/ u = "bB" \/ u = "fB"
        BY <2>2, <2>3, <3>5 DEF Before
      <4> QED BY <1>6, <3>1, <3>5, <4>1, NamesApart
    <3> QED BY <2>1, <3>2, <3>3, <3>4, <3>5
  <2> QED BY <2>2, <2>3
<1>11. ASSUME NEW t \in Transposes, NEW i \in 1 .. 6, NEW j \in 1 .. 6, NEW u \in Transposes,
              c[i] = PlanOf(t), j > i, c[j] = PlanOf(u)
       PROVE  t \in Before(u)
  <2>1. c[i].res = Plan(t) /\ c[j].res = Plan(u) /\ c[i].do = "plan" /\ c[j].do = "plan"
    BY <1>5, <1>11
  <2>2. i \in {2, 3, 4, 5} /\ j \in {2, 3, 4, 5}
    BY <1>4, <2>1
  <2>3. /\ t = IF i = 2 THEN "bA" ELSE IF i = 3 THEN "bB" ELSE IF i = 4 THEN "fB" ELSE "fA"
        /\ u = IF j = 2 THEN "bA" ELSE IF j = 3 THEN "bB" ELSE IF j = 4 THEN "fB" ELSE "fA"
    BY <1>6, <2>1, <2>2, NamesApart
  <2> QED BY <1>11, <2>2, <2>3 DEF Before
<1>12. \A t \in Transposes : \E j \in 1 .. 6 : c[j].res = Plan(t)
  BY <1>6 DEF Transposes
<1>13. ASSUME NEW t \in Transposes, NEW j \in 1 .. 6, c[j].res = Plan(t)
       PROVE  c[j].do = "plan" \/ TrivialOn(request, r, t)
  <2>1. j \in {2, 3, 4, 5}
    BY <1>4, <1>13, NamesApart
  <2>2. c[j] = PlanStep(r, t)
    BY <1>3, <1>6, <1>13, <2>1, NamesApart
  <2> QED BY <1>5, <2>2
<1>14. ASSUME NEW j \in 1 .. 6, c[j].do = "plan"
       PROVE  c[j].on # "self"
  <2>1. c[1].do # "plan" /\ c[6].do # "plan"
    BY <1>4
  <2>2. PICK t \in Transposes : c[j] = PlanStep(r, t)
    BY <1>3, <1>14, <2>1 DEF Transposes
  <2>3. PlanStep(r, t) = PlanOf(t)
    BY <1>2, <1>14, <2>2, OnAre
  <2> QED BY <2>2, <2>3, OnAre DEF Transposes
<1> QED BY <1>3, <1>4, <1>7, <1>8, <1>9, <1>10, <1>11, <1>12, <1>13, <1>14 DEF Holding, c

AnyStep == AllSteps \cup Frees \cup {Skip}

\* What is left of a creation.
Remains(r, c, k) ==
  /\ Len(todo[r]) = Len(c) + 1 - k
  /\ \A i \in 1 .. Len(todo[r]) : todo[r][i] = c[k - 1 + i]

\* What is left of a creation are its last steps.
LEMMA WhileCreating ==
  ASSUME NEW r, Creating(r)
  PROVE  LET c == Creation(r, calls[r])
         IN  /\ c \in Seq(AllSteps) /\ todo[r] \in Seq(AllSteps) /\ todo[r] # <<>>
             /\ \E k \in 1 .. Len(c) : Reached(r, c, k) /\ Remains(r, c, k) /\ Head(todo[r]) = c[k]
<1>1. PICK n, c : n = calls[r] /\ c = Creation(r, n)
  OBVIOUS
<1>2. n \in 1 .. 3
  BY <1>1 DEF Creating
<1>3. c \in Seq(AllSteps)
  BY <1>1, <1>2, CreationSound DEF Sound
<1>4. PICK k \in 1 .. Len(c) : Reached(r, c, k)
  BY <1>1 DEF Creating
<1>5. todo[r] = SubSeq(c, k, Len(c))
  BY <1>4 DEF Reached
<1>6. SubSeq(c, k, Len(c)) # <<>> /\ Head(SubSeq(c, k, Len(c))) = c[k]
  BY <1>3, RestNext
<1>7. Len(c) \in Nat /\ k \in Nat /\ \A i \in k .. Len(c) : c[i] \in AllSteps
  BY <1>3
<1>8. /\ SubSeq(c, k, Len(c)) \in Seq(AllSteps) /\ Len(SubSeq(c, k, Len(c))) = Len(c) - k + 1
      /\ \A i \in 1 .. Len(c) - k + 1 : SubSeq(c, k, Len(c))[i] = c[k + i - 1]
  BY <1>7, SubSeqProperties
<1>9. Remains(r, c, k)
  <2>1. Len(todo[r]) = Len(c) + 1 - k
    BY <1>5, <1>7, <1>8
  <2>2. ASSUME NEW i \in 1 .. Len(todo[r]) PROVE todo[r][i] = c[k - 1 + i]
    <3>1. i \in 1 .. Len(c) - k + 1 /\ k + i - 1 = k - 1 + i
      BY <1>7, <2>1
    <3> QED BY <1>5, <1>8, <3>1
  <2> QED BY <2>1, <2>2 DEF Remains
<1> QED BY <1>1, <1>3, <1>4, <1>5, <1>6, <1>8, <1>9

\* Without a creation nothing is left but to free what the rank has.
LEMMA WhileFreeing ==
  ASSUME NEW r, RankInv(r), todo[r] # <<>>, Freeing(r)
  PROVE  /\ todo[r] \in Seq(Frees \cup {Skip})
         /\ \A i \in 1 .. Len(todo[r]) :
              /\ todo[r][i].do \in {"free", "skip"}
              /\ todo[r][i].on # "self" =>
                   \E x : /\ todo[r][i] = Free(Comm(x)) /\ x = todo[r][i].on
                          /\ Comm(x) \in Has(r, ObjectOf(calls[r]))
         /\ \A i, j \in 1 .. Len(todo[r]) :
              todo[r][i].on # "self" /\ todo[r][i] = todo[r][j] => i = j
<1>1. PICK n, o : n = calls[r] /\ o = ObjectOf(n)
  OBVIOUS
<1>2. n \in 1 .. 6 /\ o \in Objects
  BY <1>1, ObjectFacts DEF RankInv, RankTyped, Busy, LastCall
<1>3. Has(r, o) \in SUBSET Resources
  BY <1>2, PartsApart DEF Has
<1>4. Clears(todo[r], Has(r, o))
  BY <1>1 DEF Freeing
<1>5. Skip.do = "skip" /\ Skip.on = "self"
  BY DEF Skip, Local, Step
<1>6. ASSUME NEW i \in 1 .. Len(todo[r])
      PROVE  /\ todo[r][i].do \in {"free", "skip"}
             /\ todo[r][i].on # "self" =>
                  \E x : /\ todo[r][i] = Free(Comm(x)) /\ x = todo[r][i].on
                         /\ Comm(x) \in Has(r, o)
  <2>1. CASE todo[r][i] = Skip
    BY <1>5, <2>1
  <2>2. CASE todo[r][i] # Skip
    <3>1. PICK res \in Has(r, o) : todo[r][i] = Free(res)
      BY <1>4, <2>2 DEF Clears
    <3>2. /\ Free(res).do = "free"
          /\ Free(res).on # "self" => res = Comm(Free(res).on)
      BY <1>3, <3>1, FreeFacts
    <3> QED BY <3>1, <3>2
  <2> QED BY <2>1, <2>2
<1> QED BY <1>1, <1>4, <1>5, <1>6 DEF Clears

\* Creations end with a return, destructions do not.
LEMMA LastStep ==
  ASSUME NEW r, RankInv(r), todo[r] # <<>>
  PROVE  /\ todo[r] \in Seq(AnyStep) /\ Len(todo[r]) > 0 /\ Head(todo[r]) = todo[r][1]
         /\ Creating(r) <=> todo[r][Len(todo[r])].do = "return"
         /\ Creating(r) <=> ~Freeing(r)
<1>1. CASE Creating(r)
  <2>1. PICK n, c : n = calls[r] /\ c = Creation(r, n) /\ n \in 1 .. 3
    BY <1>1 DEF Creating
  <2>2. todo[r] \in Seq(AllSteps)
    BY <1>1, WhileCreating
  <2>3. PICK k \in 1 .. Len(c) : Remains(r, c, k)
    BY <1>1, <2>1, WhileCreating
  <2>4. c \in Seq(AllSteps) /\ c[Len(c)].do = "return"
    BY <2>1, CreationSound, SMTT(20) DEF Sound
  <2>5. Len(todo[r]) \in 1 .. Len(todo[r]) /\ k - 1 + Len(todo[r]) = Len(c)
    BY <2>3, <2>4 DEF Remains
  <2>6. todo[r][Len(todo[r])] = c[k - 1 + Len(todo[r])]
    BY <2>3, <2>5 DEF Remains
  <2>7. todo[r][Len(todo[r])].do = "return"
    BY <2>4, <2>5, <2>6
  <2>8. ~Freeing(r)
    <3>1. \A x : x \in {"free", "skip"} => x # "return"
      OBVIOUS
    <3> QED BY <2>5, <2>7, <3>1, WhileFreeing
  <2>9. Head(todo[r]) = todo[r][1]
    BY <2>2, <2>5
  <2>10. todo[r] \in Seq(AnyStep)
    BY <2>2 DEF AnyStep
  <2> QED BY <1>1, <2>5, <2>7, <2>8, <2>9, <2>10
<1>2. CASE ~Creating(r)
  <2>1. Freeing(r)
    BY <1>2 DEF RankInv, Busy
  <2>2. todo[r] \in Seq(Frees \cup {Skip})
    BY <2>1, WhileFreeing
  <2>3. Len(todo[r]) > 0 /\ Head(todo[r]) = todo[r][1] /\ Len(todo[r]) \in 1 .. Len(todo[r])
    BY <2>2
  <2>4. todo[r][Len(todo[r])].do # "return"
    BY <2>1, <2>3, WhileFreeing
  <2>5. todo[r] \in Seq(AnyStep)
    BY <2>2 DEF AnyStep
  <2> QED BY <1>2, <2>1, <2>3, <2>4, <2>5
<1> QED BY <1>1, <1>2

\* The collective that comes next is one of the script, none before it is left,
\* and it comes once.
LEMMA NextExpected ==
  ASSUME NEW r, RankInv(r), Grounds(r), Succeeds(r), todo[r] # <<>>, Head(todo[r]).on # "self"
  PROVE  LET h == Head(todo[r])
         IN  /\ calls[r] \in 1 .. 6 /\ h \in Collectives(r, calls[r])
             /\ \A i \in 2 .. Len(todo[r]) : todo[r][i] # h /\ ~Paired(todo[r][i], h)
<1>1. PICK n, o, h : n = calls[r] /\ o = ObjectOf(n) /\ h = Head(todo[r])
  OBVIOUS
<1>2. n \in 1 .. 6
  BY <1>1 DEF RankInv, RankTyped, Busy, LastCall
<1>3. CASE Creating(r)
  <2>1. PICK c : c = Creation(r, n) /\ c \in Seq(AllSteps)
    BY <1>1, <1>3, WhileCreating
  <2>2. PICK k \in 1 .. Len(c) : Reached(r, c, k) /\ Remains(r, c, k) /\ h = c[k]
    BY <1>1, <1>3, <2>1, WhileCreating
  <2>3. n \in 1 .. 3
    BY <1>1, <1>3 DEF Creating
  <2>4. Holding(r, n, c)
    BY <2>1, <2>3, GridCollectives, ProblemCollectives, PlanCollectives DEF Creation
  <2>5. ASSUME NEW i \in 2 .. Len(todo[r])
        PROVE  todo[r][i] # h /\ ~Paired(todo[r][i], h)
    <3>1. Len(c) \in Nat /\ Len(todo[r]) = Len(c) + 1 - k
      BY <2>1, <2>2 DEF Remains
    <3>2. i \in 1 .. Len(todo[r]) /\ k - 1 + i \in 1 .. Len(c) /\ k - 1 + i > k
      BY <3>1, SMTT(20)
    <3>3. todo[r][i] = c[k - 1 + i]
      BY <2>2, <3>2 DEF Remains
    <3> QED BY <1>1, <2>2, <2>4, <3>2, <3>3 DEF Holding
  <2>6. h \in Collectives(r, n)
    <3>1. CASE n = 1
      <4>1. c = GridCreate /\ Len(c) = 9
        BY <2>1, <3>1, GridCollectives DEF Creation
      <4>2. k > 2
        BY <1>1, <2>2, <4>1, GridCollectives
      <4>3. GridOK
        BY <1>1, <2>2, <3>1, <4>2 DEF Reached, Grounds, GridOK
      <4> QED BY <1>1, <2>2, <3>1, <4>1, <4>3, GridCollectives
    <3>2. CASE n = 2
      <4>1. c = ProblemCreate /\ Len(c) = 16
        BY <2>1, <3>2, ProblemCollectives DEF Creation
      <4>2. ProblemOK
        BY <1>1, <3>2 DEF Grounds
      <4> QED BY <1>1, <2>2, <3>2, <4>1, <4>2, ProblemCollectives
    <3>3. CASE n = 3
      <4>1. c = PlanCreate(r) /\ Len(c) = 6
        BY <2>1, <3>3, PlanCollectives DEF Creation
      <4>2. ProblemOK
        BY <1>1, <3>3 DEF Grounds
      <4>3. PICK t \in Transposes : /\ h = PlanOf(t) /\ ~TrivialOn(request, r, t)
                                    /\ \A u \in Before(t) : \A i \in k .. 6 : c[i].res # Plan(u)
        BY <1>1, <2>2, <4>1, PlanCollectives
      <4>4. ASSUME NEW u \in Before(t) PROVE ~Stops(r, u)
        <5>1. u \in Transposes
          BY <4>4 DEF Before, Transposes
        <5>2. ASSUME NEW i \in 1 .. Len(todo[r]) PROVE todo[r][i].res # Plan(u)
          <6>1. Len(todo[r]) = 7 - k /\ todo[r][i] = c[k - 1 + i]
            BY <2>2, <4>1 DEF Remains
          <6>2. k - 1 + i \in k .. 6
            BY <6>1, <4>1
          <6> QED BY <4>3, <4>4, <6>1, <6>2
        <5>3. Returns(r)
          BY <1>3, LastStep DEF Returns
        <5> QED BY <1>1, <3>3, <5>1, <5>2, <5>3 DEF Succeeds
      <4>5. Plans(r, t)
        BY <4>3, <4>4 DEF Plans
      <4> QED BY <3>3, <4>2, <4>3, <4>5 DEF Collectives
    <3> QED BY <2>3, <3>1, <3>2, <3>3
  <2> QED BY <1>1, <1>2, <2>5, <2>6
<1>4. CASE ~Creating(r)
  <2>1. Freeing(r) /\ h = todo[r][1] /\ Len(todo[r]) \in Nat /\ 1 \in 1 .. Len(todo[r])
    BY <1>1, <1>4, LastStep DEF RankInv, Busy
  <2>2. n \in {5, 6}
    <3>1. ~Quiet(r)
      BY <1>1, <2>1 DEF Quiet
    <3>2. ~Returns(r)
      BY <1>4, LastStep DEF Returns
    <3> QED BY <1>1, <1>2, <3>1, <3>2 DEF Succeeds
  <2>3. PICK x : h = Free(Comm(x)) /\ Comm(x) \in Has(r, o)
    BY <1>1, <2>1, WhileFreeing
  <2>4. h.do = "free"
    BY <1>1, <2>3 DEF Free, Step
  <2>5. h \in Collectives(r, n)
    <3>1. CASE n = 5
      <4>1. Comm(x) \in PartsOf("problem") /\ ProblemOK
        BY <1>1, <2>3, <3>1 DEF Has, ObjectOf, Grounds
      <4>2. x \in Transposes
        BY <4>1, PartsOfAre, NamesApart DEF Transposes
      <4> QED BY <2>3, <3>1, <4>1, <4>2 DEF Collectives
    <3>2. CASE n = 6
      <4>1. Comm(x) \in PartsOf("grid") /\ GridOK
        BY <1>1, <2>3, <3>2 DEF Has, ObjectOf, Grounds
      <4>2. x \in {"g", "A", "B"}
        BY <4>1, PartsOfAre, NamesApart
      <4> QED BY <2>3, <3>2, <4>1, <4>2 DEF Collectives
    <3> QED BY <2>2, <3>1, <3>2
  <2>6. ASSUME NEW i \in 2 .. Len(todo[r])
        PROVE  todo[r][i] # h /\ ~Paired(todo[r][i], h)
    <3>1. \A y, z : Paired(y, z) => z.do \in {"sub", "dup"}
      BY DEF Paired, Step, DupOf
    <3>2. i \in 1 .. Len(todo[r]) /\ i # 1
      BY <2>1
    <3>3. todo[r][i] # h
      BY <1>1, <2>1, <3>2, WhileFreeing
    <3> QED BY <2>4, <3>1, <3>3
  <2> QED BY <1>1, <1>2, <2>5, <2>6
<1> QED BY <1>3, <1>4

---------------------------------------------------------------------------
(* What a rank has entered, step by step.                                  *)

\* A rank that is outside and between calls, or that enters nothing.
LEMMA BeginRecords ==
  ASSUME Typed, NEW r \in Procs, RankInv(r), Grounds(r), Succeeds(r), Recorded(r), Begin(r)
  PROVE  Recorded(r)'
<1>1. PICK n, k : n = calls[r] /\ k = n + 1
  OBVIOUS
<1>2. /\ todo[r] = <<>> /\ n \in 0 .. 5 /\ calls'[r] = k /\ todo'[r] = Steps(r, k)
      /\ waits' = waits /\ entered' = entered /\ UNCHANGED <<request, shape>>
  BY <1>1 DEF Begin, Typed, RankInv, RankTyped, LastCall
<1>3. ~waits[r]
  BY <1>2 DEF RankInv, Inside
<1>4. \A o \in pointers[r] : PartsOf(o) \subseteq held[r]
  BY DEF RankInv, Owns
<1>5. Nothing \notin held[r]
  BY HeldExists DEF RankInv
<1>6. ASSUME NEW e \in Collectives(r, k)
      PROVE  \E i \in 1 .. Len(todo'[r]) : todo'[r][i] = e
  <2>1. CASE k = 1
    <3>1. GridOK
      BY <2>1 DEF Collectives
    <3>2. todo'[r] = GridCreate
      BY <1>2, <2>1, <3>1 DEF Steps, GridOK
    <3> QED BY <1>6, <2>1, <3>2, GridCollectives DEF Holding
  <2>2. CASE k = 2
    <3>1. ProblemOK
      BY <2>2 DEF Collectives
    <3>2. "grid" \in pointers[r] /\ request.howmany >= 0
      BY <1>1, <1>2, <2>2, <3>1 DEF Succeeds, ProblemOK
    <3>3. todo'[r] = ProblemCreate
      BY <1>2, <2>2, <3>2 DEF Steps
    <3> QED BY <1>6, <2>2, <3>3, ProblemCollectives DEF Holding
  <2>3. CASE k = 3
    <3>1. ProblemOK
      BY <2>3 DEF Collectives
    <3>2. "problem" \in pointers[r]
      BY <1>1, <1>2, <2>3, <3>1 DEF Succeeds
    <3>3. todo'[r] = PlanCreate(r)
      BY <1>2, <2>3, <3>2 DEF Steps
    <3> QED BY <1>6, <2>3, <3>3, PlanCollectives DEF Holding
  <2>4. ASSUME NEW res, e = Free(res), k \in {5, 6}, res \in PartsOf(ObjectOf(k)),
               ObjectOf(k) \in pointers[r]
        PROVE  \E i \in 1 .. Len(todo'[r]) : todo'[r][i] = e
    <3>1. PICK o : o = ObjectOf(k) /\ o \in Objects
      BY <2>4, ObjectFacts
    <3>2. PICK parts : Steps(r, k) = Destroy(r, parts) /\ parts # <<>> /\ Lists(parts, o)
      BY <2>4, <3>1, CallDestroys
    <3>3. Clears(todo'[r], Has(r, o))
      BY <1>2, <1>5, <3>1, <3>2, DestroyClears
    <3>4. res \in Has(r, o)
      BY <1>4, <2>4, <3>1 DEF Has
    <3> QED BY <2>4, <3>3, <3>4 DEF Clears
  <2>5. CASE k = 5
    <3>1. PICK t \in Transposes : ProblemOK /\ e = Free(Comm(t))
      BY <2>5 DEF Collectives
    <3>2. "problem" \in pointers[r]
      BY <1>1, <1>2, <2>5, <3>1 DEF Succeeds
    <3>3. ObjectOf(k) = "problem" /\ Comm(t) \in PartsOf("problem")
      BY <2>5, PartsOfAre DEF ObjectOf, Transposes
    <3> QED BY <2>4, <2>5, <3>1, <3>2, <3>3
  <2>6. CASE k = 6
    <3>1. PICK c \in {"g", "A", "B"} : GridOK /\ e = Free(Comm(c))
      BY <2>6 DEF Collectives
    <3>2. "grid" \in pointers[r]
      BY <1>1, <1>2, <2>6, <3>1 DEF Succeeds
    <3>3. ObjectOf(k) = "grid" /\ Comm(c) \in PartsOf("grid")
      BY <2>6, PartsOfAre DEF ObjectOf
    <3> QED BY <2>4, <2>6, <3>1, <3>2, <3>3
  <2>7. k # 4
    BY DEF Collectives
  <2> QED BY <1>1, <1>2, <2>1, <2>2, <2>3, <2>5, <2>6, <2>7
<1>7. ASSUME NEW i \in 1 .. 6, NEW e \in Collectives(r, i)
      PROVE  Pending(r, e)' <=> Pending(r, e)
  <2>1. CallOf(e) = i
    BY <1>7, ScriptHas
  <2>2. CASE i = k
    <3>1. Pending(r, e)
      BY <1>1, <1>2, <2>1, <2>2 DEF Pending
    <3>2. \E j \in 1 .. Len(todo'[r]) : todo'[r][j] = e
      BY <1>6, <1>7, <2>2
    <3>3. Pending(r, e)'
      BY <1>2, <1>3, <2>1, <2>2, <3>2 DEF Pending
    <3> QED BY <3>1, <3>3
  <2>3. CASE i < k
    <3>1. Len(todo[r]) = 0
      BY <1>2
    <3>2. ~Pending(r, e)
      BY <1>1, <1>2, <2>1, <2>3, <3>1 DEF Pending
    <3>3. ~Pending(r, e)'
      BY <1>1, <1>2, <2>1, <2>3 DEF Pending
    <3> QED BY <3>2, <3>3
  <2>4. CASE i > k
    <3>1. Pending(r, e) /\ Pending(r, e)'
      BY <1>1, <1>2, <2>1, <2>4 DEF Pending
    <3> QED BY <3>1
  <2> QED BY <1>1, <1>2, <2>2, <2>3, <2>4
<1> QED BY <1>2, <1>7, RecordStays

\* A rank enters the collective that comes next.
LEMMA EnterRecords ==
  ASSUME Typed, Logged, NEW r \in Procs, RankInv(r), Grounds(r), Succeeds(r), Recorded(r), Enter(r)
  PROVE  Recorded(r)'
<1>1. PICK n, h : n = calls[r] /\ h = Head(todo[r])
  OBVIOUS
<1>2. /\ todo[r] # <<>> /\ h.on # "self" /\ ~waits[r] /\ waits'[r] = TRUE
      /\ calls' = calls /\ todo' = todo /\ UNCHANGED <<request, shape>>
  BY <1>1 DEF Enter, Typed
<1>3. /\ n \in 1 .. 6 /\ h \in Collectives(r, n)
      /\ \A i \in 2 .. Len(todo[r]) : todo[r][i] # h /\ ~Paired(todo[r][i], h)
  BY <1>1, <1>2, NextExpected
<1>4. CallOf(h) = n
  BY <1>3, ScriptHas
<1>5. Len(todo[r]) \in Nat /\ Len(todo[r]) > 0 /\ todo[r][1] = h
  BY <1>1, <1>2, LastStep
<1>6. Pending(r, h)
  BY <1>1, <1>2, <1>4, <1>5 DEF Pending
<1>7. \A c \in Communicators :
        entered'[r][c] = IF c = h.on THEN Append(entered[r][c], <<h.do, h.res>>)
                         ELSE entered[r][c]
  BY <1>1 DEF Enter, Logged
<1>8. ~Paired(h, h)
  BY <1>3, <1>4, SoonerApart DEF Sooner
<1>9. ASSUME NEW i \in 1 .. 6, NEW e \in Collectives(r, i), Sooner(e, h)
      PROVE  ~Pending(r, e)
  <2>1. CallOf(e) = i
    BY <1>9, ScriptHas
  <2>2. CASE i < n
    BY <1>1, <1>3, <2>1, <2>2 DEF Pending
  <2>3. CASE ~(i < n)
    <3>1. Paired(e, h)
      BY <1>4, <1>9, <2>1, <2>3 DEF Sooner
    <3>2. CallOf(e) = CallOf(h)
      BY <3>1, CallsAre DEF Paired, Transposes
    <3>3. e # h /\ \A j \in 2 .. Len(todo[r]) : todo[r][j] # e
      BY <1>3, <1>8, <3>1
    <3>4. \A j \in 1 .. Len(todo[r]) : todo[r][j] # e
      BY <1>5, <3>3
    <3> QED BY <1>1, <1>3, <1>4, <3>2, <3>4 DEF Pending
  <2> QED BY <2>2, <2>3
<1>10. ASSUME NEW i \in 1 .. 6, NEW e \in Collectives(r, i)
       PROVE  Pending(r, e)' <=> Pending(r, e) /\ e # h
  <2>1. CallOf(e) = i
    BY <1>10, ScriptHas
  <2>2. CASE i # n
    BY <1>1, <1>2, <1>3, <1>4, <2>1, <2>2 DEF Pending
  <2>3. CASE i = n
    <3>1. Pending(r, e) <=> \E j \in 1 .. Len(todo[r]) : todo[r][j] = e
      BY <1>1, <1>2, <1>3, <2>1, <2>3 DEF Pending
    <3>2. Pending(r, e)' <=> \E j \in 1 .. Len(todo[r]) : todo[r][j] = e /\ j # 1
      BY <1>1, <1>2, <1>3, <2>1, <2>3 DEF Pending
    <3>3. ASSUME NEW j \in 1 .. Len(todo[r]), todo[r][j] = e, j # 1 PROVE e # h
      BY <1>3, <1>5, <3>3
    <3>4. ASSUME NEW j \in 1 .. Len(todo[r]), todo[r][j] = e, e # h PROVE j # 1
      BY <1>5, <3>4
    <3> QED BY <3>1, <3>2, <3>3, <3>4
  <2> QED BY <2>2, <2>3
<1> QED BY <1>2, <1>3, <1>6, <1>7, <1>9, <1>10, RecordEnters

\* A step is over.
LEMMA TailRecords ==
  ASSUME NEW r, RankInv(r), Recorded(r), todo[r] # <<>>, waits[r] \/ Head(todo[r]).on = "self",
         todo'[r] = Tail(todo[r]), waits'[r] = FALSE, entered'[r] = entered[r],
         calls'[r] = calls[r], UNCHANGED <<request, shape>>
  PROVE  Recorded(r)'
<1>1. /\ todo[r] \in Seq(AnyStep) /\ Len(todo[r]) > 0 /\ Head(todo[r]) = todo[r][1]
  BY LastStep
<1>2. /\ Len(todo'[r]) = Len(todo[r]) - 1
      /\ \A j \in 1 .. Len(todo[r]) - 1 : todo'[r][j] = todo[r][j + 1]
  BY <1>1, HeadTailProperties
<1>3. ASSUME NEW i \in 1 .. 6, NEW e \in Collectives(r, i)
      PROVE  Pending(r, e)' <=> Pending(r, e)
  <2>1. e.on # "self"
    <3>1. e.on \in Communicators
      BY <1>3, ScriptHas
    <3> QED BY <3>1 DEF Communicators, Transposes
  <2>2. ASSUME NEW j \in 1 .. Len(todo[r]), todo[r][j] = e, j = 1 => ~waits[r]
        PROVE  \E l \in 1 .. Len(todo'[r]) : todo'[r][l] = e
    <3>1. j # 1
      BY <1>1, <2>1, <2>2
    <3>2. j - 1 \in 1 .. Len(todo[r]) - 1 /\ (j - 1) + 1 = j
      BY <1>1, <3>1
    <3> QED BY <1>2, <2>2, <3>2
  <2>3. ASSUME NEW j \in 1 .. Len(todo'[r]), todo'[r][j] = e
        PROVE  \E l \in 1 .. Len(todo[r]) : todo[r][l] = e /\ (l = 1 => ~waits[r])
    <3>1. j + 1 \in 1 .. Len(todo[r]) /\ j + 1 # 1 /\ todo[r][j + 1] = e
      BY <1>1, <1>2, <2>3
    <3> QED BY <3>1
  <2> QED BY <2>2, <2>3 DEF Pending
<1> QED BY <1>3, RecordStays

\* The arguments doom a step: nothing is left of the call but to free what the
\* rank alone has, and no script has more of it.
LEMMA DoomedStops ==
  ASSUME NEW r, RankInv(r), Grounds(r), Succeeds(r), todo[r] # <<>>, Doomed(r)
  PROVE  /\ Creating(r) /\ calls[r] \in {1, 3} /\ (calls[r] = 1 => ~GridOK)
         /\ \A i \in 1 .. Len(Cleanup(r)) :
              Cleanup(r)[i].on = "self" /\ Cleanup(r)[i].do \in {"free", "skip"}
         /\ Cleanup(r) \in Seq(Frees \cup {Skip})
         /\ \A e \in Collectives(r, calls[r]) : \A j \in 1 .. Len(todo[r]) : todo[r][j] = e => j = 1
<1>1. PICK n, o, h : n = calls[r] /\ o = ObjectOf(n) /\ h = Head(todo[r])
  OBVIOUS
<1>2. h.do \in {"shape", "plan"} /\ h.do # "return"
  BY <1>1 DEF Doomed
<1>3. /\ Creating(r) /\ Len(todo[r]) \in Nat /\ h = todo[r][1]
  <2>1. h = todo[r][1] /\ Len(todo[r]) \in Nat /\ Len(todo[r]) > 0
    BY <1>1, LastStep
  <2>2. ~Freeing(r)
    BY <1>2, <2>1, WhileFreeing
  <2> QED BY <2>1, <2>2, LastStep
<1>4. PICK c : c = Creation(r, n) /\ c \in Seq(AllSteps)
  BY <1>1, <1>3, WhileCreating
<1>5. PICK k \in 1 .. Len(c) : Reached(r, c, k) /\ Remains(r, c, k) /\ h = c[k]
  BY <1>1, <1>3, <1>4, WhileCreating
<1>6. n \in 1 .. 3
  BY <1>1, <1>3 DEF Creating
<1>7. (h.do = "shape" <=> n = 1 /\ k = 2) /\ (h.do = "plan" => n = 3)
  BY <1>4, <1>5, <1>6, CreationSound
<1>8. o \in Objects /\ Nothing \notin held[r]
  BY <1>1, <1>6, ObjectFacts, HeldExists DEF RankInv
<1>9. Clears(Cleanup(r), Has(r, o)) /\ Has(r, o) \in SUBSET Resources
  <2>1. \/ Clears(Cleanup(r), Has(r, o)) \/ calls[r] = 2
    BY <1>1, <1>2, <1>3, CleanupClears
  <2>2. n # 2
    BY <1>2, <1>7
  <2> QED BY <1>1, <1>8, <2>1, <2>2, PartsApart DEF Has
<1>10. \A i \in 1 .. Len(Cleanup(r)) :
         \/ Cleanup(r)[i].on = "self" /\ Cleanup(r)[i].do = "skip"
         \/ \E res \in Has(r, o) : Cleanup(r)[i] = Free(res) /\ Cleanup(r)[i].do = "free"
  <2>1. Skip.on = "self" /\ Skip.do = "skip"
    BY DEF Skip, Local, Step
  <2>2. \A res \in Has(r, o) : Free(res).do = "free"
    BY <1>9, FreeFacts
  <2> QED BY <1>9, <2>1, <2>2 DEF Clears
<1>11. Cleanup(r) \in Seq(Frees \cup {Skip})
  BY <1>9 DEF Clears
<1>12. CASE h.do = "shape"
  <2>1. n = 1 /\ k = 2 /\ c = GridCreate /\ o = "grid"
    BY <1>1, <1>4, <1>7, <1>12 DEF Creation, ObjectOf
  <2>2. ~GridOK
    BY <1>1, <1>12 DEF Doomed, GridOK
  <2>3. Collectives(r, n) = {}
    BY <2>1, <2>2 DEF Collectives
  <2>4. Has(r, o) = {Heap("grid")}
    <3>1. Has(r, o) = Made(c, 2)
      BY <1>1, <1>5, <2>1 DEF Reached
    <3>2. /\ Made(c, 1) = {}
          /\ Made(c, 1 + 1) = Made(c, 1) \cup (IF Acquires(c[1]) THEN {c[1].res} ELSE {})
      BY MadeNext
    <3>3. c[1].res = Heap("grid") /\ Acquires(c[1])
      BY <2>1 DEF GridCreate, Local, Step, Acquires
    <3> QED BY <3>1, <3>2, <3>3
  <2>5. Free(Heap("grid")).on = "self"
    BY DEF Free, Heap, Step
  <2> QED BY <1>1, <1>3, <1>10, <1>11, <2>1, <2>2, <2>3, <2>4, <2>5
<1>13. CASE h.do = "plan"
  <2>1. n = 3 /\ c = PlanCreate(r) /\ o = "plan" /\ Len(c) = 6
    BY <1>1, <1>4, <1>7, <1>13, PlanCollectives DEF Creation, ObjectOf
  <2>2. \A res \in Has(r, o) : Free(res).on = "self"
    <3>1. \A x : Free(Plan(x)).on = "self" /\ Free(Heap(x)).on = "self"
      BY DEF Free, Heap, Plan, Step
    <3>2. Has(r, o) \subseteq PartsOf("plan")
      BY <2>1 DEF Has
    <3> QED BY <3>1, <3>2, PartsOfAre
  <2>3. c[k].on # "self"
    BY <1>5, <1>13, <2>1, PlanCollectives
  <2>4. PICK t \in Transposes : c[k] = PlanOf(t) /\ ~TrivialOn(request, r, t)
    BY <2>1, <2>3, PlanCollectives
  <2>5. Stops(r, t)
    <3>1. h.res[2] = t
      BY <1>5, <2>4 DEF PlanOf, Step, Plan
    <3>2. h.res[2] \in request.unplannable
      BY <1>1, <1>13 DEF Doomed
    <3> QED BY <2>4, <3>1, <3>2 DEF Stops
  <2>6. ASSUME NEW e \in Collectives(r, n), NEW j \in 1 .. Len(todo[r]), todo[r][j] = e
        PROVE  j = 1
    <3>1. PICK u \in Transposes : Plans(r, u) /\ e = PlanOf(u)
      BY <2>1, <2>6 DEF Collectives
    <3>2. Len(todo[r]) = 7 - k /\ c[k - 1 + j] = PlanOf(u)
      BY <1>5, <2>1, <2>6, <3>1 DEF Remains
    <3>3. k - 1 + j \in 1 .. 6 /\ k \in 1 .. 6
      BY <2>1, <3>2
    <3>4. t \notin Before(u)
      BY <2>5, <3>1 DEF Plans
    <3>5. ~(k - 1 + j > k)
      BY <2>1, <2>4, <3>1, <3>2, <3>3, <3>4, PlanCollectives
    <3> QED BY <3>3, <3>5
  <2> QED BY <1>1, <1>3, <1>10, <1>11, <2>1, <2>2, <2>6
<1> QED BY <1>2, <1>12, <1>13

\* A step that the arguments doom.
LEMMA DoomedRecords ==
  ASSUME Typed, NEW r \in Procs, RankInv(r), Grounds(r), Succeeds(r), Recorded(r), todo[r] # <<>>,
         waits[r] \/ Head(todo[r]).on = "self", Doomed(r), Fails(r), waits'[r] = FALSE,
         entered'[r] = entered[r], UNCHANGED <<request, shape, calls>>
  PROVE  Recorded(r)'
<1>1. todo'[r] = Cleanup(r) /\ calls'[r] = calls[r]
  BY DEF Fails, Typed
<1>2. \A i \in 1 .. Len(todo'[r]) : todo'[r][i].on = "self"
  BY <1>1, DoomedStops
<1>3. Head(todo[r]) = todo[r][1] /\ calls[r] \in Int
  BY LastStep DEF RankInv, RankTyped
<1>4. ASSUME NEW i \in 1 .. 6, NEW e \in Collectives(r, i)
      PROVE  Pending(r, e)' <=> Pending(r, e)
  <2>1. e.on # "self" /\ CallOf(e) = i
    <3>1. e.on \in Communicators /\ CallOf(e) = i
      BY <1>4, ScriptHas
    <3> QED BY <3>1 DEF Communicators, Transposes
  <2>2. ~\E j \in 1 .. Len(todo'[r]) : todo'[r][j] = e
    BY <1>2, <2>1
  <2>3. CASE calls[r] = i
    <3>1. \A j \in 1 .. Len(todo[r]) : todo[r][j] = e => j = 1
      BY <1>4, <2>3, DoomedStops
    <3>2. ~Pending(r, e)
      BY <1>3, <2>1, <2>3, <3>1 DEF Pending
    <3>3. ~Pending(r, e)'
      BY <1>1, <2>1, <2>2, <2>3 DEF Pending
    <3> QED BY <3>2, <3>3
  <2>4. CASE calls[r] # i
    BY <1>1, <1>3, <2>1, <2>4 DEF Pending
  <2> QED BY <2>3, <2>4
<1> QED BY <1>4, RecordStays

---------------------------------------------------------------------------
(* What is there and what comes to be, step by step.                       *)

\* A step is over: a creation that has come to its end adds its object.
LEMMA CompletesAdds ==
  ASSUME Typed, NEW r \in Procs, RankInv(r), todo[r] # <<>>, Completes(r)
  PROVE  /\ todo'[r] = Tail(todo[r]) /\ Len(todo'[r]) = Len(todo[r]) - 1
         /\ \A j \in 1 .. Len(todo[r]) - 1 : todo'[r][j] = todo[r][j + 1]
         /\ Len(todo[r]) = 1 <=> todo'[r] = <<>>
         /\ pointers'[r] = IF Returns(r) /\ Len(todo[r]) = 1
                           THEN pointers[r] \cup {ObjectOf(calls[r])} ELSE pointers[r]
         /\ Returns(r) => calls[r] \in 1 .. 3
<1>1. PICK n, o, h : n = calls[r] /\ o = ObjectOf(n) /\ h = Head(todo[r])
  OBVIOUS
<1>2. /\ todo[r] \in Seq(AnyStep) /\ Len(todo[r]) > 0 /\ h = todo[r][1]
      /\ Creating(r) <=> Returns(r)
  BY <1>1, LastStep DEF Returns
<1>3. /\ todo'[r] = Tail(todo[r])
      /\ pointers'[r] = IF h.do = "return" THEN pointers[r] \cup {h.res[2]} ELSE pointers[r]
  BY <1>1 DEF Completes, Typed
<1>4. /\ todo'[r] \in Seq(AnyStep) /\ Len(todo'[r]) = Len(todo[r]) - 1 /\ Len(todo[r]) \in Nat
      /\ \A j \in 1 .. Len(todo[r]) - 1 : todo'[r][j] = todo[r][j + 1]
  BY <1>2, <1>3, HeadTailProperties
<1>5. Len(todo[r]) = 1 <=> todo'[r] = <<>>
  <2>1. \A u \in Seq(AnyStep) : Len(u) = 0 <=> u = <<>>
    OBVIOUS
  <2>2. Len(todo'[r]) = 0 <=> todo'[r] = <<>>
    BY <1>4, <2>1
  <2>3. Len(todo'[r]) = 0 <=> Len(todo[r]) = 1
    BY <1>4
  <2> QED BY <2>2, <2>3
<1>6. CASE Creating(r)
  <2>1. PICK c : c = Creation(r, n) /\ c \in Seq(AllSteps)
    BY <1>1, <1>6, WhileCreating
  <2>2. PICK k \in 1 .. Len(c) : Remains(r, c, k) /\ h = c[k]
    BY <1>1, <1>6, <2>1, WhileCreating
  <2>3. n \in 1 .. 3
    BY <1>1, <1>6 DEF Creating
  <2>4. /\ c[k].do = "return" <=> k = Len(c)
        /\ c[Len(c)].res[2] = o
    BY <1>1, <2>1, <2>3, CreationSound DEF Sound
  <2>5. Len(todo[r]) = 1 <=> k = Len(c)
    BY <2>1, <2>2 DEF Remains
  <2> QED BY <1>1, <1>2, <1>3, <1>4, <1>5, <1>6, <2>2, <2>3, <2>4, <2>5
<1>7. CASE ~Creating(r)
  <2>1. h.do # "return"
    <3>1. Freeing(r)
      BY <1>7 DEF RankInv, Busy
    <3>2. h.do \in {"free", "skip"}
      BY <1>2, <1>4, <3>1, WhileFreeing
    <3> QED BY <3>2
  <2> QED BY <1>2, <1>3, <1>4, <1>5, <1>7, <2>1
<1> QED BY <1>6, <1>7

\* The grounds of a call are those of its beginning.
LEMMA GroundsStay ==
  ASSUME Typed, NEW r \in Procs, RankInv(r), RankInv(r)', Grounds(r),
         Proceed(r) \/ ReturnEarly(r) \/ Fail(r)
  PROVE  Grounds(r)'
<1>1. UNCHANGED <<request, shape>>
  BY DEF Proceed, Begin, Do, Enter, Return, ReturnEarly, Fail
<1>2. GridOK' = GridOK /\ ProblemOK' = ProblemOK /\ ArgumentsPass(request)' = ArgumentsPass(request)
  <2>1. GridOK' = GridOK /\ ProblemOK' = ProblemOK
    BY <1>1, ScriptStays
  <2> QED BY <1>1, <2>1 DEF ArgumentsPass
<1>3. CASE Begin(r)
  <2>1. PICK k : k = calls[r] + 1
    OBVIOUS
  <2>2. /\ k \in 1 .. 6 /\ calls'[r] = k /\ todo'[r] = Steps(r, k)
        /\ pointers'[r] \subseteq pointers[r]
    BY <1>3, <2>1 DEF Begin, Typed, RankInv, RankTyped, LastCall
  <2>3. todo'[r] # <<>> =>
          /\ k = 1 => ArgumentsPass(request)
          /\ k = 2 => "grid" \in pointers[r] /\ request.howmany >= 0
          /\ k \in {3, 5} => "problem" \in pointers[r]
          /\ k = 6 => "grid" \in pointers[r]
    BY <2>2 DEF Steps
  <2> QED BY <1>2, <2>2, <2>3 DEF Grounds, ProblemOK
<1>4. CASE Enter(r)
  BY <1>2, <1>4 DEF Enter, Grounds
<1>5. CASE todo[r] # <<>> /\ calls' = calls /\ Fails(r)
  BY <1>2, <1>5 DEF Fails, Grounds
<1>6. CASE todo[r] # <<>> /\ calls' = calls /\ Completes(r)
  <2>1. pointers'[r] = IF Returns(r) /\ Len(todo[r]) = 1
                       THEN pointers[r] \cup {ObjectOf(calls[r])} ELSE pointers[r]
    BY <1>6, CompletesAdds
  <2>2. Returns(r) => calls[r] \in 1 .. 3
    BY <1>6, CompletesAdds
  <2>3. "grid" \in pointers'[r] => GridOK
    <3>1. CASE "grid" \in pointers[r]
      BY <3>1 DEF Grounds
    <3>2. CASE "grid" \in pointers'[r] /\ "grid" \notin pointers[r]
      <4>1. calls[r] = 1
        BY <2>1, <2>2, <3>2 DEF ObjectOf
      <4>2. ShapePasses(request, shape)
        BY <1>1, <3>2 DEF RankInv, Checked, ShapePasses
      <4> QED BY <1>6, <4>1, <4>2 DEF Grounds, GridOK
    <3> QED BY <3>1, <3>2
  <2>4. "problem" \in pointers'[r] => ProblemOK
    <3>1. CASE "problem" \in pointers[r]
      BY <3>1 DEF Grounds
    <3>2. CASE "problem" \in pointers'[r] /\ "problem" \notin pointers[r]
      <4>1. calls[r] = 2
        BY <2>1, <2>2, <3>2 DEF ObjectOf
      <4> QED BY <1>6, <4>1 DEF Grounds
    <3> QED BY <3>1, <3>2
  <2> QED BY <1>2, <1>6, <2>3, <2>4 DEF Grounds
<1>7. \/ Begin(r) \/ Enter(r)
      \/ todo[r] # <<>> /\ calls' = calls /\ (Fails(r) \/ Completes(r))
  <2>1. waits[r] => todo[r] # <<>>
    BY DEF RankInv, Inside
  <2> QED BY <2>1 DEF Proceed, Do, Return, ReturnEarly, Fail, Ends
<1> QED BY <1>3, <1>4, <1>5, <1>6, <1>7

\* A call begins with what those before it have made.
LEMMA BeginSucceeds ==
  ASSUME Typed, NEW r \in Procs, RankInv(r), Grounds(r), Succeeds(r), Begin(r)
  PROVE  Succeeds(r)'
<1>1. PICK n, k : n = calls[r] /\ k = n + 1
  OBVIOUS
<1>2. /\ todo[r] = <<>> /\ n \in 0 .. 5 /\ k \in 1 .. 6 /\ calls'[r] = k /\ todo'[r] = Steps(r, k)
      /\ pointers'[r] = pointers[r] \ Destroyed(k) /\ UNCHANGED <<request, shape>>
  BY <1>1 DEF Begin, Typed, RankInv, RankTyped, LastCall
<1>3. /\ GridOK' = GridOK /\ ProblemOK' = ProblemOK
      /\ \A t : Stops(r, t)' = Stops(r, t)
  BY <1>2, ScriptStays
<1>4. k \in 2 .. 5 /\ GridOK => "grid" \in pointers[r]
  BY <1>1, <1>2 DEF Succeeds
<1>5. k \in 3 .. 5 /\ ProblemOK => "problem" \in pointers[r]
  BY <1>1, <1>2 DEF Succeeds
<1>6. /\ k \in 1 .. 5 => "grid" \notin Destroyed(k)
      /\ k \in 1 .. 4 => "problem" \notin Destroyed(k)
  BY <1>2 DEF Destroyed
<1>7. /\ GridCreate # <<>> /\ ProblemCreate # <<>>
      /\ GridCreate[Len(GridCreate)].do = "return"
      /\ ProblemCreate[Len(ProblemCreate)].do = "return"
      /\ PlanCreate(r)[Len(PlanCreate(r))].do = "return"
  <2>1. Len(<<>>) = 0
    OBVIOUS
  <2>2. Len(GridCreate) # 0 /\ Len(ProblemCreate) # 0
    BY GridCollectives, ProblemCollectives
  <2>3. GridCreate # <<>> /\ ProblemCreate # <<>>
    BY <2>1, <2>2, Zenon
  <2> QED BY <2>3, GridCollectives, ProblemCollectives, PlanCollectives
<1>8. GridOK' /\ (calls'[r] \in 2 .. 5 \/ (calls'[r] = 1 /\ todo'[r] = <<>>)) =>
        "grid" \in pointers'[r]
  <2>1. k = 1 /\ GridOK => todo'[r] # <<>>
    BY <1>2, <1>7 DEF Steps, GridOK
  <2> QED BY <1>2, <1>3, <1>4, <1>6, <2>1
<1>9. ProblemOK' /\ (calls'[r] \in 3 .. 4 \/ (calls'[r] = 2 /\ todo'[r] = <<>>)) =>
        "problem" \in pointers'[r]
  <2>1. k = 2 /\ ProblemOK => todo'[r] # <<>>
    BY <1>2, <1>4, <1>7 DEF Steps, ProblemOK
  <2> QED BY <1>2, <1>3, <1>5, <1>6, <2>1
<1>10. calls'[r] \in 1 .. 3 /\ todo'[r] # <<>> => Returns(r)'
  <2>1. CASE k \in 1 .. 3 /\ todo'[r] # <<>>
    <3>1. todo'[r] = IF k = 1 THEN GridCreate ELSE IF k = 2 THEN ProblemCreate ELSE PlanCreate(r)
      BY <1>2, <2>1 DEF Steps
    <3>2. todo'[r][Len(todo'[r])].do = "return"
      BY <1>7, <2>1, <3>1
    <3> QED BY <2>1, <3>2 DEF Returns
  <2> QED BY <1>2, <2>1
<1>11. calls'[r] = 4 => Quiet(r)'
  <2>1. CASE k = 4
    <3>1. todo'[r] = IF "plan" \in pointers[r] THEN Destroy(r, PlanParts) ELSE <<>>
      BY <1>2, <2>1 DEF Steps
    <3>2. \A x : Free(Plan(x)).on = "self" /\ Free(Heap(x)).on = "self" /\ Skip.on = "self"
      BY DEF Free, Heap, Plan, Skip, Local, Step
    <3>3. \A i \in 1 .. 5 : \E x : PlanParts[i] = Plan(x) \/ PlanParts[i] = Heap(x)
      BY PartsAre
    <3>4. Len(PlanParts) = 5 /\ DOMAIN PlanParts = 1 .. 5
      BY PartsAre
    <3>5. Destroy(r, PlanParts)
            = [i \in 1 .. 5 |-> IF PlanParts[i] \in held[r] THEN Free(PlanParts[i]) ELSE Skip]
      BY <3>4 DEF Destroy
    <3>6. Len(Destroy(r, PlanParts)) = 5 /\ \A i \in 1 .. 5 : Destroy(r, PlanParts)[i].on = "self"
      BY <3>2, <3>3, <3>5
    <3>7. Len(<<>>) = 0
      OBVIOUS
    <3>8. PICK d : d = Destroy(r, PlanParts)
      OBVIOUS
    <3>9. \A i \in 1 .. Len(todo'[r]) : todo'[r][i].on = "self"
      <4>1. Len(d) = 5 /\ \A i \in 1 .. 5 : d[i].on = "self"
        BY <3>6, <3>8
      <4>2. CASE todo'[r] = d
        BY <4>1, <4>2
      <4>3. CASE todo'[r] = <<>>
        <5>1. Len(todo'[r]) = 0
          BY <3>7, <4>3
        <5> QED BY <5>1
      <4> QED BY <3>1, <3>8, <4>2, <4>3
    <3> QED BY <3>9 DEF Quiet
  <2> QED BY <1>2, <2>1
<1>12. calls'[r] = 3 /\ Returns(r)' =>
         \A t \in Transposes :
           (\A i \in 1 .. Len(todo'[r]) : todo'[r][i].res # Plan(t)) => ~Stops(r, t)'
  <2>1. CASE k = 3 /\ todo'[r] # <<>>
    <3>1. todo'[r] = PlanCreate(r)
      BY <1>2, <2>1 DEF Steps
    <3> QED BY <3>1, PlanCollectives
  <2> QED BY <1>2, <2>1 DEF Returns
<1>13. calls'[r] \in 1 .. 3 /\ todo'[r] # <<>> =>
         \/ Returns(r)'
         \/ Quiet(r)' /\ calls'[r] # 2 /\ (calls'[r] = 1 => ~GridOK')
  BY <1>10
<1> QED BY <1>8, <1>9, <1>11, <1>12, <1>13 DEF Succeeds

\* A step is over, and the call goes on or has come to its end.
LEMMA CompletesSucceeds ==
  ASSUME Typed, NEW r \in Procs, RankInv(r), Grounds(r), Succeeds(r), todo[r] # <<>>,
         Completes(r), UNCHANGED <<request, shape, calls>>
  PROVE  Succeeds(r)'
<1>1. /\ todo'[r] = Tail(todo[r]) /\ Len(todo'[r]) = Len(todo[r]) - 1
      /\ \A j \in 1 .. Len(todo[r]) - 1 : todo'[r][j] = todo[r][j + 1]
      /\ Len(todo[r]) = 1 <=> todo'[r] = <<>>
      /\ pointers'[r] = IF Returns(r) /\ Len(todo[r]) = 1
                        THEN pointers[r] \cup {ObjectOf(calls[r])} ELSE pointers[r]
      /\ Returns(r) => calls[r] \in 1 .. 3
  BY CompletesAdds
<1>2. /\ GridOK' = GridOK /\ ProblemOK' = ProblemOK
      /\ \A t : Stops(r, t)' = Stops(r, t)
  BY ScriptStays
<1>3. PICK n, m : n = calls[r] /\ m = Len(todo[r])
  OBVIOUS
<1>4. m \in Nat /\ m > 0 /\ Head(todo[r]) = todo[r][1]
  BY <1>3, LastStep
<1>5. calls'[r] = n
  BY <1>3
<1>6. Returns(r)' <=> Returns(r) /\ m # 1
  <2>1. CASE m = 1
    BY <1>1, <1>3, <2>1 DEF Returns
  <2>2. CASE m # 1
    <3>1. m - 1 \in 1 .. m - 1 /\ (m - 1) + 1 = m
      BY <1>4, <2>2
    <3>2. todo'[r][Len(todo'[r])] = todo[r][m]
      BY <1>1, <1>3, <3>1
    <3> QED BY <1>1, <1>3, <2>2, <3>2 DEF Returns
  <2> QED BY <2>1, <2>2
<1>7. Quiet(r) => Quiet(r)'
  <2>1. \A j \in 1 .. m - 1 : j + 1 \in 1 .. m
    BY <1>4
  <2> QED BY <1>1, <1>3, <2>1 DEF Quiet
<1>8. /\ GridOK' /\ (calls'[r] \in 2 .. 5 \/ (calls'[r] = 1 /\ todo'[r] = <<>>)) =>
           "grid" \in pointers'[r]
      /\ ProblemOK' /\ (calls'[r] \in 3 .. 4 \/ (calls'[r] = 2 /\ todo'[r] = <<>>)) =>
           "problem" \in pointers'[r]
  <2>1. GridOK /\ n \in 2 .. 5 => "grid" \in pointers[r]
    BY <1>3 DEF Succeeds
  <2>2. ProblemOK /\ n \in 3 .. 4 => "problem" \in pointers[r]
    BY <1>3 DEF Succeeds
  <2>3. (n = 1 /\ GridOK) \/ n = 2 => Returns(r)
    BY <1>3 DEF Succeeds
  <2>4. Returns(r) /\ m = 1 => ObjectOf(n) \in pointers'[r]
    BY <1>1, <1>3
  <2>5. pointers[r] \subseteq pointers'[r]
    BY <1>1
  <2>a. ObjectOf(1) = "grid" /\ ObjectOf(2) = "problem"
    BY DEF ObjectOf
  <2>b. todo'[r] = <<>> => m = 1
    BY <1>1, <1>3
  <2>6. n = 1 /\ todo'[r] = <<>> /\ GridOK => "grid" \in pointers'[r]
    BY <2>3, <2>4, <2>a, <2>b
  <2>7. n = 2 /\ todo'[r] = <<>> => "problem" \in pointers'[r]
    BY <2>3, <2>4, <2>a, <2>b
  <2> QED BY <1>2, <1>5, <2>1, <2>2, <2>5, <2>6, <2>7
<1>9. calls'[r] \in 1 .. 3 /\ todo'[r] # <<>> =>
        \/ Returns(r)'
        \/ Quiet(r)' /\ calls'[r] # 2 /\ (calls'[r] = 1 => ~GridOK')
  BY <1>1, <1>2, <1>3, <1>5, <1>6, <1>7 DEF Succeeds
<1>10. calls'[r] = 4 => Quiet(r)'
  BY <1>3, <1>5, <1>7 DEF Succeeds
<1>11. ASSUME calls'[r] = 3, Returns(r)', NEW t \in Transposes,
              \A i \in 1 .. Len(todo'[r]) : todo'[r][i].res # Plan(t)
       PROVE  ~Stops(r, t)
  <2>1. n = 3 /\ Returns(r) /\ m > 1
    BY <1>4, <1>5, <1>6, <1>11
  <2>2. CASE todo[r][1].res # Plan(t)
    <3>1. ASSUME NEW i \in 1 .. m PROVE todo[r][i].res # Plan(t)
      <4>1. CASE i = 1
        BY <2>2, <4>1
      <4>2. CASE i # 1
        <5>1. i - 1 \in 1 .. m - 1 /\ (i - 1) + 1 = i
          BY <1>4, <4>2
        <5>2. todo'[r][i - 1] = todo[r][i] /\ i - 1 \in 1 .. Len(todo'[r])
          BY <1>1, <1>3, <5>1
        <5> QED BY <1>11, <5>2
      <4> QED BY <4>1, <4>2
    <3> QED BY <1>3, <2>1, <3>1 DEF Succeeds
  <2>3. CASE todo[r][1].res = Plan(t)
    <3>1. Creating(r)
      BY <2>1, LastStep DEF Returns
    <3>2. PICK c : c = PlanCreate(r) /\ c = Creation(r, calls[r])
      BY <1>3, <2>1 DEF Creation
    <3>3. Len(c) = 6
      BY <3>2, PlanCollectives
    <3>4. PICK k \in 1 .. 6 : Head(todo[r]) = c[k]
      BY <3>1, <3>2, <3>3, WhileCreating
    <3>5. c[k].do = "plan" \/ TrivialOn(request, r, t)
      <4>1. \A u \in Transposes : \A j \in 1 .. 6 :
              PlanCreate(r)[j].res = Plan(u) =>
                PlanCreate(r)[j].do = "plan" \/ TrivialOn(request, r, u)
        BY PlanCollectives
      <4>2. \A j \in 1 .. 6 : c[j].res = Plan(t) => c[j].do = "plan" \/ TrivialOn(request, r, t)
        BY <3>2, <4>1
      <4>3. c[k].res = Plan(t)
        BY <1>4, <2>3, <3>4
      <4> QED BY <4>2, <4>3
    <3>6. c[k].do = "plan" => t \notin request.unplannable
      <4>1. Plan(t)[2] = t
        BY DEF Plan
      <4> QED BY <1>4, <2>3, <3>4, <4>1 DEF Completes, Doomed
    <3> QED BY <3>5, <3>6 DEF Stops
  <2> QED BY <2>2, <2>3
<1>12. calls'[r] = 3 /\ Returns(r)' =>
         \A t \in Transposes :
           (\A i \in 1 .. Len(todo'[r]) : todo'[r][i].res # Plan(t)) => ~Stops(r, t)'
  BY <1>2, <1>11
<1> QED BY <1>8, <1>9, <1>10, <1>12 DEF Succeeds

\* A step that the arguments doom ends what could not succeed.
LEMMA DoomedSucceeds ==
  ASSUME Typed, NEW r \in Procs, RankInv(r), Grounds(r), Succeeds(r), todo[r] # <<>>,
         Doomed(r), Fails(r), UNCHANGED <<request, shape, calls>>
  PROVE  Succeeds(r)'
<1>1. calls'[r] = calls[r] /\ todo'[r] = Cleanup(r) /\ pointers' = pointers
  BY DEF Fails, Typed
<1>2. /\ GridOK' = GridOK /\ ProblemOK' = ProblemOK
      /\ \A t : Stops(r, t)' = Stops(r, t)
  BY ScriptStays
<1>3. /\ calls[r] \in {1, 3} /\ (calls[r] = 1 => ~GridOK)
      /\ \A i \in 1 .. Len(todo'[r]) :
           todo'[r][i].on = "self" /\ todo'[r][i].do \in {"free", "skip"}
      /\ todo'[r] \in Seq(Frees \cup {Skip})
  BY <1>1, DoomedStops
<1>4. Quiet(r)'
  BY <1>3 DEF Quiet
<1>5. ~Returns(r)'
  <2>1. todo'[r] # <<>> => Len(todo'[r]) \in 1 .. Len(todo'[r])
    BY <1>3
  <2> QED BY <1>3, <2>1 DEF Returns
<1> QED BY <1>1, <1>2, <1>3, <1>4, <1>5 DEF Succeeds

\* A rank of which nothing changes but, at most, that it enters a collective.
LEMMA SucceedsStays ==
  ASSUME NEW q, UNCHANGED <<request, shape>>,
         calls'[q] = calls[q], todo'[q] = todo[q], pointers'[q] = pointers[q]
  PROVE  /\ Grounds(q) => Grounds(q)'
         /\ Succeeds(q) => Succeeds(q)'
<1>1. /\ GridOK' = GridOK /\ ProblemOK' = ProblemOK
      /\ \A t : Stops(q, t)' = Stops(q, t)
  BY ScriptStays
<1>2. ArgumentsPass(request)' = ArgumentsPass(request)
  BY DEF ArgumentsPass
<1>3. Returns(q)' = Returns(q) /\ Quiet(q)' = Quiet(q)
  BY DEF Returns, Quiet
<1> QED BY <1>1, <1>2, <1>3 DEF Grounds, Succeeds

\* What holds of the history of a rank holds while others move.
LEMMA HistoryStays ==
  ASSUME NEW q, History(q), UNCHANGED <<request, shape>>, failures' = 0 => failures = 0,
         calls'[q] = calls[q], todo'[q] = todo[q], waits'[q] = waits[q],
         pointers'[q] = pointers[q], entered'[q] = entered[q]
  PROVE  History(q)'
<1>1. \A e : Pending(q, e)' <=> Pending(q, e)
  BY DEF Pending
<1>2. Recorded(q) => Recorded(q)'
  BY <1>1, RecordStays
<1>3. (Grounds(q) => Grounds(q)') /\ (Succeeds(q) => Succeeds(q)')
  BY SucceedsStays
<1> QED BY <1>2, <1>3 DEF History

\* The step of a rank that ends, and does not fail for that rank alone.
LEMMA EndRecords ==
  ASSUME Typed, NEW r \in Procs, RankInv(r), Grounds(r), Succeeds(r), Recorded(r),
         todo[r] # <<>>, waits[r] \/ Head(todo[r]).on = "self", Ends(r), waits'[r] = FALSE,
         UNCHANGED <<request, shape, calls, entered>>
  PROVE  Succeeds(r)' /\ Recorded(r)'
<1>1. CASE Completes(r)
  <2>1. todo'[r] = Tail(todo[r])
    BY <1>1, CompletesAdds
  <2> QED BY <1>1, <2>1, CompletesSucceeds, TailRecords
<1>2. CASE Doomed(r) /\ Fails(r)
  BY <1>2, DoomedSucceeds, DoomedRecords
<1> QED BY <1>1, <1>2 DEF Ends

\* It holds after every step of the rank itself.
LEMMA OwnHistory ==
  ASSUME Typed, Logged, NEW r \in Procs, RankInv(r), RankInv(r)', History(r),
         Proceed(r) \/ ReturnEarly(r) \/ Fail(r)
  PROVE  History(r)'
<1>1. Grounds(r)'
  BY GroundsStay DEF History
<1>2. DOMAIN waits = Procs /\ waits[r] \in BOOLEAN
  BY DEF Typed, RankInv, RankTyped
<1>3. waits[r] => todo[r] # <<>>
  BY DEF RankInv, Inside
<1>4. CASE failures # 0 \/ Fail(r)
  <2>1. failures' # 0
    <3>1. CASE Fail(r)
      BY <3>1, FailuresCounted DEF Fail
    <3>2. CASE ~Fail(r) /\ failures # 0
      BY <3>2 DEF Proceed, Begin, Do, Enter, Return, ReturnEarly
    <3> QED BY <1>4, <3>1, <3>2
  <2> QED BY <1>1, <2>1 DEF History
<1>5. CASE failures = 0 /\ ~Fail(r)
  <2>1. SUFFICES Succeeds(r)' /\ Recorded(r)'
    BY <1>1 DEF History
  <2>2. Grounds(r) /\ Succeeds(r) /\ Recorded(r)
    BY <1>5 DEF History
  <2>3. CASE Begin(r)
    BY <2>2, <2>3, BeginRecords, BeginSucceeds
  <2>4. CASE Enter(r)
    <3>1. Recorded(r)'
      BY <2>2, <2>4, EnterRecords
    <3>2. /\ UNCHANGED <<request, shape>> /\ calls'[r] = calls[r]
          /\ todo'[r] = todo[r] /\ pointers'[r] = pointers[r]
      BY <2>4 DEF Enter
    <3> QED BY <2>2, <3>1, <3>2, SucceedsStays
  <2>5. CASE Do(r)
    <3>1. waits'[r] = FALSE
      BY <1>2, <2>5 DEF Do, RankInv, Inside
    <3> QED BY <2>2, <2>5, <3>1, EndRecords DEF Do
  <2>6. CASE Return(r)
    <3>1. waits'[r] = FALSE
      BY <1>2, <2>6 DEF Return
    <3> QED BY <1>3, <2>2, <2>6, <3>1, EndRecords DEF Return
  <2>7. CASE ReturnEarly(r)
    <3>1. waits'[r] = FALSE /\ Ends(r)
      BY <1>2, <2>7 DEF ReturnEarly, Ends
    <3> QED BY <1>3, <2>2, <2>7, <3>1, EndRecords DEF ReturnEarly
  <2> QED BY <1>5, <2>3, <2>4, <2>5, <2>6, <2>7 DEF Proceed
<1> QED BY <1>4, <1>5

---------------------------------------------------------------------------
(* The collectives agree.                                                  *)

\* What other ranks have entered stays.
LEMMA LoggedStays ==
  ASSUME Logged, Procs' = Procs, NEW r \in Procs, Proceed(r) \/ ReturnEarly(r) \/ Fail(r)
  PROVE  Logged' /\ \A q \in Procs : q # r => entered'[q] = entered[q]
<1>1. CASE Enter(r)
  BY <1>1 DEF Enter, Logged
<1>2. CASE ~Enter(r)
  <2>1. entered' = entered
    BY <1>2 DEF Proceed, Begin, Do, Return, ReturnEarly, Fail
  <2> QED BY <2>1 DEF Logged
<1> QED BY <1>1, <1>2

\* The invariant holds before any call.
LEMMA HInvInitially ==
  ASSUME Init
  PROVE  HInv
<1>1. Logged
  BY DEF Init, Logged
<1>2. ASSUME NEW r \in Procs PROVE History(r)
  <2>1. calls[r] = 0 /\ todo[r] = <<>> /\ pointers[r] = {}
        /\ \A c \in Communicators : entered[r][c] = <<>>
    BY DEF Init
  <2>2. Grounds(r) /\ Succeeds(r)
    BY <2>1 DEF Grounds, Succeeds
  <2>3. ASSUME NEW c \in Communicators PROVE RecordedOn(r, c, Script(r, c))
    <3>1. PICK s : s = Script(r, c)
      OBVIOUS
    <3>2. Len(s) \in Nat /\ \A j \in 1 .. Len(s) : CallOf(s[j]) \in 1 .. 6
      BY <3>1, ScriptFacts DEF Ordered
    <3>3. \A j \in 1 .. Len(s) : Pending(r, s[j])
      BY <2>1, <3>2 DEF Pending
    <3>4. entered[r][c] = [j \in 1 .. 0 |-> <<s[j].do, s[j].res>>]
      BY <2>1
    <3>5. 0 \in 0 .. Len(s) /\ \A j \in 1 .. Len(s) : j <= 0 <=> ~Pending(r, s[j])
      BY <3>2, <3>3
    <3>6. RecordedOn(r, c, s)
      BY <3>4, <3>5 DEF RecordedOn
    <3> QED BY <3>1, <3>6
  <2> QED BY <2>2, <2>3 DEF History, Recorded
<1> QED BY <1>1, <1>2 DEF HInv

\* Every step keeps it.
LEMMA HInvStays ==
  ASSUME IInv, IInv', HInv, [Next]_vars
  PROVE  HInv'
<1>1. Typed /\ Logged /\ \A q \in Procs : RankInv(q) /\ History(q)
  BY DEF IInv, HInv
<1>2. ASSUME NEW r \in Procs, Proceed(r) \/ ReturnEarly(r) \/ Fail(r)
      PROVE  HInv'
  <2>1. Procs' = Procs
    BY <1>1, <1>2, TypedStays
  <2>2. Logged' /\ \A q \in Procs : q # r => entered'[q] = entered[q]
    BY <1>1, <1>2, <2>1, LoggedStays
  <2>3. ASSUME NEW q \in Procs PROVE History(q)'
    <3>1. CASE q = r
      <4>1. RankInv(r)'
        BY <1>1, <1>2, OwnStep
      <4>2. History(r)'
        BY <1>1, <1>2, <4>1, OwnHistory
      <4> QED BY <3>1, <4>2
    <3>2. CASE q # r
      <4>1. /\ UNCHANGED <<request, shape>> /\ failures' \in {failures, failures + 1}
            /\ calls'[q] = calls[q] /\ todo'[q] = todo[q] /\ waits'[q] = waits[q]
            /\ pointers'[q] = pointers[q]
        BY <1>1, <1>2, <3>2, OthersStay
      <4>2. failures' = 0 => failures = 0
        BY <1>1, <4>1, FailuresCounted
      <4> QED BY <1>1, <2>2, <3>2, <4>1, <4>2, HistoryStays
    <3> QED BY <3>1, <3>2
  <2> QED BY <2>1, <2>2, <2>3 DEF HInv
<1>3. CASE UNCHANGED vars
  <2>1. Procs' = Procs /\ Logged'
    BY <1>1, <1>3 DEF vars, Procs, Logged
  <2>2. ASSUME NEW q \in Procs PROVE History(q)'
    BY <1>1, <1>3, HistoryStays DEF vars
  <2> QED BY <2>1, <2>2 DEF HInv
<1> QED BY <1>2, <1>3 DEF Next

\* Two records of one script agree as far as both go.
LEMMA RecordsAgree ==
  ASSUME NEW r, NEW q, NEW c, NEW s, Len(s) \in Nat, RecordedOn(r, c, s), RecordedOn(q, c, s),
         Len(entered[r][c]) <= Len(entered[q][c]), entered[r][c] # <<>>
  PROVE  entered[r][c][Len(entered[r][c])] = entered[q][c][Len(entered[r][c])]
<1> DEFINE f(n) == [j \in 1 .. n |-> <<s[j].do, s[j].res>>]
<1>1. PICK m \in 0 .. Len(s) : entered[r][c] = f(m)
  BY DEF RecordedOn
<1>2. PICK n \in 0 .. Len(s) : entered[q][c] = f(n)
  BY DEF RecordedOn
<1>3. ASSUME NEW i \in Nat
      PROVE  /\ Len(f(i)) = i /\ (f(i) = <<>> <=> i = 0)
             /\ \A j \in 1 .. i : f(i)[j] = <<s[j].do, s[j].res>>
  <2> DEFINE S == {<<s[j].do, s[j].res>> : j \in 1 .. i}
  <2>1. f(i) \in [1 .. i -> S]
    OBVIOUS
  <2>2. \A j \in 1 .. i : f(i)[j] = <<s[j].do, s[j].res>>
    OBVIOUS
  <2> HIDE DEF f, S
  <2>3. f(i) \in Seq(S) /\ Len(f(i)) = i
    BY <2>1, SeqDef, LenProperties
  <2>4. f(i) = <<>> <=> Len(f(i)) = 0
    BY <2>3
  <2> QED BY <2>2, <2>3, <2>4
<1> HIDE DEF f
<1>4. m \in Nat /\ n \in Nat
  OBVIOUS
<1>5. /\ Len(f(m)) = m /\ (f(m) = <<>> <=> m = 0)
      /\ \A j \in 1 .. m : f(m)[j] = <<s[j].do, s[j].res>>
  BY <1>3, <1>4
<1>6. Len(f(n)) = n /\ \A j \in 1 .. n : f(n)[j] = <<s[j].do, s[j].res>>
  BY <1>3, <1>4
<1>7. Len(entered[r][c]) = m /\ Len(entered[q][c]) = n
  BY <1>1, <1>2, <1>5, <1>6, Zenon
<1>8. m <= n /\ m # 0
  BY <1>1, <1>5, <1>7
<1>9. m \in 1 .. m /\ m \in 1 .. n
  BY <1>4, <1>8
<1>10. f(m)[m] = f(n)[m]
  BY <1>5, <1>6, <1>9
<1> QED BY <1>1, <1>2, <1>7, <1>10, Zenon

\* Without failures of single ranks, the ranks of a communicator enter the same
\* collectives on it, in the same order, for any request.
THEOREM CollectivesAgree == Spec => []CollectivesMatch
<1>1. Init => HInv
  BY HInvInitially
<1>2. IInv /\ IInv' /\ HInv /\ [Next]_vars => HInv'
  BY HInvStays
<1>3. HInv => CollectivesMatch
  <2>1. SUFFICES ASSUME HInv, failures = 0, PlansFailTogether,
                        NEW r \in Procs, NEW c \in Communicators, entered[r][c] # <<>>,
                        NEW q \in Members(r, c),
                        Len(entered[r][c]) <= Len(entered[q][c])
                 PROVE  entered[r][c][Len(entered[r][c])] = entered[q][c][Len(entered[r][c])]
    BY DEF CollectivesMatch
  <2>2. q \in Procs
    BY <2>1 DEF Members, Communicators, Transposes
  <2>3. PICK s : s = Script(r, c)
    OBVIOUS
  <2>4. Script(q, c) = s
    BY <2>1, <2>3, ScriptShared
  <2>5. RecordedOn(r, c, s) /\ RecordedOn(q, c, s)
    BY <2>1, <2>2, <2>3, <2>4 DEF HInv, History, Recorded
  <2>6. Len(s) \in Nat
    BY <2>1, <2>3, ScriptFacts DEF Ordered
  <2> QED BY <2>1, <2>5, <2>6, RecordsAgree
<1> QED BY <1>1, <1>2, <1>3, RanksKeepTrack, PTL DEF Spec

=============================================================================
