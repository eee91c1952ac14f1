-------------------------- MODULE UnderlingProofs --------------------------
(***************************************************************************)
(* Theorems about Underling for every set of problems, every number of     *)
(* ranks and every program.                                                *)
(***************************************************************************)
EXTENDS Underling, TransposeProofs

\* The initial state is well typed.
LEMMA InitTypeOK == Init => TypeOK
<1> SUFFICES ASSUME Init PROVE TypeOK
  OBVIOUS
<1>1. script = <<>> /\ script \in Seq(Call) /\ Len(script) = 0
  BY DEF Init
<1>2. FirstBuffer \in Buffers
  BY BuffersAssumption DEF FirstBuffer
<1>3. CallsTyped
  <2>1. Len(script) <= MaxCalls
    BY <1>1, BoundsAssumption
  <2>2. /\ done \in [Ranks(prob) -> 0 .. Len(script)]
        /\ inside \in [Ranks(prob) -> BOOLEAN]
        /\ at \in [Ranks(prob) -> [dir : Directions, buf : Buffers]]
    BY <1>1, <1>2 DEF Init
  <2> QED BY <1>1, <2>1, <2>2 DEF CallsTyped, Init
<1>4. BuffersTyped
  BY DEF Init, FilledBuffer, BuffersTyped
<1>5. NetTyped
  BY DEF Init, NetTyped
<1>6. InsideByCall
  <2>1. \A r \in Ranks(prob) : ~inside[r]
    BY DEF Init
  <2> QED BY <2>1 DEF InsideByCall
<1> QED BY <1>3, <1>4, <1>5, <1>6 DEF TypeOK

\* What a rank may call next is a call, whether its program settled it or not.
LEMMA CallsAreCalls ==
  ASSUME CallsTyped, NEW r \in Ranks(prob)
  PROVE  Calls(r) \subseteq Call
<1>1. script \in Seq(Call) /\ Len(script) \in Nat /\ done[r] \in 0 .. Len(script)
  BY DEF CallsTyped
<1>2. CASE done[r] = Len(script)
  BY <1>2 DEF Calls, ProgramCalls
<1>3. CASE done[r] # Len(script)
  <2>1. done[r] + 1 \in 1 .. Len(script)
    BY <1>1, <1>3
  <2>2. script[done[r] + 1] \in Call
    BY <1>1, <2>1
  <2> QED BY <1>3, <2>2 DEF Calls
<1> QED BY <1>2, <1>3

\* The program grows by calls only, and never changes once written.
LEMMA MakesExtendsScript ==
  ASSUME CallsTyped, NEW r \in Ranks(prob), NEW call \in Calls(r), Makes(r, call)
  PROVE  /\ script' \in Seq(Call) /\ Len(script') <= MaxCalls
         /\ Len(script) <= Len(script')
         /\ done[r] + 1 \in 1 .. Len(script') /\ script'[done[r] + 1] = call
         /\ \A k \in 1 .. Len(script) : script'[k] = script[k]
<1>1. script \in Seq(Call) /\ Len(script) \in Nat /\ done[r] \in 0 .. Len(script)
  BY DEF CallsTyped
<1>4. call \in Call
  BY CallsAreCalls
<1>2. CASE done[r] = Len(script)
  <2>1. script' = Append(script, call) /\ done[r] < MaxCalls
    BY <1>2 DEF Makes
  <2> QED BY <1>1, <1>2, <1>4, <2>1, BoundsAssumption
<1>3. CASE done[r] # Len(script)
  <2>1. script' = script /\ call = script[done[r] + 1]
    BY <1>3 DEF Makes, Calls
  <2> QED BY <1>1, <1>3, <2>1 DEF CallsTyped
<1> QED BY <1>2, <1>3

\* An accepted call leads to a real buffer and a direction.
LEMMA CallTarget ==
  ASSUME NEW call \in Call, Accepted(call)
  PROVE  call.way \in Ways /\ call.way[2] \in Directions /\ call.out \in Buffers
<1>1. call.way \in Ways /\ call.out \in Buffers
  BY DEF Call, Accepted
<1> QED BY <1>1 DEF Ways, Directions

\* What rank r does leaves the other ranks inside the calls they are in.
LEMMA InsideStep ==
  ASSUME TypeOK, NEW r \in Ranks(prob), prob' = prob, inPlace' = inPlace,
         Len(script') \in Nat, Len(script) <= Len(script'),
         \A k \in 1 .. Len(script) : script'[k] = script[k],
         \A q \in Ranks(prob) \ {r} : inside'[q] = inside[q] /\ done'[q] = done[q],
         inside'[r] => done'[r] < Len(script') /\ Accepted(script'[done'[r] + 1])
  PROVE  InsideByCall'
<1>1. ASSUME NEW q \in Ranks(prob), inside'[q]
      PROVE  done'[q] < Len(script') /\ Accepted(script'[done'[q] + 1])
  <2>1. CASE q = r
    BY <1>1, <2>1
  <2>2. CASE q # r
    <3>1. done'[q] = done[q] /\ inside[q]
      BY <1>1, <2>2
    <3>2. done[q] < Len(script) /\ Accepted(script[done[q] + 1])
      BY <3>1 DEF TypeOK, InsideByCall
    <3>3. done[q] \in Nat /\ Len(script) \in Nat
      BY DEF TypeOK, CallsTyped
    <3>4. script'[done[q] + 1] = script[done[q] + 1]
      BY <3>2, <3>3
    <3>5. done[q] < Len(script')
      BY <3>2, <3>3
    <3> QED BY <3>1, <3>2, <3>4, <3>5
  <2> QED BY <2>1, <2>2
<1> QED BY <1>1 DEF InsideByCall, Accepted

\* Every step keeps the variables in their domains.
LEMMA NextTypeOK == TypeOK /\ [Next]_vars => TypeOK'
<1> SUFFICES ASSUME TypeOK, [Next]_vars PROVE TypeOK'
  OBVIOUS
<1>0. CallsTyped /\ BuffersTyped /\ NetTyped /\ InsideByCall
  BY DEF TypeOK
<1>1. CASE UNCHANGED vars
  <2>1. CallsTyped'
    BY <1>0, <1>1 DEF CallsTyped, vars
  <2>2. BuffersTyped'
    BY <1>0, <1>1 DEF BuffersTyped, Memory, vars
  <2>3. NetTyped'
    BY <1>0, <1>1 DEF NetTyped, vars
  <2>4. InsideByCall'
    BY <1>0, <1>1 DEF InsideByCall, Accepted, vars
  <2> QED BY <2>1, <2>2, <2>3, <2>4 DEF TypeOK
<1>2. ASSUME NEW r \in Ranks(prob), Refuse(r) PROVE TypeOK'
  <2>1. PICK call \in Calls(r) :
          /\ Makes(r, call)
          /\ done' = [done EXCEPT ![r] = @ + 1]
          /\ UNCHANGED <<prob, inPlace, plan, start, inside, at, buf, net>>
    BY <1>2 DEF Refuse
  <2>0. call \in Call
    BY <1>0, CallsAreCalls
  <2>2. ~inside[r]
    BY <2>1 DEF Makes
  <2>3. /\ script' \in Seq(Call) /\ Len(script') <= MaxCalls
        /\ Len(script) <= Len(script') /\ done[r] + 1 \in 1 .. Len(script')
        /\ \A k \in 1 .. Len(script) : script'[k] = script[k]
    BY <1>0, <2>1, MakesExtendsScript
  <2>4. CallsTyped'
    BY <1>0, <2>1, <2>3 DEF CallsTyped
  <2>5. BuffersTyped'
    BY <1>0, <2>1 DEF BuffersTyped, Memory
  <2>6. NetTyped'
    BY <1>0, <2>1 DEF NetTyped
  <2>7. InsideByCall'
    <3>1. \A q \in Ranks(prob) \ {r} : inside'[q] = inside[q] /\ done'[q] = done[q]
      BY <1>0, <2>1 DEF CallsTyped
    <3>2. ~inside'[r]
      BY <2>1, <2>2
    <3>3. Len(script') \in Nat
      BY <2>3
    <3> QED BY <2>1, <2>3, <3>1, <3>2, <3>3, InsideStep
  <2> QED BY <2>4, <2>5, <2>6, <2>7 DEF TypeOK
<1>3. ASSUME NEW r \in Ranks(prob), ExecuteNothing(r) PROVE TypeOK'
  <2>1. PICK call \in Calls(r) :
          /\ Makes(r, call)
          /\ Accepted(call)
          /\ done' = [done EXCEPT ![r] = @ + 1]
          /\ at' = [at EXCEPT ![r] = [dir |-> call.way[2], buf |-> call.out]]
          /\ UNCHANGED <<prob, inPlace, plan, start, inside, buf, net>>
    BY <1>3 DEF ExecuteNothing
  <2>0. call \in Call
    BY <1>0, CallsAreCalls
  <2>2. ~inside[r]
    BY <2>1 DEF Makes
  <2>3. /\ script' \in Seq(Call) /\ Len(script') <= MaxCalls
        /\ Len(script) <= Len(script') /\ done[r] + 1 \in 1 .. Len(script')
        /\ \A k \in 1 .. Len(script) : script'[k] = script[k]
    BY <1>0, <2>1, MakesExtendsScript
  <2>4. CallsTyped'
    <3>1. call.way[2] \in Directions /\ call.out \in Buffers
      BY <2>0, <2>1, CallTarget
    <3> QED BY <1>0, <2>1, <2>3, <3>1 DEF CallsTyped
  <2>5. BuffersTyped'
    BY <1>0, <2>1 DEF BuffersTyped, Memory
  <2>6. NetTyped'
    BY <1>0, <2>1 DEF NetTyped
  <2>7. InsideByCall'
    <3>1. \A q \in Ranks(prob) \ {r} : inside'[q] = inside[q] /\ done'[q] = done[q]
      BY <1>0, <2>1 DEF CallsTyped
    <3>2. ~inside'[r]
      BY <2>1, <2>2
    <3>3. Len(script') \in Nat
      BY <2>3
    <3> QED BY <2>1, <2>3, <3>1, <3>2, <3>3, InsideStep
  <2> QED BY <2>4, <2>5, <2>6, <2>7 DEF TypeOK
<1>4. ASSUME NEW r \in Ranks(prob), Enter(r) PROVE TypeOK'
  <2>1. PICK call \in Calls(r) :
          /\ Makes(r, call)
          /\ Accepted(call)
          /\ inside' = [inside EXCEPT ![r] = TRUE]
          /\ net' = [net EXCEPT ![call.way][r] =
                       [q \in Ranks(prob) |->
                          IF q \in Group(prob, call.way, r)
                          THEN Append(@[q], Message(r, q, call.way, call.in))
                          ELSE @[q]]]
          /\ UNCHANGED <<prob, inPlace, plan, start, done, at, buf>>
    BY <1>4 DEF Enter
  <2>0. call \in Call
    BY <1>0, CallsAreCalls
  <2>2. /\ script' \in Seq(Call) /\ Len(script') <= MaxCalls
        /\ Len(script) <= Len(script') /\ done[r] + 1 \in 1 .. Len(script')
        /\ script'[done[r] + 1] = call
        /\ \A k \in 1 .. Len(script) : script'[k] = script[k]
    BY <1>0, <2>1, MakesExtendsScript
  <2>3. CallsTyped'
    BY <1>0, <2>1, <2>2 DEF CallsTyped
  <2>4. BuffersTyped'
    BY <1>0, <2>1 DEF BuffersTyped, Memory
  <2>5. NetTyped'
    BY <1>0, <2>0, <2>1 DEF NetTyped, Call
  <2>6. InsideByCall'
    <3>1. \A q \in Ranks(prob) \ {r} : inside'[q] = inside[q] /\ done'[q] = done[q]
      BY <1>0, <2>1 DEF CallsTyped
    <3>2. done'[r] < Len(script') /\ Accepted(script'[done'[r] + 1])
      <4>1. done'[r] = done[r] /\ done[r] \in Nat
        BY <1>0, <2>1 DEF CallsTyped
      <4> QED BY <2>1, <2>2, <4>1
    <3>3. Len(script') \in Nat
      BY <2>2
    <3> QED BY <2>1, <2>2, <3>1, <3>2, <3>3, InsideStep
  <2> QED BY <2>3, <2>4, <2>5, <2>6 DEF TypeOK
<1>5. ASSUME NEW r \in Ranks(prob), Leave(r) PROVE TypeOK'
  <2> DEFINE call  == script[done[r] + 1]
             peers == Group(prob, call.way, r)
  <2>1. /\ inside[r]
        /\ inside' = [inside EXCEPT ![r] = FALSE]
        /\ done' = [done EXCEPT ![r] = @ + 1]
        /\ at' = [at EXCEPT ![r] = [dir |-> call.way[2], buf |-> call.out]]
        /\ UNCHANGED <<prob, inPlace, plan, start, script>>
    BY <1>5 DEF Leave
  <2>8. /\ buf' = [buf EXCEPT ![r] =
                     [b \in Buffers |-> [addr \in DOMAIN @[b] |->
                        CASE b = call.out -> Received(r, call.way, addr)
                          [] b = call.in /\ b # call.out -> Junk
                          [] OTHER -> @[b][addr]]]]
        /\ net' = [net EXCEPT ![call.way] =
                     [q \in Ranks(prob) |->
                        IF q \in peers THEN [net[call.way][q] EXCEPT ![r] = Tail(@)]
                                        ELSE net[call.way][q]]]
    BY <1>5 DEF Leave
  <2>2. done[r] < Len(script) /\ Accepted(call)
    BY <1>0, <2>1 DEF InsideByCall
  <2>3. call \in Call
    BY <1>0, <2>2 DEF CallsTyped
  <2> HIDE DEF call, peers
  <2>4. CallsTyped'
    <3>1. call.way[2] \in Directions /\ call.out \in Buffers
      BY <2>2, <2>3, CallTarget
    <3> QED BY <1>0, <2>1, <2>2, <3>1 DEF CallsTyped
  <2>5. BuffersTyped'
    <3>1. ASSUME NEW q \in Ranks(prob), NEW b \in Buffers
          PROVE  DOMAIN buf'[q] = Buffers /\ DOMAIN buf'[q][b] = Memory(q)
      <4>1. CASE q # r
        BY <1>0, <2>8, <4>1 DEF BuffersTyped
      <4>2. CASE q = r
        BY <1>0, <2>8, <4>2 DEF BuffersTyped
      <4> QED BY <4>1, <4>2
    <3>2. DOMAIN buf' = Ranks(prob)
      BY <1>0, <2>8 DEF BuffersTyped
    <3>3. \A q \in Ranks(prob) : DOMAIN buf'[q] = Buffers
      BY <3>1, BuffersAssumption
    <3> QED BY <2>1, <3>1, <3>2, <3>3 DEF BuffersTyped, Memory
  <2>6. NetTyped'
    BY <1>0, <2>1, <2>8, <2>3 DEF NetTyped, Call
  <2>7. InsideByCall'
    <3>1. \A q \in Ranks(prob) \ {r} : inside'[q] = inside[q] /\ done'[q] = done[q]
      BY <1>0, <2>1 DEF CallsTyped
    <3>2. ~inside'[r]
      BY <1>0, <2>1 DEF CallsTyped
    <3>3. /\ Len(script') \in Nat /\ Len(script) <= Len(script')
          /\ \A k \in 1 .. Len(script) : script'[k] = script[k]
      BY <1>0, <2>1 DEF CallsTyped
    <3> QED BY <2>1, <3>1, <3>2, <3>3, InsideStep
  <2> QED BY <2>4, <2>5, <2>6, <2>7 DEF TypeOK
<1> QED BY <1>1, <1>2, <1>3, <1>4, <1>5 DEF Next

\* In every execution, on every problem and number of ranks, the variables of
\* Underling keep to their domains.
THEOREM TypeCorrect == Spec => []TypeOK
<1> QED BY InitTypeOK, NextTypeOK, PTL DEF Spec

\* A caller that allocates what underling_local_memory says never has a pencil
\* larger than its buffer, in any direction the data may get to.
THEOREM MemorySuffices == Spec => []MemoryHoldsPencils
<1>1. TypeOK => MemoryHoldsPencils
  <2> SUFFICES ASSUME TypeOK PROVE MemoryHoldsPencils
    OBVIOUS
  <2>1. prob \in WellFormed
    BY ProblemsAssumption DEF TypeOK, CallsTyped
  <2>2. \A r \in Ranks(prob) : \A i \in Directions :
          Extent(prob, r, i) <= LocalMemory(prob, r)
    BY <2>1, PencilFits
  <2> QED BY <2>2 DEF MemoryHoldsPencils
<1> QED BY <1>1, TypeCorrect, PTL

\* Extents share out the field: on any problem, grid and direction every element
\* is in the pencil of exactly one rank.
THEOREM FieldShared == Spec => []FieldIsShared
<1>1. TypeOK => FieldIsShared
  <2> SUFFICES ASSUME TypeOK, NEW i \in Directions, NEW x \in Elements(prob)
               PROVE  \E r \in Ranks(prob) :
                        /\ Holds(prob, r, i, x)
                        /\ \A q \in Ranks(prob) : Holds(prob, q, i, x) => q = r
    BY DEF FieldIsShared
  <2>1. prob \in WellFormed
    BY ProblemsAssumption DEF TypeOK, CallsTyped
  <2> QED BY <2>1, PencilsTile
<1> QED BY <1>1, TypeCorrect, PTL

---------------------------------------------------------------------------
(* MPI never has two messages from one rank to another on a communicator.  *)
(* Between two transposes of one way a program has to make the inverse     *)
(* one, over the same ranks.  A rank returns from that only after all its  *)
(* peers have entered it, and they have then taken what was sent before.   *)

\* The number of the call that rank r has last entered.
Pos(r) == IF inside[r] THEN done[r] + 1 ELSE done[r]

\* The k-th call is an accepted one of the given way.
Goes(w, k) == Accepted(script[k]) /\ script[k].way = w

\* The direction of the data after n calls.
At(n) == IF n = 0 THEN start
         ELSE IF Accepted(script[n]) THEN script[n].way[2] ELSE script[n].way[1]

\* Where data gets without going back the way w that it came.
FarSide(w, d) == IF w[2] = 1 THEN d # w[1] ELSE d = w[2]

---------------------------------------------------------------------------
(* The inductive invariant.                                                *)

\* A plan knows whether there is anything to do.
PlansMade ==
  \A w \in Ways : \A r \in Ranks(prob) :
    plan[w][r].trivial <=> Trivial(TransposeOf(prob, r, w))

\* Each call starts from the direction the last one led to.
Chain == \A k \in 1 .. Len(script) : script[k].way[1] = At(k - 1)

Far ==
  \A n \in 0 .. Len(script) : \A w \in Ways : \A k \in 1 .. n :
    Goes(w, k) /\ (\A l \in k + 1 .. n : ~Goes(Back(w), l)) => FarSide(w, At(n))

Here == \A r \in Ranks(prob) : at[r].dir = At(done[r])

\* Who has returned from a transpose has heard from all its peers.
Heard ==
  \A w \in Ways : \A r \in Ranks(prob) : \A k \in 1 .. done[r] :
    Goes(w, k) /\ ~plan[w][r].trivial => \A q \in Group(prob, w, r) : Pos(q) >= k

\* What r has sent and q has not taken is under way.
Pending(w, r, q) == {k \in done[q] + 1 .. Pos(r) : Goes(w, k)}

UnderWay ==
  \A w \in Ways : \A r, q \in Ranks(prob) :
    IF q \in Group(prob, w, r) /\ ~plan[w][r].trivial /\ Pending(w, r, q) # {}
    THEN \E x : net[w][r][q] = <<x>>
    ELSE net[w][r][q] = <<>>

\* What makes it one message: there are never two.
Single ==
  \A w \in Ways : \A r \in Ranks(prob) : \A q \in Group(prob, w, r) :
    ~plan[w][r].trivial => \A k, l \in Pending(w, r, q) : k = l

MInv == TypeOK /\ PlansMade /\ Chain /\ Far /\ Here /\ Heard /\ UnderWay

---------------------------------------------------------------------------
(* Ways.                                                                   *)

\* The way back, and the side of a way that each of its directions is on.
LEMMA WayFacts ==
  ASSUME NEW w \in Ways
  PROVE  /\ Back(w) \in Ways /\ Back(w) # w /\ Back(Back(w)) = w
         /\ w[1] \in {0, 1, 2} /\ w[2] \in {0, 1, 2} /\ w[1] # w[2]
         /\ ~FarSide(w, w[1]) /\ FarSide(w, w[2])
BY DEF Ways, Back, FarSide

\* Going any other way than back stays on the far side.
LEMMA FarStays ==
  ASSUME NEW w \in Ways, NEW v \in Ways, v # Back(w), FarSide(w, v[1])
  PROVE  FarSide(w, v[2])
BY DEF Ways, Back, FarSide

---------------------------------------------------------------------------
(* What the invariant says of one rank and one message.                    *)

\* A rank has done or is doing a call of the script, and is never past its end.
LEMMA Places ==
  ASSUME TypeOK, NEW r \in Ranks(prob)
  PROVE  /\ done[r] \in Nat /\ done[r] <= Len(script) /\ Len(script) \in Nat
         /\ Pos(r) \in Nat /\ done[r] <= Pos(r) /\ Pos(r) <= done[r] + 1
         /\ Pos(r) <= Len(script)
<1>1. /\ done[r] \in 0 .. Len(script) /\ script \in Seq(Call) /\ inside[r] \in BOOLEAN
      /\ inside[r] => done[r] < Len(script)
  BY DEF TypeOK, CallsTyped, InsideByCall
<1> QED BY <1>1 DEF Pos

\* Between two calls of one way there is one that goes back.
LEMMA BackBetween ==
  ASSUME Len(script) \in Nat, Chain, Far, NEW w \in Ways,
         NEW k1 \in 1 .. Len(script), NEW k2 \in 1 .. Len(script), k1 < k2,
         Goes(w, k1), Goes(w, k2)
  PROVE  \E k \in k1 + 1 .. k2 - 1 : Goes(Back(w), k)
<1> SUFFICES ASSUME \A k \in k1 + 1 .. k2 - 1 : ~Goes(Back(w), k) PROVE FALSE
  OBVIOUS
<1>1. k2 - 1 \in 0 .. Len(script) /\ k1 \in 1 .. k2 - 1
  OBVIOUS
<1>2. FarSide(w, At(k2 - 1))
  BY <1>1 DEF Far
<1>3. At(k2 - 1) = w[1]
  BY DEF Chain, Goes
<1> QED BY <1>2, <1>3, WayFacts

\* There is never more than one message that q has not taken.
LEMMA AtMostOnePending ==
  ASSUME TypeOK, PlansMade, Chain, Far, Heard,
         NEW w \in Ways, NEW r \in Ranks(prob), NEW q \in Group(prob, w, r),
         ~plan[w][r].trivial,
         NEW k1 \in Pending(w, r, q), NEW k2 \in Pending(w, r, q)
  PROVE  k1 = k2
<1>1. ASSUME NEW l1 \in Pending(w, r, q), NEW l2 \in Pending(w, r, q), l1 < l2
      PROVE  FALSE
  <2>1. q \in Ranks(prob)
    BY DEF Group
  <2>2. /\ l1 \in 1 .. Len(script) /\ l2 \in 1 .. Len(script)
        /\ Goes(w, l1) /\ Goes(w, l2) /\ l1 > done[q] /\ l2 <= Pos(r)
    BY <2>1, Places DEF Pending
  <2>3. PICK k \in l1 + 1 .. l2 - 1 : Goes(Back(w), k)
    BY <1>1, <2>1, <2>2, Places, BackBetween
  <2>4. k \in 1 .. done[r]
    BY <2>1, <2>2, <2>3, Places
  <2>5. Back(w) \in Ways /\ Group(prob, Back(w), r) = Group(prob, w, r)
    BY <2>1, WayFacts, GroupFacts
  <2>6. ~plan[Back(w)][r].trivial
    BY <2>5, TrivialTogether DEF PlansMade
  <2>7. Pos(q) >= k
    BY <2>3, <2>4, <2>5, <2>6 DEF Heard
  <2> QED BY <2>1, <2>2, <2>3, <2>7, Places
<1>2. k1 \in Int /\ k2 \in Int
  BY DEF Pending
<1> QED BY <1>1, <1>2

\* Between two messages the same way the sender went back, and so has heard from
\* the receiver that the first has come.
LEMMA SinglePending == TypeOK /\ PlansMade /\ Chain /\ Far /\ Heard => Single
BY AtMostOnePending DEF Single

\* The same of the state after a step.
LEMMA SinglePendingNext == (TypeOK /\ PlansMade /\ Chain /\ Far /\ Heard => Single)'
BY SinglePending, PTL

---------------------------------------------------------------------------
(* What a step does to the script and to the places of the ranks.          *)

\* The script grows by calls that start where the last one led to.
LEMMA ScriptGrows ==
  ASSUME TypeOK, Chain, Far, Here, NEW r \in Ranks(prob), NEW call \in Calls(r),
         Makes(r, call), inPlace' = inPlace, start' = start
  PROVE  /\ Chain' /\ Far'
         /\ call.way[1] = At(done[r])
         /\ script'[done[r] + 1] = call
         /\ Len(script') \in Nat /\ Len(script) <= Len(script')
         /\ done[r] + 1 \in 1 .. Len(script')
         /\ \A n \in 0 .. Len(script) : At(n)' = At(n)
         /\ \A w \in Ways : \A k \in 1 .. Len(script) : Goes(w, k)' <=> Goes(w, k)
<1>0. CallsTyped /\ script \in Seq(Call) /\ Len(script) \in Nat /\ done[r] \in 0 .. Len(script)
  BY DEF TypeOK, CallsTyped
<1>1. /\ script' \in Seq(Call) /\ Len(script) <= Len(script')
      /\ done[r] + 1 \in 1 .. Len(script') /\ script'[done[r] + 1] = call
      /\ \A k \in 1 .. Len(script) : script'[k] = script[k]
  BY <1>0, MakesExtendsScript
<1>2. \A n \in 0 .. Len(script) : At(n)' = At(n)
  BY <1>0, <1>1 DEF At, Accepted
<1>3. \A w \in Ways : \A k \in 1 .. Len(script) : Goes(w, k)' <=> Goes(w, k)
  BY <1>0, <1>1 DEF Goes, Accepted
<1>4. call \in Call /\ call.way \in Ways
  BY <1>0, CallsAreCalls DEF Call
<1>5. CASE done[r] # Len(script)
  <2>1. script' = script /\ call = script[done[r] + 1]
    BY <1>5 DEF Makes, Calls
  <2>2. Chain'
    BY <2>1, <1>0, <1>2 DEF Chain
  <2>3. Far'
    BY <2>1, <1>0, <1>2, <1>3, WayFacts DEF Far
  <2>4. call.way[1] = At(done[r])
    BY <1>0, <1>5, <2>1 DEF Chain
  <2> QED BY <1>0, <1>1, <1>2, <1>3, <2>2, <2>3, <2>4
<1>6. CASE done[r] = Len(script)
  <2> DEFINE N == Len(script)
  <2>1. script' = Append(script, call) /\ Len(script') = N + 1
    BY <1>0, <1>4, <1>6 DEF Makes
  <2>2. call.way[1] = At(N)
    BY <1>6 DEF Calls, ProgramCalls, Here
  <2>3. script'[N + 1] = call
    BY <1>1, <1>6
  <2>4. Chain'
    <3> SUFFICES ASSUME NEW k \in 1 .. N + 1 PROVE script'[k].way[1] = At(k - 1)'
      BY <2>1 DEF Chain
    <3>1. CASE k = N + 1
      BY <3>1, <2>2, <2>3, <1>0, <1>2
    <3>2. CASE k # N + 1
      <4>1. k \in 1 .. N /\ k - 1 \in 0 .. N
        BY <3>2, <1>0
      <4> QED BY <4>1, <1>1, <1>2 DEF Chain
    <3> QED BY <3>1, <3>2
  <2>5. Far'
    <3> SUFFICES ASSUME NEW n \in 0 .. N + 1, NEW w \in Ways, NEW k \in 1 .. n,
                        Goes(w, k)', \A l \in k + 1 .. n : ~Goes(Back(w), l)'
                 PROVE  FarSide(w, At(n)')
      BY <2>1 DEF Far, FarSide
    <3>1. CASE n # N + 1
      <4>1. n \in 0 .. N /\ k \in 1 .. N /\ \A l \in k + 1 .. n : l \in 1 .. N
        BY <1>0, <3>1
      <4>2. Goes(w, k) /\ \A l \in k + 1 .. n : ~Goes(Back(w), l)
        BY <4>1, <1>3, WayFacts
      <4> QED BY <4>1, <4>2, <1>2 DEF Far
    <3>2. CASE n = N + 1
      <4>1. At(n)' = IF Accepted(call)' THEN call.way[2] ELSE call.way[1]
        BY <1>0, <2>3, <3>2 DEF At
      <4>2. \A v : Goes(v, n)' <=> Accepted(call)' /\ call.way = v
        BY <2>3, <3>2 DEF Goes
      <4>3. CASE k = n
        BY <4>1, <4>2, <4>3, WayFacts
      <4>4. CASE k # n
        <5>1. k \in 1 .. N /\ N \in 0 .. N /\ \A l \in k + 1 .. N : l \in 1 .. N /\ l \in k + 1 .. n
          BY <1>0, <3>2, <4>4
        <5>2. Goes(w, k) /\ \A l \in k + 1 .. N : ~Goes(Back(w), l)
          BY <5>1, <1>3, WayFacts
        <5>3. FarSide(w, At(N))
          BY <5>1, <5>2 DEF Far
        <5>4. ~Goes(Back(w), n)'
          BY <1>0, <3>2, <4>4
        <5>5. Accepted(call)' => call.way # Back(w)
          BY <4>2, <5>4
        <5> QED BY <4>1, <5>3, <5>5, <2>2, <1>4, FarStays
      <4> QED BY <4>3, <4>4
    <3> QED BY <3>1, <3>2
  <2> QED BY <1>0, <1>1, <1>2, <1>3, <1>6, <2>2, <2>4, <2>5
<1> QED BY <1>5, <1>6

\* Where the data of the ranks is follows when one rank returns from its call.
LEMMA HereReturns ==
  ASSUME TypeOK, Here, NEW r \in Ranks(prob), NEW c \in Nat, c = done[r] + 1,
         prob' = prob,
         \A n \in 0 .. Len(script) : At(n)' = At(n),
         done' = [done EXCEPT ![r] = @ + 1],
         NEW d, at' = [at EXCEPT ![r] = d], d.dir = At(c)'
  PROVE  Here'
<1> SUFFICES ASSUME NEW q \in Ranks(prob), NEW n \in Nat, n = done'[q]
             PROVE  at'[q].dir = At(n)'
  <2>1. \A q \in Ranks(prob) : done'[q] \in Nat
    BY DEF TypeOK, CallsTyped
  <2> QED BY <2>1 DEF Here, At
<1>0. /\ done \in [Ranks(prob) -> 0 .. Len(script)] /\ done[q] \in 0 .. Len(script)
      /\ at \in [Ranks(prob) -> [dir : Directions, buf : Buffers]]
  BY DEF TypeOK, CallsTyped
<1>1. CASE q = r
  BY <1>0, <1>1
<1>2. CASE q # r
  <2>1. at'[q] = at[q] /\ done'[q] = done[q]
    BY <1>0, <1>2
  <2> QED BY <1>0, <2>1 DEF Here
<1> QED BY <1>1, <1>2

\* Places move forward only.
LEMMA PlacesGrow ==
  ASSUME TypeOK, NEW r \in Ranks(prob),
         \/ /\ ~inside[r] /\ done' = [done EXCEPT ![r] = @ + 1] /\ inside' = inside
         \/ /\ ~inside[r] /\ done' = done /\ inside' = [inside EXCEPT ![r] = TRUE]
         \/ /\ inside[r] /\ done' = [done EXCEPT ![r] = @ + 1]
            /\ inside' = [inside EXCEPT ![r] = FALSE]
  PROVE  /\ Pos(r)' = done[r] + 1
         /\ \A q \in Ranks(prob) : Pos(q)' >= Pos(q)
         /\ \A q \in Ranks(prob) \ {r} : Pos(q)' = Pos(q) /\ done'[q] = done[q]
<1>1. /\ done \in [Ranks(prob) -> 0 .. Len(script)] /\ Len(script) \in Nat
      /\ inside \in [Ranks(prob) -> BOOLEAN]
  BY DEF TypeOK, CallsTyped
<1>2. \A q \in Ranks(prob) \ {r} : Pos(q)' = Pos(q) /\ done'[q] = done[q]
  BY <1>1 DEF Pos
<1>3. Pos(r)' = done[r] + 1 /\ Pos(r) <= done[r] + 1 /\ \A q \in Ranks(prob) : Pos(q) \in Nat
  BY <1>1 DEF Pos
<1> QED BY <1>2, <1>3

\* The number of calls that a rank has entered is a number after the step, too.
LEMMA PlacesTyped ==
  ASSUME TypeOK', prob' = prob
  PROVE  \A q \in Ranks(prob) : Pos(q)' \in Nat
<1>1. \A q \in Ranks(prob) : done'[q] \in Nat
  BY DEF TypeOK, CallsTyped
<1> QED BY <1>1 DEF Pos

\* What has been heard stays heard, and the call that r returns from is heard
\* when it is a transpose with something to do.
LEMMA HeardReturns ==
  ASSUME TypeOK, Heard, NEW r \in Ranks(prob), NEW c \in Nat, c = done[r] + 1,
         prob' = prob, plan' = plan,
         \A w \in Ways : \A k \in 1 .. Len(script) : Goes(w, k)' <=> Goes(w, k),
         \A q \in Ranks(prob) : Pos(q)' >= Pos(q),
         \A q \in Ranks(prob) : Pos(q)' \in Nat,
         \/ done' = done
         \/ /\ done' = [done EXCEPT ![r] = @ + 1]
            /\ \A w \in Ways : Goes(w, c)' /\ ~plan[w][r].trivial =>
                 \A q \in Group(prob, w, r) : Pos(q)' >= c
  PROVE  Heard'
<1> SUFFICES ASSUME NEW w \in Ways, NEW s \in Ranks(prob), NEW k \in 1 .. done'[s],
                    Goes(w, k)', ~plan[w][s].trivial, NEW q \in Group(prob, w, s)
             PROVE  Pos(q)' >= k
  BY DEF Heard
<1>0. /\ done \in [Ranks(prob) -> 0 .. Len(script)] /\ Len(script) \in Nat
      /\ done[s] \in 0 .. Len(script) /\ q \in Ranks(prob)
  BY DEF TypeOK, CallsTyped, Group
<1>1. CASE k \in 1 .. done[s]
  <2>1. Goes(w, k)
    BY <1>0, <1>1
  <2>2. Pos(q) >= k
    BY <1>1, <2>1 DEF Heard
  <2> QED BY <1>0, <2>2, Places
<1>2. CASE k \notin 1 .. done[s]
  <2>1. s = r /\ k = c /\ done' = [done EXCEPT ![r] = @ + 1]
    BY <1>0, <1>2
  <2> QED BY <1>0, <2>1
<1> QED BY <1>1, <1>2

\* A call that needs no message leaves the messages to be as they should.
LEMMA UnderWayPassed ==
  ASSUME TypeOK, PlansMade, UnderWay, NEW r \in Ranks(prob),
         NEW c \in Nat, c = done[r] + 1, prob' = prob, plan' = plan, net' = net,
         ~inside[r], inside' = inside, done' = [done EXCEPT ![r] = @ + 1],
         \A w \in Ways : \A k \in 1 .. Len(script) : Goes(w, k)' <=> Goes(w, k),
         \A w \in Ways : Goes(w, c)' => plan[w][r].trivial
  PROVE  UnderWay'
<1> SUFFICES ASSUME NEW w \in Ways, NEW s \in Ranks(prob), NEW q \in Ranks(prob),
                    q \in Group(prob, w, s), ~plan[w][s].trivial
             PROVE  Pending(w, s, q)' = Pending(w, s, q)
  BY DEF UnderWay
<1>1. \A x \in Ranks(prob) :
        /\ done[x] \in Nat /\ Pos(x) \in Nat /\ Pos(x) <= Len(script)
        /\ Pos(r) = done[r] /\ Pos(r)' = done[r] + 1 /\ done'[r] = done[r] + 1
        /\ (x # r => Pos(x)' = Pos(x) /\ done'[x] = done[x])
  <2>1. done \in [Ranks(prob) -> 0 .. Len(script)]
    BY DEF TypeOK, CallsTyped
  <2> QED BY <2>1, Places, PlacesGrow DEF Pos
<1>2. CASE r \in {s, q}
  <2>1. plan[w][r].trivial <=> plan[w][s].trivial
    BY <1>2, TrivialTogether DEF PlansMade
  <2>2. ~Goes(w, c)'
    BY <2>1
  <2>3. \A k \in Int : k \in Pending(w, s, q)' <=> k \in Pending(w, s, q)
    <3> SUFFICES ASSUME NEW k \in Int, k # c
                 PROVE  k \in Pending(w, s, q)' <=> k \in Pending(w, s, q)
      <4>1. CASE c <= Len(script)
        <5>1. ~Goes(w, c)
          BY <1>1, <2>2, <4>1
        <5> QED BY <2>2, <5>1 DEF Pending
      <4>2. CASE ~(c <= Len(script))
        <5>1. c \notin Pending(w, s, q)
          BY <1>1, <4>2, Places DEF Pending
        <5> QED BY <2>2, <5>1 DEF Pending
      <4> QED BY <4>1, <4>2
    <3>1. k \in done'[q] + 1 .. Pos(s)' <=> k \in done[q] + 1 .. Pos(s)
      BY <1>1
    <3>2. k \in done[q] + 1 .. Pos(s) => k \in 1 .. Len(script)
      BY <1>1, Places
    <3> QED BY <3>1, <3>2 DEF Pending
  <2> QED BY <2>3 DEF Pending
<1>3. CASE r \notin {s, q}
  <2>1. Pos(s)' = Pos(s) /\ done'[q] = done[q]
    BY <1>1, <1>3
  <2>2. \A k \in done[q] + 1 .. Pos(s) : k \in 1 .. Len(script)
    BY <1>1, Places
  <2> QED BY <2>1, <2>2 DEF Pending
<1> QED BY <1>2, <1>3

---------------------------------------------------------------------------
(* The invariant is inductive.                                             *)

\* Plans know it as long as they and the problem are left alone.
LEMMA PlansMadeStays ==
  ASSUME PlansMade, prob' = prob, plan' = plan
  PROVE  PlansMade'
BY DEF PlansMade

\* The invariant holds before the first call.
LEMMA MInit == Init => MInv
<1> SUFFICES ASSUME Init PROVE MInv
  OBVIOUS
<1>1. TypeOK
  BY InitTypeOK
<1>2. PlansMade
  BY DEF Init, PlansMade, TransposePlan
<1>3. Len(script) = 0
  BY DEF Init
<1>4. Chain /\ Far
  BY <1>3 DEF Chain, Far
<1>5. Here
  BY DEF Init, Here, At
<1>6. Heard
  BY DEF Init, Heard
<1>7. \A w \in Ways : \A r, q \in Ranks(prob) :
        Pending(w, r, q) = {} /\ net[w][r][q] = <<>>
  BY DEF Init, Pending, Pos
<1>8. UnderWay
  BY <1>7 DEF UnderWay
<1> QED BY <1>1, <1>2, <1>4, <1>5, <1>6, <1>8 DEF MInv

\* Calls that are refused or have nothing to do.
LEMMA MPasses ==
  ASSUME MInv, TypeOK', NEW r \in Ranks(prob), Refuse(r) \/ ExecuteNothing(r)
  PROVE  MInv'
<1>0. /\ TypeOK /\ PlansMade /\ Chain /\ Far /\ Here /\ Heard /\ UnderWay
      /\ at \in [Ranks(prob) -> [dir : Directions, buf : Buffers]]
  BY DEF MInv, TypeOK, CallsTyped
<1>1. PICK call \in Calls(r) :
        /\ Makes(r, call)
        /\ done' = [done EXCEPT ![r] = @ + 1]
        /\ UNCHANGED <<prob, inPlace, plan, start, inside, net>>
        /\ \/ ~Accepted(call) /\ at' = at
           \/ /\ Accepted(call) /\ plan[call.way][r].trivial
              /\ at' = [at EXCEPT ![r] = [dir |-> call.way[2], buf |-> call.out]]
  BY DEF Refuse, ExecuteNothing
<1>2. ~inside[r]
  BY <1>1 DEF Makes
<1>3. PICK c \in Nat : c = done[r] + 1
  BY <1>0, Places
<1>4. /\ Chain' /\ Far' /\ call.way[1] = At(done[r])
      /\ script'[c] = call /\ c \in 1 .. Len(script') /\ Len(script') \in Nat
      /\ \A n \in 0 .. Len(script) : At(n)' = At(n)
      /\ \A w \in Ways : \A k \in 1 .. Len(script) : Goes(w, k)' <=> Goes(w, k)
  BY <1>0, <1>1, <1>3, ScriptGrows
<1>5. Accepted(call)' <=> Accepted(call)
  BY <1>1 DEF Accepted
<1>6. PlansMade'
  BY <1>0, <1>1, PlansMadeStays
<1>7. Here'
  <2> DEFINE d == IF Accepted(call) THEN [dir |-> call.way[2], buf |-> call.out] ELSE at[r]
  <2>1. at' = [at EXCEPT ![r] = d]
    BY <1>0, <1>1
  <2>2. At(c)' = IF Accepted(call) THEN call.way[2] ELSE call.way[1]
    BY <1>3, <1>4, <1>5 DEF At
  <2>3. d.dir = At(c)'
    BY <1>0, <1>4, <2>2 DEF Here
  <2> HIDE DEF d
  <2> QED BY <1>0, <1>1, <1>3, <1>4, <2>1, <2>3, HereReturns
<1>8. \A w \in Ways : Goes(w, c)' => plan[w][r].trivial
  BY <1>1, <1>4, <1>5 DEF Goes
<1>9. Heard'
  <2>1. \A q \in Ranks(prob) : Pos(q)' >= Pos(q)
    BY <1>0, <1>1, <1>2, PlacesGrow
  <2>2. \A q \in Ranks(prob) : Pos(q)' \in Nat
    BY <1>1, PlacesTyped
  <2> QED BY <1>0, <1>1, <1>3, <1>4, <1>8, <2>1, <2>2, HeardReturns
<1>10. UnderWay'
  BY <1>0, <1>1, <1>2, <1>3, <1>4, <1>8, UnderWayPassed
<1> QED BY <1>4, <1>6, <1>7, <1>9, <1>10 DEF MInv

\* Entering a transpose: whoever is to take the message has not gone past it,
\* so that it is the only one.
LEMMA MEnters ==
  ASSUME MInv, TypeOK', NEW r \in Ranks(prob), Enter(r)
  PROVE  MInv'
<1>0. /\ TypeOK /\ PlansMade /\ Chain /\ Far /\ Here /\ Heard /\ UnderWay /\ NetTyped
      /\ done \in [Ranks(prob) -> 0 .. Len(script)]
  BY DEF MInv, TypeOK, CallsTyped
<1>1. PICK call \in Calls(r) :
        /\ Makes(r, call)
        /\ Accepted(call)
        /\ ~plan[call.way][r].trivial
        /\ inside' = [inside EXCEPT ![r] = TRUE]
        /\ net' = [net EXCEPT ![call.way][r] =
                     [q \in Ranks(prob) |->
                        IF q \in Group(prob, call.way, r)
                        THEN Append(@[q], Message(r, q, call.way, call.in))
                        ELSE @[q]]]
        /\ UNCHANGED <<prob, inPlace, plan, start, done, at, buf>>
  BY DEF Enter
<1> DEFINE v == call.way
<1>2. ~inside[r]
  BY <1>1 DEF Makes
<1>3. PICK c \in Nat : c = done[r] + 1
  BY <1>0, Places
<1>4. /\ Chain' /\ Far' /\ script'[c] = call /\ c \in 1 .. Len(script')
      /\ \A n \in 0 .. Len(script) : At(n)' = At(n)
      /\ \A w \in Ways : \A k \in 1 .. Len(script) : Goes(w, k)' <=> Goes(w, k)
  BY <1>0, <1>1, <1>3, ScriptGrows
<1>5. \A w : Goes(w, c)' <=> w = v
  BY <1>1, <1>4 DEF Goes, Accepted
<1>6. PlansMade'
  BY <1>0, <1>1, PlansMadeStays
<1>7. Here'
  BY <1>0, <1>1, <1>4 DEF Here
<1>8. /\ Pos(r)' = c /\ Pos(r) = done[r]
      /\ \A q \in Ranks(prob) : Pos(q)' >= Pos(q) /\ Pos(q)' \in Nat
      /\ \A q \in Ranks(prob) \ {r} : Pos(q)' = Pos(q)
  <2>1. Pos(r) = done[r]
    BY <1>2 DEF Pos
  <2> QED BY <1>0, <1>1, <1>2, <1>3, <2>1, PlacesGrow, PlacesTyped
<1>9. Heard'
  BY <1>0, <1>1, <1>3, <1>4, <1>8, HeardReturns
<1>10. v \in Ways /\ call \in Call
  BY <1>0, <1>1, CallsAreCalls, CallTarget DEF TypeOK
<1>11. ASSUME NEW w \in Ways, NEW s \in Ranks(prob), NEW q \in Ranks(prob), w # v \/ s # r
       PROVE  Pending(w, s, q)' = Pending(w, s, q) /\ net'[w][s][q] = net[w][s][q]
  <2>1. net'[w][s][q] = net[w][s][q]
    BY <1>0, <1>1, <1>10, <1>11 DEF NetTyped
  <2>2. \A k \in done[q] + 1 .. Pos(s) : k \in 1 .. Len(script)
    BY <1>0, Places
  <2>3. CASE s # r
    <3>1. Pos(s)' = Pos(s) /\ done'[q] = done[q]
      BY <1>1, <1>8, <2>3
    <3> QED BY <1>4, <2>1, <2>2, <3>1 DEF Pending
  <2>4. CASE s = r
    <3>1. ~Goes(w, c)'
      BY <1>5, <1>11, <2>4
    <3>2. Pos(s)' = Pos(s) + 1 /\ Pos(s)' = c /\ done'[q] = done[q] /\ Pos(s) \in Nat /\ done[q] \in Nat
      BY <1>0, <1>1, <1>3, <1>8, <2>4, Places
    <3> QED BY <1>4, <2>1, <2>2, <3>1, <3>2 DEF Pending
  <2> QED BY <2>3, <2>4
<1>12. ASSUME NEW q \in Ranks(prob)
       PROVE  IF q \in Group(prob, v, r)
              THEN Pending(v, r, q)' # {} /\ \E x : net'[v][r][q] = <<x>>
              ELSE net'[v][r][q] = <<>>
  <2>0. net'[v][r][q] = IF q \in Group(prob, v, r)
                        THEN Append(net[v][r][q], Message(r, q, v, call.in))
                        ELSE net[v][r][q]
    BY <1>0, <1>1, <1>10 DEF NetTyped
  <2>1. CASE q \notin Group(prob, v, r)
    <3>1. net[v][r][q] = <<>>
      BY <1>0, <1>10, <2>1 DEF UnderWay
    <3> QED BY <2>0, <2>1, <3>1
  <2>2. CASE q \in Group(prob, v, r)
    <3>1. done[q] <= done[r]
      <4> SUFFICES ASSUME done[q] >= c PROVE FALSE
        BY <1>0, <1>3, Places
      <4>1. c \in 1 .. done[q] /\ c \in 1 .. Len(script)
        BY <1>0, <1>3, Places
      <4>2. Goes(v, c)
        BY <1>4, <1>5, <1>10, <4>1
      <4>3. ~plan[v][q].trivial /\ r \in Group(prob, v, q)
        BY <1>0, <1>1, <1>10, <2>2, TrivialTogether, GroupFacts DEF PlansMade
      <4>4. Pos(r) >= c
        BY <1>0, <1>10, <4>1, <4>2, <4>3 DEF Heard
      <4> QED BY <1>0, <1>3, <1>8, <4>4, Places
    <3>2. c \in Pending(v, r, q)'
      BY <1>0, <1>1, <1>3, <1>5, <1>8, <3>1, Places DEF Pending
    <3>3. Pending(v, r, q) = {}
      <4> SUFFICES ASSUME NEW k \in Pending(v, r, q) PROVE FALSE
        OBVIOUS
      <4>1. k \in 1 .. Len(script) /\ k \in done[q] + 1 .. Pos(r) /\ Goes(v, k)
        BY <1>0, Places DEF Pending
      <4>2. Goes(v, k)'
        BY <1>4, <1>10, <4>1
      <4>3. k \in Pending(v, r, q)' /\ k # c
        BY <1>0, <1>1, <1>3, <1>8, <4>1, <4>2, Places DEF Pending
      <4>4. k = c
        <5>1. Single'
          BY <1>4, <1>6, <1>9, SinglePendingNext
        <5> HIDE DEF v
        <5> QED BY <1>1, <1>10, <2>2, <3>2, <4>3, <5>1 DEF v, Single
      <4> QED BY <4>3, <4>4
    <3>4. net[v][r][q] = <<>>
      BY <1>0, <1>10, <3>3 DEF UnderWay
    <3>5. net'[v][r][q] = <<Message(r, q, v, call.in)>>
      BY <2>0, <2>2, <3>4
    <3> QED BY <2>2, <3>2, <3>5
  <2> QED BY <2>1, <2>2
<1>13. UnderWay'
  <2> SUFFICES ASSUME NEW w \in Ways, NEW s \in Ranks(prob), NEW q \in Ranks(prob)
               PROVE  IF q \in Group(prob, w, s) /\ ~plan[w][s].trivial /\ Pending(w, s, q)' # {}
                      THEN \E x : net'[w][s][q] = <<x>>
                      ELSE net'[w][s][q] = <<>>
    BY <1>1 DEF UnderWay
  <2>1. CASE w # v \/ s # r
    BY <1>0, <1>11, <2>1 DEF UnderWay
  <2>2. CASE w = v /\ s = r
    BY <1>1, <1>12, <2>2
  <2> QED BY <2>1, <2>2
<1> QED BY <1>4, <1>6, <1>7, <1>9, <1>13 DEF MInv

\* A queue of one message.
LEMMA OneMessage == \A x : Len(<<x>>) = 1 /\ Len(<<>>) = 0 /\ Tail(<<x>>) = <<>>
OBVIOUS

\* Returning from a transpose: each peer has sent the one message, which r takes.
LEMMA MLeaves ==
  ASSUME MInv, TypeOK', NEW r \in Ranks(prob), Leave(r)
  PROVE  MInv'
<1>0. /\ TypeOK /\ PlansMade /\ Chain /\ Far /\ Here /\ Heard /\ UnderWay
      /\ NetTyped /\ InsideByCall
      /\ done \in [Ranks(prob) -> 0 .. Len(script)]
      /\ script \in Seq(Call) /\ Len(script) \in Nat
  BY DEF MInv, TypeOK, CallsTyped
<1>1. PICK call : call = script[done[r] + 1]
  OBVIOUS
<1> DEFINE v == call.way
           peers == Group(prob, v, r)
<1>2. /\ inside[r]
      /\ \A q \in peers : net[v][q][r] # <<>>
      /\ inside' = [inside EXCEPT ![r] = FALSE]
      /\ done' = [done EXCEPT ![r] = @ + 1]
      /\ at' = [at EXCEPT ![r] = [dir |-> v[2], buf |-> call.out]]
      /\ net' = [net EXCEPT ![v] =
                   [q \in Ranks(prob) |->
                      IF q \in peers THEN [net[v][q] EXCEPT ![r] = Tail(@)] ELSE net[v][q]]]
      /\ UNCHANGED <<prob, inPlace, plan, start, script>>
  BY <1>1 DEF Leave
<1>3. PICK c \in Nat : c = done[r] + 1
  BY <1>0, Places
<1>4. c \in 1 .. Len(script) /\ call = script[c] /\ call \in Call /\ Accepted(call)
  <2>1. done[r] < Len(script) /\ Accepted(script[done[r] + 1])
    BY <1>0, <1>2 DEF InsideByCall
  <2>2. c \in 1 .. Len(script) /\ call = script[c]
    BY <1>0, <1>1, <1>3, <2>1
  <2> QED BY <1>0, <1>1, <2>1, <2>2
<1>5. v \in Ways /\ Goes(v, c)
  BY <1>4, CallTarget DEF Goes
<1>6. /\ \A w, k : Goes(w, k)' <=> Goes(w, k)
      /\ \A n : At(n)' = At(n)
  BY <1>2 DEF Goes, At, Accepted
<1>7. PlansMade' /\ Chain' /\ Far'
  <2>1. PlansMade' /\ Chain'
    BY <1>0, <1>2, <1>6, PlansMadeStays DEF Chain
  <2>2. Far'
    BY <1>0, <1>2, <1>6 DEF Far
  <2> QED BY <2>1, <2>2
<1>8. Here'
  <2> DEFINE d == [dir |-> v[2], buf |-> call.out]
  <2>1. At(c) = v[2]
    BY <1>3, <1>4 DEF At
  <2>2. d.dir = At(c)'
    BY <1>6, <2>1
  <2>3. at' = [at EXCEPT ![r] = d]
    BY <1>2
  <2> HIDE DEF d
  <2> QED BY <1>0, <1>2, <1>3, <1>6, <2>2, <2>3, HereReturns
<1>9. /\ Pos(r)' = c /\ Pos(r) = c /\ done'[r] = c
      /\ \A q \in Ranks(prob) : Pos(q)' >= Pos(q) /\ Pos(q)' \in Nat
      /\ \A q \in Ranks(prob) : Pos(q)' = Pos(q)
      /\ \A q \in Ranks(prob) \ {r} : done'[q] = done[q]
  <2>1. Pos(r) = c
    BY <1>2, <1>3 DEF Pos
  <2>2. done'[r] = c
    BY <1>0, <1>2, <1>3
  <2> QED BY <1>0, <1>2, <1>3, <2>1, <2>2, PlacesGrow, PlacesTyped
<1>10. Single
  BY <1>0, SinglePending
<1>11. ASSUME NEW q \in peers, ~plan[v][r].trivial
       PROVE  /\ c \in Pending(v, q, r) /\ Pos(q) >= c /\ q \in Ranks(prob)
              /\ \E x : net[v][q][r] = <<x>>
              /\ Pending(v, q, r)' = {}
  <2>1. q \in Ranks(prob) /\ r \in Group(prob, v, q) /\ ~plan[v][q].trivial
    <3>1. q \in Ranks(prob)
      BY DEF Group
    <3> QED BY <1>0, <1>5, <1>11, <3>1, GroupFacts, TrivialTogether DEF PlansMade
  <2>2. Pending(v, q, r) # {} /\ \E x : net[v][q][r] = <<x>>
    BY <1>0, <1>2, <1>5, <2>1 DEF UnderWay
  <2>3. PICK k \in Pending(v, q, r) : TRUE
    BY <2>2
  <2>4. k \in done[r] + 1 .. Pos(q)
    BY DEF Pending
  <2>5. Pos(q) >= c
    BY <1>0, <1>3, <2>1, <2>4, Places
  <2>6. c \in Pending(v, q, r)
    BY <1>3, <1>5, <2>1, <2>5, <1>0, Places DEF Pending
  <2>7. \A l \in Pending(v, q, r) : l = c
    BY <1>5, <1>10, <2>1, <2>6 DEF Single
  <2>8. Pending(v, q, r)' = {}
    <3> SUFFICES ASSUME NEW l \in Pending(v, q, r)' PROVE FALSE
      OBVIOUS
    <3>1. l \in c + 1 .. Pos(q) /\ Goes(v, l)
      BY <1>2, <1>6, <1>9, <2>1 DEF Pending
    <3>2. l \in Pending(v, q, r) /\ l # c
      BY <1>0, <1>3, <2>1, <3>1, Places DEF Pending
    <3> QED BY <2>7, <3>2
  <2> QED BY <2>1, <2>2, <2>5, <2>6, <2>8
<1>12. Heard'
  <2>1. \A w \in Ways : Goes(w, c)' /\ ~plan[w][r].trivial =>
          \A q \in Group(prob, w, r) : Pos(q)' >= c
    <3> SUFFICES ASSUME NEW w \in Ways, Goes(w, c)', ~plan[w][r].trivial,
                        NEW q \in Group(prob, w, r)
                 PROVE  Pos(q)' >= c
      OBVIOUS
    <3>1. w = v
      BY <1>4, <1>6 DEF Goes
    <3>2. q \in peers /\ ~plan[v][r].trivial
      BY <3>1
    <3>3. Pos(q) >= c /\ q \in Ranks(prob)
      BY <3>2, <1>11
    <3> QED BY <1>9, <3>3
  <2> QED BY <1>0, <1>2, <1>3, <1>6, <1>9, <2>1, HeardReturns
<1>13. ~plan[v][r].trivial
  <2>1. r \in peers
    BY <1>5, GroupFacts
  <2>2. net[v][r][r] # <<>>
    BY <1>2, <2>1
  <2> QED BY <1>0, <1>5, <2>2 DEF UnderWay
<1>taken. net'[v] = [q \in Ranks(prob) |->
                      IF q \in peers THEN [net[v][q] EXCEPT ![r] = Tail(@)] ELSE net[v][q]]
  <2> DEFINE f == [q \in Ranks(prob) |->
                     IF q \in peers THEN [net[v][q] EXCEPT ![r] = Tail(@)] ELSE net[v][q]]
  <2>1. v \in DOMAIN net
    BY <1>0, <1>5 DEF NetTyped
  <2>2. net' = [net EXCEPT ![v] = f]
    BY <1>2
  <2> HIDE DEF f
  <2>3. net'[v] = f
    BY <2>1, <2>2
  <2> QED BY <2>3 DEF f
<1>14. ASSUME NEW w \in Ways, NEW s \in Ranks(prob), NEW q \in Ranks(prob)
       PROVE  net'[w][s][q] = IF w = v /\ q = r /\ s \in peers THEN Tail(net[w][s][q])
                              ELSE net[w][s][q]
  <2>1. CASE w # v
    BY <1>0, <1>2, <1>5, <2>1 DEF NetTyped
  <2>2. CASE w = v
    <3>1. net'[v][s] = IF s \in peers THEN [net[v][s] EXCEPT ![r] = Tail(@)] ELSE net[v][s]
      BY <1>taken
    <3>2. DOMAIN net[v][s] = Ranks(prob)
      BY <1>0, <1>5 DEF NetTyped
    <3> HIDE DEF v, peers
    <3> QED BY <2>2, <3>1, <3>2
  <2> QED BY <2>1, <2>2
<1>15. ASSUME NEW w \in Ways, NEW s \in Ranks(prob), NEW q \in Ranks(prob),
              ~(w = v /\ q = r)
       PROVE  Pending(w, s, q)' = Pending(w, s, q)
  <2>1. Pos(s)' = Pos(s)
    BY <1>9
  <2>2. CASE q # r
    <3>1. done'[q] = done[q]
      BY <1>9, <2>2
    <3> QED BY <1>6, <2>1, <3>1 DEF Pending
  <2>3. CASE q = r
    <3>1. ~Goes(w, c)
      BY <1>4, <1>15, <2>3 DEF Goes
    <3> QED BY <1>0, <1>3, <1>6, <1>9, <2>1, <2>3, <3>1, Places DEF Pending
  <2> QED BY <2>2, <2>3
<1>16. UnderWay'
  <2> SUFFICES ASSUME NEW w \in Ways, NEW s \in Ranks(prob), NEW q \in Ranks(prob)
               PROVE  IF q \in Group(prob, w, s) /\ ~plan[w][s].trivial /\ Pending(w, s, q)' # {}
                      THEN \E x : net'[w][s][q] = <<x>>
                      ELSE net'[w][s][q] = <<>>
    <3>1. prob' = prob /\ plan' = plan
      BY <1>2
    <3> HIDE DEF v, peers
    <3> QED BY <3>1 DEF UnderWay
  <2>1. CASE ~(w = v /\ q = r)
    <3>1. net'[w][s][q] = net[w][s][q]
      BY <1>14, <2>1
    <3> QED BY <1>0, <1>15, <2>1, <3>1 DEF UnderWay
  <2>2. CASE w = v /\ q = r /\ s \in peers
    <3>1. PICK x : net[v][s][r] = <<x>>
      BY <1>11, <1>13, <2>2
    <3>2. net'[v][s][r] = Tail(net[v][s][r])
      BY <1>14, <2>2
    <3>4. net'[v][s][r] = <<>>
      <4>1. Tail(<<x>>) = <<>>
        OBVIOUS
      <4> QED BY <3>1, <3>2, <4>1
    <3>3. Pending(v, s, r)' = {}
      BY <1>11, <1>13, <2>2
    <3> QED BY <2>2, <3>3, <3>4
  <2>3. CASE w = v /\ q = r /\ s \notin peers
    <3>1. r \notin Group(prob, v, s)
      BY <1>5, <2>3, GroupFacts
    <3>2. net'[v][s][r] = <<>>
      BY <1>0, <1>5, <1>14, <2>3, <3>1 DEF UnderWay
    <3> QED BY <2>3, <3>1, <3>2
  <2> QED BY <2>1, <2>2, <2>3
<1> QED BY <1>7, <1>8, <1>12, <1>16 DEF MInv

\* A step that changes nothing keeps the invariant.
LEMMA MStutters ==
  ASSUME MInv, TypeOK', UNCHANGED vars
  PROVE  MInv'
<1>1. \A r : Pos(r)' = Pos(r)
  BY DEF Pos, vars
<1>2. /\ \A w, k : Goes(w, k)' <=> Goes(w, k)
      /\ \A n : At(n)' = At(n)
      /\ \A w, r, q : Pending(w, r, q)' = Pending(w, r, q)
  BY <1>1 DEF Goes, At, Accepted, Pending, vars
<1> QED BY <1>1, <1>2 DEF MInv, PlansMade, Chain, Far, Here, Heard, UnderWay, vars

\* Every step keeps the invariant: its actions one by one.
LEMMA MNext == MInv /\ [Next]_vars => MInv'
<1> SUFFICES ASSUME MInv, [Next]_vars PROVE MInv'
  OBVIOUS
<1>1. TypeOK'
  BY NextTypeOK DEF MInv
<1>2. CASE UNCHANGED vars
  BY <1>1, <1>2, MStutters
<1>3. ASSUME NEW r \in Ranks(prob), Refuse(r) \/ ExecuteNothing(r) PROVE MInv'
  BY <1>1, <1>3, MPasses
<1>4. ASSUME NEW r \in Ranks(prob), Enter(r) PROVE MInv'
  BY <1>1, <1>4, MEnters
<1>5. ASSUME NEW r \in Ranks(prob), Leave(r) PROVE MInv'
  BY <1>1, <1>5, MLeaves
<1> QED BY <1>2, <1>3, <1>4, <1>5 DEF Next

\* With at most one message under way, MPI has nothing to tell apart by order.
LEMMA OneAhead == MInv => OneMessageAhead
<1> SUFFICES ASSUME MInv, NEW w \in Ways, NEW r \in Ranks(prob), NEW q \in Ranks(prob)
             PROVE  Len(net[w][r][q]) <= 1
  BY DEF OneMessageAhead
<1>1. net[w][r][q] = <<>> \/ \E x : net[w][r][q] = <<x>>
  BY DEF MInv, UnderWay
<1>2. CASE net[w][r][q] = <<>>
  BY <1>2, OneMessage
<1>3. ASSUME NEW x, net[w][r][q] = <<x>> PROVE Len(net[w][r][q]) <= 1
  <2>1. Len(<<x>>) = 1
    OBVIOUS
  <2> QED BY <1>3, <2>1
<1> QED BY <1>1, <1>2, <1>3

\* However far the ranks run apart, whatever calls the program makes and
\* whatever of them is refused, MPI never has two messages of one transpose
\* from one rank to another (underling_execute_long_nX_to_long_nY).
THEOREM MessagesStayApart == Spec => []OneMessageAhead
BY MInit, MNext, OneAhead, PTL DEF Spec

=============================================================================
