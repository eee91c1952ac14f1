--------------------------- MODULE PromiseProofs ---------------------------
(***************************************************************************)
(* The executing ranks keep the promise of PencilTranspose, for every set  *)
(* of problems, every number of ranks and every program: what a rank holds *)
(* depends on the direction alone, nothing is lost on the way, and who     *)
(* goes somewhere and comes back finds what it filled in.                  *)
(***************************************************************************)
EXTENDS UnderlingProofs, FiniteSetTheorems, FunctionTheorems

---------------------------------------------------------------------------
(* The inductive invariant: what messages and buffers contain.             *)

\* A plan has settled where each address is filled from.
PlansPull == \A w \in Ways : \A r \in Ranks(prob) : plan[w][r].from = Pulls(prob, w, r)

\* The data is in buffer b after n calls.
InBuffer(n, b) ==
  \/ b = FirstBuffer /\ \A k \in 1 .. n : ~Accepted(script[k])
  \/ \E k \in 1 .. n : /\ Accepted(script[k]) /\ script[k].out = b
                       /\ \A l \in k + 1 .. n : ~Accepted(script[l])

\* Each accepted call takes the data from where the last one left it.
BufferChain ==
  \A k \in 1 .. Len(script) : Accepted(script[k]) => InBuffer(k - 1, script[k].in)

BufferHere == \A r \in Ranks(prob) : InBuffer(done[r], at[r].buf)

\* A rank holds what its direction says.
DataHeld == \A r \in Ranks(prob) : Data(r) = Held(prob, start, r, at[r].dir)

\* What rank r has to send to q to go the way w: what q pulls from r.
Parcel(w, r, q) ==
  [addr \in {a \in Pencil(prob, q, w[2]) : Pulls(prob, w, q)[a].rank = r} |->
     Held(prob, start, r, w[1])[Pulls(prob, w, q)[addr].addr]]

\* A message under way is what its receiver is to store.
Carried ==
  \A w \in Ways : \A r, q \in Ranks(prob) :
    net[w][r][q] # <<>> => Head(net[w][r][q]) = Parcel(w, r, q)

DInv == MInv /\ PlansPull /\ BufferChain /\ BufferHere /\ DataHeld /\ Carried

---------------------------------------------------------------------------
(* The buffer that holds the data.                                         *)

\* The problem is well formed, and each pencil lies in the memory of its rank.
LEMMA ProblemFits ==
  ASSUME TypeOK
  PROVE  /\ prob \in WellFormed
         /\ \A r \in Ranks(prob) : \A i \in Directions : Pencil(prob, r, i) \subseteq Memory(r)
<1>1. prob \in WellFormed
  BY ProblemsAssumption DEF TypeOK, CallsTyped
<1>2. ASSUME NEW r \in Ranks(prob), NEW i \in Directions
      PROVE  Pencil(prob, r, i) \subseteq Memory(r)
  <2>1. Extent(prob, r, i) <= LocalMemory(prob, r) /\ LocalMemory(prob, r) \in Nat
    BY <1>1, PencilFits, LocalMemoryBounds
  <2>2. Extent(prob, r, i) \in Nat
    <3>1. \A d \in 0..3 : Size(prob, r, i, d) \in Nat
      BY <1>1, SizeType DEF Indices
    <3> QED BY <3>1 DEF Extent
  <2> QED BY <2>1, <2>2 DEF Pencil, Memory
<1> QED BY <1>1, <1>2

\* There is one such buffer.
LEMMA BufferUnique ==
  ASSUME NEW n \in Nat, NEW b, NEW c, InBuffer(n, b), InBuffer(n, c)
  PROVE  b = c
<1>1. ASSUME NEW k \in 1 .. n, NEW l \in 1 .. n, Accepted(script[k]), Accepted(script[l]),
             \A m \in k + 1 .. n : ~Accepted(script[m]),
             \A m \in l + 1 .. n : ~Accepted(script[m])
      PROVE  k = l
  <2>1. ~(l \in k + 1 .. n) /\ ~(k \in l + 1 .. n)
    BY <1>1
  <2> QED BY <2>1
<1> QED BY <1>1 DEF InBuffer

\* An accepted call leaves the data in its output buffer, a refused one where
\* it was.
LEMMA BufferNext ==
  \A n \in Nat : \A b : \A c :
    /\ InBuffer(n, b)
    /\ c = IF Accepted(script[n + 1]) THEN script[n + 1].out ELSE b
    => InBuffer(n + 1, c)
<1> SUFFICES ASSUME NEW n \in Nat, NEW b, NEW c, InBuffer(n, b),
                    c = IF Accepted(script[n + 1]) THEN script[n + 1].out ELSE b
             PROVE  InBuffer(n + 1, c)
  OBVIOUS
<1>1. CASE Accepted(script[n + 1])
  <2>1. n + 1 \in 1 .. n + 1 /\ \A l \in n + 1 + 1 .. n + 1 : FALSE
    OBVIOUS
  <2> QED BY <1>1, <2>1 DEF InBuffer
<1>2. CASE ~Accepted(script[n + 1])
  <2>1. \A l : l \in 1 .. n + 1 <=> l \in 1 .. n \/ l = n + 1
    OBVIOUS
  <2>2. \A k \in 1 .. n : \A l : l \in k + 1 .. n + 1 => l \in k + 1 .. n \/ l = n + 1
    OBVIOUS
  <2> QED BY <1>2, <2>1, <2>2 DEF InBuffer
<1> QED BY <1>1, <1>2

\* The same of the state after a step.
LEMMA BufferNextNext ==
  (\A n \in Nat : \A b : \A c :
     /\ InBuffer(n, b)
     /\ c = IF Accepted(script[n + 1]) THEN script[n + 1].out ELSE b
     => InBuffer(n + 1, c))'
BY BufferNext, PTL

\* A program that grows keeps the buffers of its earlier calls, and the call
\* that rank r makes takes the data from where r has it.
LEMMA BuffersGrow ==
  ASSUME TypeOK, BufferChain, BufferHere, NEW r \in Ranks(prob), NEW call \in Calls(r),
         Makes(r, call), inPlace' = inPlace
  PROVE  /\ BufferChain'
         /\ Accepted(call) => call.in = at[r].buf
         /\ \A n \in 0 .. Len(script) : \A b : InBuffer(n, b)' <=> InBuffer(n, b)
<1>0. /\ script \in Seq(Call) /\ Len(script) \in Nat /\ done[r] \in 0 .. Len(script)
      /\ CallsTyped
  BY DEF TypeOK, CallsTyped
<1>1. /\ script' \in Seq(Call) /\ Len(script) <= Len(script') /\ Len(script') \in Nat
      /\ done[r] + 1 \in 1 .. Len(script') /\ script'[done[r] + 1] = call
      /\ \A k \in 1 .. Len(script) : script'[k] = script[k]
  BY <1>0, MakesExtendsScript
<1>2. ASSUME NEW n \in 0 .. Len(script), NEW b PROVE InBuffer(n, b)' <=> InBuffer(n, b)
  <2>1. \A k \in 1 .. n : script'[k] = script[k] /\ (Accepted(script[k])' <=> Accepted(script[k]))
    BY <1>0, <1>1 DEF Accepted
  <2>2. \A k \in 1 .. n : \A l \in k + 1 .. n : l \in 1 .. n
    BY <1>0
  <2> QED BY <2>1, <2>2 DEF InBuffer
<1>3. Accepted(call) => call.in = at[r].buf
  <2>1. SUFFICES ASSUME Accepted(call) PROVE call.in = at[r].buf
    OBVIOUS
  <2>2. CASE done[r] = Len(script)
    BY <2>1, <2>2 DEF Calls, ProgramCalls, Accepted
  <2>3. CASE done[r] # Len(script)
    <3>1. call = script[done[r] + 1] /\ done[r] + 1 \in 1 .. Len(script)
      BY <1>0, <2>3 DEF Calls
    <3>2. InBuffer(done[r], call.in)
      BY <1>0, <2>1, <3>1 DEF BufferChain
    <3> QED BY <1>0, <3>2, BufferUnique DEF BufferHere
  <2> QED BY <2>2, <2>3
<1>4. ASSUME NEW k \in 1 .. Len(script'), Accepted(script[k])', NEW b, b = script'[k].in
      PROVE  InBuffer(k - 1, b)'
  <2>1. CASE k \in 1 .. Len(script)
    <3>1. Accepted(script[k]) /\ b = script[k].in /\ k - 1 \in 0 .. Len(script)
      BY <1>0, <1>1, <1>4, <2>1 DEF Accepted
    <3> QED BY <1>2, <2>1, <3>1 DEF BufferChain
  <2>2. CASE k \notin 1 .. Len(script)
    <3>1. script' # script
      BY <1>0, <2>2
    <3>2. done[r] = Len(script) /\ script' = Append(script, call)
      BY <3>1 DEF Makes
    <3>3. k = done[r] + 1
      BY <1>0, <1>1, <2>2, <3>2
    <3>4. Accepted(call) /\ b = call.in
      BY <1>1, <1>4, <3>3 DEF Accepted
    <3>5. InBuffer(done[r], b)
      BY <1>3, <3>4 DEF BufferHere
    <3>6. PICK n \in 0 .. Len(script) : n = done[r]
      BY <1>0
    <3>7. InBuffer(n, b)'
      BY <1>2, <3>5, <3>6
    <3>8. k - 1 = n
      BY <3>3, <3>6
    <3> QED BY <3>7, <3>8
  <2> QED BY <2>1, <2>2
<1>5. BufferChain'
  BY <1>4 DEF BufferChain, InBuffer
<1> QED BY <1>2, <1>3, <1>5

\* The buffers of the ranks follow when one of them returns from its call.
LEMMA BufferReturns ==
  ASSUME TypeOK, BufferHere, NEW r \in Ranks(prob), NEW c \in Nat, c = done[r] + 1,
         prob' = prob,
         \A n \in 0 .. Len(script) : \A b : InBuffer(n, b)' <=> InBuffer(n, b),
         done' = [done EXCEPT ![r] = @ + 1],
         NEW d, at' = [at EXCEPT ![r] = d], InBuffer(c, d.buf)'
  PROVE  BufferHere'
<1> SUFFICES ASSUME NEW q \in Ranks(prob), NEW n \in Nat, n = done'[q],
                    NEW b, b = at'[q].buf
             PROVE  InBuffer(n, b)'
  <2>1. \A q \in Ranks(prob) : done'[q] \in Nat
    BY DEF TypeOK, CallsTyped
  <2> QED BY <2>1, SMTT(20) DEF BufferHere, InBuffer
<1>0. /\ done \in [Ranks(prob) -> 0 .. Len(script)] /\ done[q] \in 0 .. Len(script)
      /\ at \in [Ranks(prob) -> [dir : Directions, buf : Buffers]]
  BY DEF TypeOK, CallsTyped
<1>1. CASE q = r
  <2>1. n = c /\ b = d.buf
    BY <1>0, <1>1
  <2> QED BY <2>1 DEF InBuffer
<1>2. CASE q # r
  <2>1. b = at[q].buf /\ n = done[q]
    BY <1>0, <1>2
  <2> QED BY <1>0, <2>1 DEF BufferHere
<1> QED BY <1>1, <1>2

---------------------------------------------------------------------------
(* What is sent and what is stored.                                        *)

\* A rank sends its peers what they are to store.
LEMMA ParcelSent ==
  ASSUME TypeOK, PlansPull, DataHeld, NEW w \in Ways,
         NEW r \in Ranks(prob), NEW q \in Ranks(prob), at[r].dir = w[1]
  PROVE  Message(r, q, w, at[r].buf) = Parcel(w, r, q)
<1> DEFINE from == Pulls(prob, w, q)
<1>1. plan[w][q].from = from /\ DOMAIN from = Pencil(prob, q, w[2])
  BY DEF PlansPull, Pulls
<1> HIDE DEF from
<1>2. ASSUME NEW a \in Pencil(prob, q, w[2]), from[a].rank = r
      PROVE  buf[r][at[r].buf][from[a].addr] = Held(prob, start, r, w[1])[from[a].addr]
  <2>1. from[a].addr \in Pencil(prob, r, w[1])
    BY <1>2, ProblemFits, PullsGoBack DEF from
  <2>2. Data(r) = Held(prob, start, r, w[1])
    BY DEF DataHeld
  <2> QED BY <2>1, <2>2 DEF Data
<1> QED BY <1>1, <1>2 DEF Message, Parcel, from

\* Once all peers have been heard, what a rank stores is what it is to hold.
LEMMA ParcelStored ==
  ASSUME TypeOK, Carried, NEW w \in Ways, NEW r \in Ranks(prob),
         \A q \in Group(prob, w, r) : net[w][q][r] # <<>>,
         NEW addr \in Pencil(prob, r, w[2])
  PROVE  Received(r, w, addr) = Held(prob, start, r, w[2])[addr]
<1> DEFINE x == Pulls(prob, w, r)[addr]
           senders == {q \in Group(prob, w, r) :
                         net[w][q][r] # <<>> /\ addr \in DOMAIN Head(net[w][q][r])}
           sender == CHOOSE q \in senders : TRUE
<1>1. /\ prob \in WellFormed /\ start \in Directions
      /\ \A q \in Group(prob, w, r) : q \in Ranks(prob)
  BY ProblemFits DEF TypeOK, CallsTyped, Group
<1>2. x.rank \in Group(prob, w, r)
  BY <1>1, PullsGoBack
<1>3. Held(prob, start, x.rank, w[1])[x.addr] = Held(prob, start, r, w[2])[addr]
  BY <1>1, HeldMoves
<1>4. \A q \in Group(prob, w, r) : Head(net[w][q][r]) = Parcel(w, q, r)
  BY <1>1 DEF Carried
<1>5. \A q \in Group(prob, w, r) : addr \in DOMAIN Parcel(w, q, r) <=> x.rank = q
  BY DEF Parcel
<1>6. senders = {x.rank}
  <2> HIDE DEF x
  <2> QED BY <1>2, <1>4, <1>5
<1>7. sender = x.rank
  BY <1>6
<1>8. Received(r, w, addr) = Head(net[w][x.rank][r])[addr]
  <2> HIDE DEF x
  <2>1. Received(r, w, addr) = IF senders = {} THEN Junk ELSE Head(net[w][sender][r])[addr]
    BY DEF Received
  <2> HIDE DEF sender, senders
  <2> QED BY <1>6, <1>7, <2>1
<1>9. Parcel(w, x.rank, r)[addr] = Held(prob, start, x.rank, w[1])[x.addr]
  BY DEF Parcel
<1> QED BY <1>2, <1>3, <1>4, <1>8, <1>9

---------------------------------------------------------------------------
(* The invariant is inductive.                                             *)

\* The invariant of the data holds before the first call.
LEMMA DInit == Init => DInv
<1> SUFFICES ASSUME Init PROVE DInv
  OBVIOUS
<1>1. MInv
  BY MInit
<1>2. PlansPull
  BY DEF Init, PlansPull, TransposePlan
<1>3. BufferChain
  BY DEF Init, BufferChain
<1>4. BufferHere
  BY DEF Init, BufferHere, InBuffer
<1>5. DataHeld
  <2> SUFFICES ASSUME NEW r \in Ranks(prob)
               PROVE  Data(r) = Held(prob, start, r, at[r].dir)
    BY DEF DataHeld
  <2>1. at[r].dir = start /\ at[r].buf = FirstBuffer /\ FirstBuffer \in Buffers
    BY BuffersAssumption DEF Init, FirstBuffer
  <2>2. buf[r][FirstBuffer] = FilledBuffer(r)
    BY <2>1 DEF Init
  <2>3. Held(prob, start, r, start) = Filled(r)
    BY NoWayHome DEF Held, Filled
  <2>4. Pencil(prob, r, start) \subseteq Memory(r)
    BY <1>1, ProblemFits DEF MInv, TypeOK, CallsTyped
  <2>5. \A addr \in Pencil(prob, r, start) : FilledBuffer(r)[addr] = Filled(r)[addr]
    BY <2>4 DEF FilledBuffer, Filled
  <2> QED BY <2>1, <2>2, <2>3, <2>5 DEF Data, Filled
<1>6. Carried
  BY DEF Init, Carried
<1> QED BY <1>1, <1>2, <1>3, <1>4, <1>5, <1>6 DEF DInv

\* Calls that are refused or have nothing to do.
LEMMA DPasses ==
  ASSUME DInv, MInv', NEW r \in Ranks(prob), Refuse(r) \/ ExecuteNothing(r)
  PROVE  DInv'
<1>0. /\ TypeOK /\ PlansMade /\ Chain /\ Far /\ Here /\ MInv
      /\ PlansPull /\ BufferChain /\ BufferHere /\ DataHeld /\ Carried
      /\ at \in [Ranks(prob) -> [dir : Directions, buf : Buffers]]
  BY DEF DInv, MInv, TypeOK, CallsTyped
<1>1. PICK call \in Calls(r) :
        /\ Makes(r, call)
        /\ done' = [done EXCEPT ![r] = @ + 1]
        /\ UNCHANGED <<prob, inPlace, plan, start, inside, buf, net>>
        /\ \/ ~Accepted(call) /\ at' = at
           \/ /\ Accepted(call) /\ plan[call.way][r].trivial
              /\ at' = [at EXCEPT ![r] = [dir |-> call.way[2], buf |-> call.out]]
  BY DEF Refuse, ExecuteNothing
<1>2. PICK c \in Nat : c = done[r]
  BY <1>0, Places
<1>3. /\ BufferChain' /\ (Accepted(call) => call.in = at[r].buf)
      /\ \A n \in 0 .. Len(script) : \A b : InBuffer(n, b)' <=> InBuffer(n, b)
  BY <1>0, <1>1, BuffersGrow
<1>4. script'[c + 1] = call /\ (Accepted(call)' <=> Accepted(call)) /\ c \in 0 .. Len(script)
  BY <1>0, <1>1, <1>2, MakesExtendsScript, Places DEF TypeOK, Accepted
<1>5. PICK d : d = IF Accepted(call) THEN [dir |-> call.way[2], buf |-> call.out] ELSE at[r]
  OBVIOUS
<1>6. at' = [at EXCEPT ![r] = d]
  BY <1>0, <1>1, <1>5
<1>7. BufferHere'
  <2>1. PICK b : b = at[r].buf
    OBVIOUS
  <2>2. InBuffer(c, b)'
    BY <1>0, <1>2, <1>3, <1>4, <2>1 DEF BufferHere
  <2>3. d.buf = IF Accepted(call)' THEN call.out ELSE b
    BY <1>4, <1>5, <2>1
  <2>4. InBuffer(c + 1, d.buf)'
    BY <1>4, <2>2, <2>3, BufferNextNext
  <2>5. PICK n \in Nat : n = c + 1
    OBVIOUS
  <2>6. InBuffer(n, d.buf)' /\ n = done[r] + 1
    BY <1>2, <2>4, <2>5
  <2> QED BY <1>0, <1>1, <1>3, <1>6, <2>6, BufferReturns
<1>8. PlansPull' /\ Carried'
  <2>1. prob' = prob /\ plan' = plan /\ start' = start /\ net' = net
    BY <1>1
  <2>2. PlansPull'
    BY <1>0, <2>1 DEF PlansPull
  <2>3. \A w \in Ways : \A q, s \in Ranks(prob) : Parcel(w, q, s)' = Parcel(w, q, s)
    BY <2>1 DEF Parcel
  <2> QED BY <1>0, <2>1, <2>2, <2>3 DEF Carried
<1>9. DataHeld'
  <2> SUFFICES ASSUME NEW q \in Ranks(prob)
               PROVE  Data(q)' = Held(prob, start, q, at'[q].dir)
    BY <1>1 DEF DataHeld
  <2>1. CASE at'[q] = at[q]
    BY <1>0, <1>1, <2>1 DEF DataHeld, Data
  <2>2. CASE at'[q] # at[q]
    <3>1. q = r /\ Accepted(call) /\ at'[r].dir = call.way[2]
      BY <1>0, <1>1, <2>2
    <3>2. call.way \in Ways /\ call.way[2] \in Directions
      BY <1>0, <3>1, CallsAreCalls, CallTarget DEF TypeOK
    <3>3. prob \in WellFormed /\ start \in Directions
      BY <1>0, ProblemFits DEF TypeOK, CallsTyped
    <3>4. Pencil(prob, r, call.way[2]) = {}
      BY <1>0, <1>1, <3>1, <3>2, <3>3, NothingToHold DEF PlansMade
    <3>5. Held(prob, start, r, call.way[2])
            = [addr \in Pencil(prob, r, call.way[2]) |-> Held(prob, start, r, call.way[2])[addr]]
      BY <3>2, <3>3, HeldType
    <3> QED BY <1>1, <3>1, <3>4, <3>5 DEF Data
  <2> QED BY <2>1, <2>2
<1> QED BY <1>3, <1>7, <1>8, <1>9 DEF DInv

\* Two messages in a queue are not one.
LEMMA NoSecond == \A x, m : \A y : Append(<<x>>, m) # <<y>>
<1> SUFFICES ASSUME NEW x, NEW m, NEW y PROVE Append(<<x>>, m) # <<y>>
  OBVIOUS
<1> DEFINE S == {x, m, y}
<1>1. <<x>> \in Seq(S) /\ <<y>> \in Seq(S) /\ m \in S
  OBVIOUS
<1>2. Len(Append(<<x>>, m)) = Len(<<x>>) + 1
  BY <1>1
<1> QED BY <1>2

\* Entering a transpose: every peer is sent what it is to store.
LEMMA DEnters ==
  ASSUME DInv, MInv', NEW r \in Ranks(prob), Enter(r)
  PROVE  DInv'
<1>0. /\ TypeOK /\ PlansMade /\ Chain /\ Far /\ Here /\ UnderWay /\ MInv /\ NetTyped
      /\ PlansPull /\ BufferChain /\ BufferHere /\ DataHeld /\ Carried
  BY DEF DInv, MInv, TypeOK
<1>1. PICK call \in Calls(r) :
        /\ Makes(r, call)
        /\ Accepted(call)
        /\ net' = [net EXCEPT ![call.way][r] =
                     [q \in Ranks(prob) |->
                        IF q \in Group(prob, call.way, r)
                        THEN Append(@[q], Message(r, q, call.way, call.in))
                        ELSE @[q]]]
        /\ UNCHANGED <<prob, inPlace, plan, start, done, at, buf>>
  BY DEF Enter
<1> DEFINE v == call.way
<1>2. v \in Ways
  BY <1>0, <1>1, CallsAreCalls, CallTarget DEF TypeOK
<1>3. /\ BufferChain' /\ call.in = at[r].buf
      /\ \A n \in 0 .. Len(script) : \A b : InBuffer(n, b)' <=> InBuffer(n, b)
  BY <1>0, <1>1, BuffersGrow
<1>4. at[r].dir = v[1]
  BY <1>0, <1>1, ScriptGrows DEF Here
<1>5. BufferHere'
  <2> SUFFICES ASSUME NEW q \in Ranks(prob), NEW n, n = done[q], NEW b, b = at[q].buf
               PROVE  InBuffer(n, b)'
    BY <1>1 DEF BufferHere, InBuffer
  <2> QED BY <1>0, <1>3, Places DEF BufferHere
<1>6. PlansPull' /\ DataHeld'
  BY <1>0, <1>1 DEF PlansPull, DataHeld, Data
<1>7. Carried'
  <2>0. prob' = prob /\ \A w, s, q : Parcel(w, s, q)' = Parcel(w, s, q)
    BY <1>1 DEF Parcel
  <2> HIDE DEF v
  <2> SUFFICES ASSUME NEW w \in Ways, NEW s \in Ranks(prob), NEW q \in Ranks(prob),
                      net'[w][s][q] # <<>>
               PROVE  Head(net'[w][s][q]) = Parcel(w, s, q)
    BY <2>0 DEF Carried
  <2> USE DEF v
  <2>1. CASE net'[w][s][q] = net[w][s][q]
    BY <1>0, <2>1 DEF Carried
  <2>2. CASE net'[w][s][q] # net[w][s][q]
    <3>1. /\ w = v /\ s = r
          /\ net'[w][s][q] = Append(net[w][s][q], Message(r, q, v, call.in))
      BY <1>0, <1>1, <1>2, <2>2 DEF NetTyped
    <3>2. net[w][s][q] = <<>>
      <4>1. net[w][s][q] = <<>> \/ \E x : net[w][s][q] = <<x>>
        BY <1>0 DEF UnderWay
      <4>2. \E x : net'[w][s][q] = <<x>>
        BY <1>1 DEF MInv, UnderWay
      <4>3. ASSUME NEW x, net[w][s][q] = <<x>> PROVE FALSE
        BY <3>1, <4>2, <4>3, NoSecond
      <4> QED BY <4>1, <4>3
    <3>3. Head(net'[w][s][q]) = Message(r, q, v, call.in)
      BY <3>1, <3>2
    <3> QED BY <1>0, <1>2, <1>3, <1>4, <3>1, <3>3, ParcelSent
  <2> QED BY <2>1, <2>2
<1> QED BY <1>3, <1>5, <1>6, <1>7 DEF DInv

\* Returning from a transpose: what is stored is what the rank is to hold.
LEMMA DLeaves ==
  ASSUME DInv, MInv', NEW r \in Ranks(prob), Leave(r)
  PROVE  DInv'
<1>0. /\ TypeOK /\ MInv /\ NetTyped /\ BuffersTyped /\ InsideByCall /\ UnderWay
      /\ PlansPull /\ BufferChain /\ BufferHere /\ DataHeld /\ Carried
      /\ done \in [Ranks(prob) -> 0 .. Len(script)]
      /\ at \in [Ranks(prob) -> [dir : Directions, buf : Buffers]]
      /\ script \in Seq(Call) /\ Len(script) \in Nat
  BY DEF DInv, MInv, TypeOK, CallsTyped
<1>1. PICK call : call = script[done[r] + 1]
  OBVIOUS
<1> DEFINE v == call.way
           peers == Group(prob, v, r)
<1>2. /\ inside[r]
      /\ \A q \in peers : net[v][q][r] # <<>>
      /\ done' = [done EXCEPT ![r] = @ + 1]
      /\ at' = [at EXCEPT ![r] = [dir |-> v[2], buf |-> call.out]]
      /\ buf' = [buf EXCEPT ![r] =
                   [b \in Buffers |-> [addr \in DOMAIN @[b] |->
                      CASE b = call.out -> Received(r, v, addr)
                        [] b = call.in /\ b # call.out -> Junk
                        [] OTHER -> @[b][addr]]]]
      /\ net' = [net EXCEPT ![v] =
                   [q \in Ranks(prob) |->
                      IF q \in peers THEN [net[v][q] EXCEPT ![r] = Tail(@)] ELSE net[v][q]]]
      /\ UNCHANGED <<prob, inPlace, plan, start, script>>
  BY <1>1 DEF Leave
<1>3. PICK c \in Nat : c = done[r]
  BY <1>0, Places
<1>4. /\ c + 1 \in 1 .. Len(script) /\ call = script[c + 1] /\ call \in Call
      /\ Accepted(call) /\ v \in Ways /\ v[2] \in Directions /\ call.out \in Buffers
  <2>1. done[r] < Len(script) /\ Accepted(script[done[r] + 1])
    BY <1>0, <1>2 DEF InsideByCall
  <2>2. c + 1 \in 1 .. Len(script) /\ call = script[c + 1]
    BY <1>0, <1>1, <1>3, <2>1
  <2> QED BY <1>0, <1>1, <2>1, <2>2, CallTarget
<1>5. prob \in WellFormed /\ start \in Directions
  BY <1>0, ProblemFits DEF TypeOK, CallsTyped
<1>6. \A n \in 0 .. Len(script) : \A b : InBuffer(n, b)' <=> InBuffer(n, b)
  BY <1>2 DEF InBuffer, Accepted
<1>7. BufferChain' /\ PlansPull'
  BY <1>0, <1>2, <1>6 DEF BufferChain, PlansPull, InBuffer, Accepted
<1>8. prob' = prob /\ start' = start
  <2> HIDE DEF v, peers
  <2> QED BY <1>2
<1>9. BufferHere'
  <2>1. PICK d : d = [dir |-> v[2], buf |-> call.out]
    OBVIOUS
  <2>2. at' = [at EXCEPT ![r] = d]
    BY <1>2, <2>1
  <2>3. InBuffer(c + 1, call.out)
    BY <1>0, <1>3, <1>4, BufferNext DEF BufferHere
  <2>4. PICK n \in Nat : n = c + 1
    OBVIOUS
  <2>5. InBuffer(n, d.buf)' /\ n = done[r] + 1
    BY <1>3, <1>4, <1>6, <2>1, <2>3, <2>4
  <2> HIDE DEF v, peers
  <2> QED BY <1>0, <1>2, <1>6, <2>2, <2>5, BufferReturns
<1>10. DataHeld'
  <2> SUFFICES ASSUME NEW q \in Ranks(prob)
               PROVE  Data(q)' = Held(prob, start, q, at'[q].dir)
    BY <1>8 DEF DataHeld
  <2>1. CASE q # r
    <3>1. at'[q] = at[q] /\ buf'[q] = buf[q]
      BY <1>0, <1>2, <2>1 DEF BuffersTyped
    <3>2. Data(q)' = Data(q)
      BY <1>8, <3>1 DEF Data
    <3> QED BY <1>0, <3>1, <3>2 DEF DataHeld
  <2>2. CASE q = r
    <3>1. at'[r] = [dir |-> v[2], buf |-> call.out]
      BY <1>0, <1>2
    <3>2. /\ Pencil(prob, r, v[2]) \subseteq Memory(r)
          /\ DOMAIN buf[r][call.out] = Memory(r)
      BY <1>0, <1>4, ProblemFits DEF BuffersTyped
    <3>3. \A addr \in Memory(r) : buf'[r][call.out][addr] = Received(r, v, addr)
      <4> HIDE DEF v, peers
      <4> QED BY <1>0, <1>2, <1>4, <3>2 DEF BuffersTyped
    <3>4. \A addr \in Pencil(prob, r, v[2]) :
            buf'[r][call.out][addr] = Held(prob, start, r, v[2])[addr]
      BY <1>0, <1>2, <1>4, <3>2, <3>3, ParcelStored
    <3>5. Held(prob, start, r, v[2])
            = [addr \in Pencil(prob, r, v[2]) |-> Held(prob, start, r, v[2])[addr]]
      BY <1>4, <1>5, HeldType
    <3>6. Data(q)' = [addr \in Pencil(prob, r, v[2]) |-> buf'[r][call.out][addr]]
      BY <1>8, <2>2, <3>1 DEF Data
    <3>7. at'[q].dir = v[2]
      BY <2>2, <3>1
    <3> HIDE DEF v, peers
    <3> QED BY <2>2, <3>4, <3>5, <3>6, <3>7
  <2> QED BY <2>1, <2>2
<1>11. Carried'
  <2>0. \A w, s, q : Parcel(w, s, q)' = Parcel(w, s, q)
    BY <1>8 DEF Parcel
  <2> HIDE DEF v, peers
  <2> SUFFICES ASSUME NEW w \in Ways, NEW s \in Ranks(prob), NEW q \in Ranks(prob),
                      net'[w][s][q] # <<>>
               PROVE  Head(net'[w][s][q]) = Parcel(w, s, q)
    BY <1>8, <2>0 DEF Carried
  <2> USE DEF v, peers
  <2>1. CASE net'[w][s][q] = net[w][s][q]
    BY <1>0, <2>1 DEF Carried
  <2>2. CASE net'[w][s][q] # net[w][s][q]
    <3>1. w = v /\ q = r /\ s \in peers /\ net'[w][s][q] = Tail(net[w][s][q])
      <4>1. w = v
        BY <1>0, <1>2, <1>4, <2>2 DEF NetTyped
      <4>2. net'[v][s] = IF s \in peers THEN [net[v][s] EXCEPT ![r] = Tail(@)] ELSE net[v][s]
        BY <1>0, <1>2, <1>4 DEF NetTyped
      <4>3. DOMAIN net[v][s] = Ranks(prob)
        BY <1>0, <1>4 DEF NetTyped
      <4> HIDE DEF v, peers
      <4> QED BY <2>2, <4>1, <4>2, <4>3
    <3>2. net[w][s][q] = <<>> \/ \E x : net[w][s][q] = <<x>>
      BY <1>0 DEF UnderWay
    <3>3. net[w][s][q] # <<>>
      BY <1>2, <3>1
    <3> QED BY <3>1, <3>2, <3>3, OneMessage
  <2> QED BY <2>1, <2>2
<1> QED BY <1>7, <1>9, <1>10, <1>11 DEF DInv

\* Every step keeps it: the actions one by one.
LEMMA DNext == DInv /\ [Next]_vars => DInv'
<1> SUFFICES ASSUME DInv, [Next]_vars PROVE DInv'
  OBVIOUS
<1>1. MInv'
  BY MNext DEF DInv
<1>2. CASE UNCHANGED vars
  BY <1>1, <1>2 DEF DInv, PlansPull, BufferChain, BufferHere, InBuffer, Accepted,
                    DataHeld, Data, Carried, Parcel, vars
<1>3. ASSUME NEW r \in Ranks(prob), Refuse(r) \/ ExecuteNothing(r) PROVE DInv'
  BY <1>1, <1>3, DPasses
<1>4. ASSUME NEW r \in Ranks(prob), Enter(r) PROVE DInv'
  BY <1>1, <1>4, DEnters
<1>5. ASSUME NEW r \in Ranks(prob), Leave(r) PROVE DInv'
  BY <1>1, <1>5, DLeaves
<1> QED BY <1>2, <1>3, <1>4, <1>5 DEF Next

\* It always holds.
LEMMA DataInvariant == Spec => []DInv
BY DInit, DNext, PTL DEF Spec

\* A rank that is back in the direction it started from finds every value where
\* it was filled in: on every problem and grid, by every route, in place or not,
\* however far apart the ranks run and whatever calls are refused on the way.
THEOREM RoundTripRestores == Spec => []RoundTrip
<1>1. DInv => RoundTrip
  <2> SUFFICES ASSUME DInv, NEW r \in Ranks(prob), at[r].dir = start
               PROVE  Data(r) = Filled(r)
    BY DEF RoundTrip
  <2>1. Held(prob, start, r, start) = Filled(r)
    BY NoWayHome DEF Held, Filled
  <2> QED BY <2>1 DEF DInv, DataHeld
<1> QED BY <1>1, DataInvariant, PTL

---------------------------------------------------------------------------
(* The promise speaks of the same problems, ways and slots.                *)

\* Decompositions are the same,
LEMMA SamePencils ==
  /\ Promise!Directions = Directions /\ Promise!Ways = Ways
  /\ \A p : Promise!Ranks(p) = Ranks(p)
  /\ \A n, k : Promise!DefaultBlock(n, k) = DefaultBlock(n, k)
  /\ \A n, b, k : Promise!LocalRows(n, b, k) = LocalRows(n, b, k)
  /\ \A p, r, i, d : Promise!Size(p, r, i, d) = Size(p, r, i, d)
  /\ \A p, r, i : Promise!Pencil(p, r, i) = Pencil(p, r, i)
<1>1. Promise!Directions = Directions /\ Promise!Ways = Ways /\ \A p : Promise!Ranks(p) = Ranks(p)
  BY DEF Promise!Directions, Directions, Promise!Ways, Ways, Promise!Ranks, Ranks
<1>2. \A n, k : Promise!DefaultBlock(n, k) = DefaultBlock(n, k)
  BY DEF Promise!DefaultBlock, DefaultBlock
<1>3. \A n, b, k : Promise!LocalRows(n, b, k) = LocalRows(n, b, k)
  BY DEF Promise!LocalRows, LocalRows
<1>4. \A i, d : Promise!SplitOverB(i, d) <=> SplitOverB(i, d)
  BY DEF Promise!SplitOverB, SplitOverB
<1>5. \A p, r, i, d : Promise!Size(p, r, i, d) = Size(p, r, i, d)
  BY <1>2, <1>3, <1>4 DEF Promise!Size, Size
<1>6. \A p, r, i : Promise!Extent(p, r, i) = Extent(p, r, i)
  BY <1>5 DEF Promise!Extent, Extent
<1>7. \A p, r, i : Promise!Pencil(p, r, i) = Pencil(p, r, i)
  BY <1>6 DEF Promise!Pencil, Pencil
<1> QED BY <1>1, <1>2, <1>3, <1>5, <1>7

\* transposes are,
LEMMA SameTransposes ==
  /\ \A w, r : Promise!RankIn(w, r) = RankIn(w, r)
  /\ \A w, r, k : Promise!Peer(w, r, k) = Peer(w, r, k)
  /\ \A p, w, r : Promise!Group(p, w, r) = Group(p, w, r)
  /\ \A p, r, w : Promise!TransposeOf(p, r, w) = TransposeOf(p, r, w)
  /\ \A t : Promise!Trivial(t) <=> Trivial(t)
  /\ \A t, k, addr : Promise!Source(t, k, addr) = Source(t, k, addr)
<1>1. \A w : Promise!OverA(w) <=> OverA(w)
  BY DEF Promise!OverA, OverA
<1>2. /\ \A w, r : Promise!RankIn(w, r) = RankIn(w, r)
      /\ \A w, r, k : Promise!Peer(w, r, k) = Peer(w, r, k)
  BY <1>1 DEF Promise!RankIn, RankIn, Promise!Peer, Peer
<1>3. \A p, w, r : Promise!Group(p, w, r) = Group(p, w, r)
  BY <1>2, SamePencils DEF Promise!Group, Group
<1>4. /\ \A p, r : Promise!BackwardA(p, r) = BackwardA(p, r)
      /\ \A p, r : Promise!BackwardB(p, r) = BackwardB(p, r)
  BY SamePencils DEF Promise!BackwardA, BackwardA, Promise!BackwardB, BackwardB
<1>5. \A t : Promise!InverseTranspose(t) = InverseTranspose(t)
  BY DEF Promise!InverseTranspose, InverseTranspose
<1>6. \A p, r, w : Promise!TransposeOf(p, r, w) = TransposeOf(p, r, w)
  BY <1>4, <1>5 DEF Promise!TransposeOf, TransposeOf
<1>7. \A t : Promise!Trivial(t) <=> Trivial(t)
  BY DEF Promise!Trivial, Trivial
<1>8. \A t, k : /\ Promise!LocalIn(t, k) = LocalIn(t, k)
                /\ Promise!LocalOut(t, k) = LocalOut(t, k)
  BY SamePencils DEF Promise!LocalIn, LocalIn, Promise!LocalOut, LocalOut
<1>9. \A t, k, addr : Promise!Source(t, k, addr) = Source(t, k, addr)
  BY <1>8 DEF Promise!Source, Source
<1> QED BY <1>2, <1>3, <1>6, <1>7, <1>9

\* and so is what a rank holds.
LEMMA SameHeld == \A p, s, r, d : Promise!Held(p, s, r, d) = Held(p, s, r, d)
<1>1. \A p, w, r : Promise!Pulls(p, w, r) = Pulls(p, w, r)
  BY SamePencils, SameTransposes DEF Promise!Pulls, Pulls
<1> QED BY <1>1, SamePencils DEF Promise!Held, Held

---------------------------------------------------------------------------
(* Every step keeps the promise.                                           *)

\* A call as its caller sees it, the program of such calls, and the pencils of
\* the ranks as the promise has them.
Told(call) == IF Accepted(call) THEN call.way ELSE <<>>
Program == [k \in 1 .. Len(script) |-> Told(script[k])]
Pencils == [r \in Ranks(prob) |-> [dir |-> at[r].dir, data |-> Held(prob, start, r, at[r].dir)]]

\* What the promise has for the program and the pencils.
LEMMA PromiseSees ==
  DataHeld =>
    /\ [k \in 1 .. Len(script) |-> IF Accepted(script[k]) THEN script[k].way ELSE <<>>]
         = Program
    /\ [r \in Ranks(prob) |-> [dir |-> at[r].dir, data |-> Data(r)]] = Pencils
BY DEF DataHeld, Program, Told, Pencils

\* The same of the state after a step.
LEMMA PromiseSeesNext ==
  (DataHeld =>
    /\ [k \in 1 .. Len(script) |-> IF Accepted(script[k]) THEN script[k].way ELSE <<>>]
         = Program
    /\ [r \in Ranks(prob) |-> [dir |-> at[r].dir, data |-> Data(r)]] = Pencils)'
BY PromiseSees, PTL

\* The mark of a refused call is no way between directions.
LEMMA NoWayIsRefused == \A w \in Ways : w # <<>>
BY DEF Ways

\* Initial states are initial states of the promise.
LEMMA PromiseBegins == Init => Promise!Init
<1> SUFFICES ASSUME Init PROVE Promise!Init
  OBVIOUS
<1>1. DataHeld
  BY DInit DEF DInv
<1>2. Program = <<>>
  BY DEF Init, Program
<1>3. Pencils = [r \in Ranks(prob) |-> [dir |-> start, data |-> Held(prob, start, r, start)]]
  BY DEF Init, Pencils
<1>4. \A r : Promise!PencilIn(start, r) = [dir |-> start, data |-> Held(prob, start, r, start)]
  BY SameHeld DEF Promise!PencilIn
<1> QED BY <1>1, <1>2, <1>3, <1>4, PromiseSees, SamePencils DEF Init, Promise!Init

\* A sequence with one more value.
LEMMA AppendedValues ==
  ASSUME NEW S, NEW seq \in Seq(S), NEW x \in S
  PROVE  Append(seq, x) = [k \in 1 .. Len(seq) + 1 |-> IF k = Len(seq) + 1 THEN x ELSE seq[k]]
<1> DEFINE new == Append(seq, x)
<1>1. /\ new \in Seq(S) /\ Len(new) = Len(seq) + 1 /\ Len(seq) \in Nat
      /\ \A k \in 1 .. Len(seq) : new[k] = seq[k]
      /\ new[Len(seq) + 1] = x
  OBVIOUS
<1> HIDE DEF new
<1>2. new = [k \in 1 .. Len(new) |-> new[k]]
  BY <1>1
<1>3. \A k \in 1 .. Len(seq) + 1 : new[k] = IF k = Len(seq) + 1 THEN x ELSE seq[k]
  BY <1>1
<1>4. new = [k \in 1 .. Len(seq) + 1 |-> IF k = Len(seq) + 1 THEN x ELSE seq[k]]
  BY <1>1, <1>2, <1>3
<1> QED BY <1>4 DEF new

\* The program grows by the call that rank r makes, as the rank sees it.
LEMMA ProgramGrows ==
  ASSUME TypeOK, NEW r \in Ranks(prob), NEW call \in Calls(r), Makes(r, call),
         inPlace' = inPlace
  PROVE  /\ done[r] < MaxCalls
         /\ Len(Program) = Len(script) /\ Told(call) \in Ways \cup {<<>>}
         /\ IF done[r] = Len(script)
            THEN Program' = Append(Program, Told(call))
            ELSE Told(call) = Program[done[r] + 1] /\ Program' = Program
<1>0. /\ CallsTyped /\ script \in Seq(Call) /\ Len(script) \in Nat /\ Len(script) <= MaxCalls
      /\ done[r] \in 0 .. Len(script) /\ MaxCalls \in Nat /\ call \in Call
  BY BoundsAssumption, CallsAreCalls DEF TypeOK, CallsTyped
<1>1. done[r] < MaxCalls
  BY <1>0 DEF Makes
<1>2. \A c : Told(c)' = Told(c)
  BY DEF Told, Accepted
<1>3. \A c \in Call : Told(c) \in Ways \cup {<<>>}
  BY DEF Told, Call
<1>4. Program \in Seq(Ways \cup {<<>>}) /\ Len(Program) = Len(script)
  BY <1>0, <1>3 DEF Program
<1>5. CASE done[r] = Len(script)
  <2>1. script' = Append(script, call)
    BY <1>5 DEF Makes
  <2>2. /\ Len(script') = Len(script) + 1
        /\ \A k \in 1 .. Len(script) + 1 :
             script'[k] = IF k = Len(script) + 1 THEN call ELSE script[k]
    BY <1>0, <2>1
  <2>3. Program' = [k \in 1 .. Len(script) + 1 |-> Told(script'[k])]
    BY <1>2, <2>2 DEF Program
  <2>4. Program' = [k \in 1 .. Len(script) + 1 |->
                      IF k = Len(script) + 1 THEN Told(call) ELSE Program[k]]
    BY <1>0, <2>2, <2>3 DEF Program
  <2>5. Append(Program, Told(call)) = [k \in 1 .. Len(script) + 1 |->
                      IF k = Len(script) + 1 THEN Told(call) ELSE Program[k]]
    BY <1>0, <1>3, <1>4, AppendedValues
  <2> QED BY <1>0, <1>1, <1>3, <1>4, <1>5, <2>4, <2>5
<1>6. CASE done[r] # Len(script)
  <2>1. script' = script /\ call = script[done[r] + 1] /\ done[r] + 1 \in 1 .. Len(script)
    BY <1>0, <1>6 DEF Makes, Calls
  <2>2. Program' = Program
    BY <1>2, <2>1 DEF Program
  <2> QED BY <1>0, <1>1, <1>3, <1>4, <1>6, <2>1, <2>2 DEF Program
<1> QED BY <1>5, <1>6

\* What the ranks hold when r has got to direction d.
LEMMA PencilMoves ==
  ASSUME TypeOK, NEW r \in Ranks(prob), NEW d,
         at' = [at EXCEPT ![r] = d], prob' = prob, start' = start
  PROVE  Pencils' = [Pencils EXCEPT ![r] = Promise!PencilIn(d.dir, r)]
<1>1. at \in [Ranks(prob) -> [dir : Directions, buf : Buffers]]
  BY DEF TypeOK, CallsTyped
<1>2. Promise!PencilIn(d.dir, r) = [dir |-> d.dir, data |-> Held(prob, start, r, d.dir)]
  BY SameHeld DEF Promise!PencilIn
<1>3. \A q \in Ranks(prob) : at'[q] = IF q = r THEN d ELSE at[q]
  BY <1>1
<1> QED BY <1>2, <1>3 DEF Pencils

\* A refused call is one the promise refuses.
LEMMA RefusalPromised ==
  ASSUME DInv, DInv', NEW r \in Ranks(prob), Refuse(r)
  PROVE  Promise!Refuse(r)
<1>1. PICK call \in Calls(r) :
        /\ Makes(r, call)
        /\ ~Accepted(call)
        /\ done' = [done EXCEPT ![r] = @ + 1]
        /\ UNCHANGED <<prob, inPlace, plan, start, inside, at, buf, net>>
  BY DEF Refuse
<1>2. TypeOK /\ DataHeld /\ DataHeld'
  BY DEF DInv, MInv
<1>3. Told(call) = <<>>
  BY <1>1 DEF Told
<1>4. /\ done[r] < MaxCalls /\ Len(Program) = Len(script)
      /\ IF done[r] = Len(script)
         THEN Program' = Append(Program, <<>>)
         ELSE <<>> = Program[done[r] + 1] /\ Program' = Program
  BY <1>1, <1>2, <1>3, ProgramGrows
<1>5. Pencils' = Pencils
  BY <1>1 DEF Pencils
<1> QED BY <1>1, <1>2, <1>4, <1>5, PromiseSees, PromiseSeesNext
        DEF Promise!Refuse, Promise!Returns, Promise!Sensible, Promise!Refused

\* Returning from a transpose, when it was promised that r may.
LEMMA ReturnPromised ==
  ASSUME DInv, DInv', NEW r \in Ranks(prob), NEW call \in Call, Accepted(call),
         done[r] < MaxCalls, at[r].dir = call.way[1],
         \/ Trivial(TransposeOf(prob, r, call.way))
         \/ \A q \in Group(prob, call.way, r) : done[q] >= done[r],
         IF done[r] = Len(script)
         THEN Program' = Append(Program, call.way)
         ELSE call.way = Program[done[r] + 1] /\ Program' = Program,
         Len(Program) = Len(script),
         done' = [done EXCEPT ![r] = @ + 1],
         at' = [at EXCEPT ![r] = [dir |-> call.way[2], buf |-> call.out]],
         prob' = prob, start' = start
  PROVE  Promise!Transpose(r)
<1> DEFINE w == call.way
<1>1. TypeOK /\ DataHeld /\ DataHeld'
  BY DEF DInv, MInv
<1>2. w \in Ways /\ w # <<>>
  BY NoWayIsRefused DEF Call
<1>3. Pencils' = [Pencils EXCEPT ![r] = Promise!PencilIn(w[2], r)]
  <2>1. PICK d : d = [dir |-> w[2], buf |-> call.out]
    OBVIOUS
  <2>2. Pencils' = [Pencils EXCEPT ![r] = Promise!PencilIn(d.dir, r)]
    BY <1>1, <2>1, PencilMoves
  <2>3. d.dir = w[2]
    BY <2>1
  <2> QED BY <2>2, <2>3
<1>4. Pencils[r].dir = w[1]
  BY DEF Pencils
<1>5. Promise!Sensible(r, w)
  BY <1>1, <1>4, PromiseSees DEF Promise!Sensible
<1>6. Promise!Returns(r, w)
  BY <1>1, <1>5, PromiseSees, PromiseSeesNext DEF Promise!Returns
<1>7. \/ Promise!Trivial(Promise!TransposeOf(prob, r, w))
      \/ \A q \in Promise!Group(prob, w, r) : done[q] >= done[r]
  BY SameTransposes
<1>8. w \in Promise!Ways
  BY <1>2, SamePencils
<1> HIDE DEF w
<1> QED BY <1>1, <1>3, <1>6, <1>7, <1>8, PromiseSees, PromiseSeesNext DEF Promise!Transpose

\* A call with nothing to do returns at once.
LEMMA NothingPromised ==
  ASSUME DInv, DInv', NEW r \in Ranks(prob), ExecuteNothing(r)
  PROVE  Promise!Transpose(r)
<1>1. PICK call \in Calls(r) :
        /\ Makes(r, call)
        /\ Accepted(call)
        /\ plan[call.way][r].trivial
        /\ done' = [done EXCEPT ![r] = @ + 1]
        /\ at' = [at EXCEPT ![r] = [dir |-> call.way[2], buf |-> call.out]]
        /\ UNCHANGED <<prob, inPlace, plan, start, inside, buf, net>>
  BY DEF ExecuteNothing
<1>2. /\ TypeOK /\ CallsTyped /\ PlansMade /\ Chain /\ Far /\ Here
      /\ call \in Call /\ call.way \in Ways
  BY CallsAreCalls DEF DInv, MInv, TypeOK, Call
<1>3. at[r].dir = call.way[1]
  BY <1>1, <1>2, ScriptGrows DEF Here
<1>4. Trivial(TransposeOf(prob, r, call.way))
  BY <1>1, <1>2 DEF PlansMade
<1>5. Told(call) = call.way
  BY <1>1 DEF Told
<1>6. /\ done[r] < MaxCalls /\ Len(Program) = Len(script)
      /\ IF done[r] = Len(script)
         THEN Program' = Append(Program, call.way)
         ELSE call.way = Program[done[r] + 1] /\ Program' = Program
  BY <1>1, <1>2, <1>5, ProgramGrows
<1> QED BY <1>1, <1>2, <1>3, <1>4, <1>6, ReturnPromised

\* Who has heard from every peer has peers that have returned from all calls
\* before.
LEMMA LeavePromised ==
  ASSUME DInv, DInv', NEW r \in Ranks(prob), Leave(r)
  PROVE  Promise!Transpose(r)
<1>0. /\ TypeOK /\ Chain /\ Here /\ UnderWay /\ InsideByCall
      /\ script \in Seq(Call) /\ Len(script) \in Nat /\ Len(script) <= MaxCalls
      /\ done[r] \in 0 .. Len(script) /\ MaxCalls \in Nat
  BY BoundsAssumption DEF DInv, MInv, TypeOK, CallsTyped
<1>1. PICK call : call = script[done[r] + 1]
  OBVIOUS
<1>2. /\ inside[r]
      /\ \A q \in Group(prob, call.way, r) : net[call.way][q][r] # <<>>
      /\ done' = [done EXCEPT ![r] = @ + 1]
      /\ at' = [at EXCEPT ![r] = [dir |-> call.way[2], buf |-> call.out]]
      /\ UNCHANGED <<prob, inPlace, plan, start, script>>
  BY <1>1 DEF Leave
<1>3. /\ done[r] < Len(script) /\ Accepted(call) /\ call \in Call /\ call.way \in Ways
      /\ done[r] + 1 \in 1 .. Len(script)
  <2>1. done[r] < Len(script) /\ Accepted(call)
    BY <1>0, <1>1, <1>2 DEF InsideByCall
  <2>2. done[r] + 1 \in 1 .. Len(script)
    BY <1>0, <2>1
  <2>3. call \in Call
    BY <1>0, <1>1, <2>2
  <2>4. call.way \in Ways
    BY <2>3 DEF Call
  <2> QED BY <2>1, <2>2, <2>3, <2>4
<1>4. at[r].dir = call.way[1]
  <2>1. PICK c \in Nat : c = done[r]
    BY <1>0
  <2>2. script[c + 1].way[1] = At(c)
    BY <1>0, <1>3, <2>1 DEF Chain
  <2> QED BY <1>0, <1>1, <2>1, <2>2 DEF Here
<1>5. ASSUME NEW q \in Group(prob, call.way, r) PROVE done[q] >= done[r]
  <2>1. q \in Ranks(prob) /\ Pending(call.way, q, r) # {}
    BY <1>0, <1>2, <1>3 DEF UnderWay, Group
  <2>2. PICK k : k \in done[r] + 1 .. Pos(q)
    BY <2>1 DEF Pending
  <2> QED BY <1>0, <2>1, <2>2, Places
<1>6. Told(call) = call.way
  BY <1>3 DEF Told
<1>7. /\ Program' = Program /\ call.way = Program[done[r] + 1]
      /\ Len(Program) = Len(script)
  <2>1. \A c : Told(c)' = Told(c)
    BY <1>2 DEF Told, Accepted
  <2>2. Program' = Program
    BY <1>2, <2>1 DEF Program
  <2>3. Len(Program) = Len(script)
    BY <1>0 DEF Program
  <2> QED BY <1>1, <1>3, <1>6, <2>2, <2>3 DEF Program
<1>8. done[r] < MaxCalls /\ done[r] # Len(script)
  BY <1>0, <1>3
<1> QED BY <1>2, <1>3, <1>4, <1>5, <1>7, <1>8, ReturnPromised

\* Entering a transpose settles what every rank calls next, or is not seen.
LEMMA EntryPromised ==
  ASSUME DInv, DInv', NEW r \in Ranks(prob), Enter(r)
  PROVE  Promise!Begin(r) \/ UNCHANGED Promise!vars
<1>1. PICK call \in Calls(r) :
        /\ Makes(r, call)
        /\ Accepted(call)
        /\ UNCHANGED <<prob, inPlace, plan, start, done, at, buf>>
  BY DEF Enter
<1>2. /\ TypeOK /\ CallsTyped /\ Chain /\ Far /\ Here /\ DataHeld /\ DataHeld'
      /\ call \in Call /\ call.way \in Ways
  BY CallsAreCalls DEF DInv, MInv, TypeOK, Call
<1>3. at[r].dir = call.way[1]
  BY <1>1, <1>2, ScriptGrows DEF Here
<1>4. Told(call) = call.way
  BY <1>1 DEF Told
<1>5. /\ done[r] < MaxCalls /\ Len(Program) = Len(script)
      /\ IF done[r] = Len(script)
         THEN Program' = Append(Program, call.way)
         ELSE call.way = Program[done[r] + 1] /\ Program' = Program
  BY <1>1, <1>2, <1>4, ProgramGrows
<1>6. Pencils' = Pencils
  BY <1>1 DEF Pencils
<1>7. CASE done[r] = Len(script)
  <2>1. Pencils[r].dir = call.way[1]
    BY <1>3 DEF Pencils
  <2>2. Promise!Sensible(r, call.way)
    BY <1>2, <2>1, PromiseSees DEF Promise!Sensible
  <2>3. call.way \in Promise!Ways \cup {Promise!Refused}
    BY <1>2, SamePencils
  <2> QED BY <1>1, <1>2, <1>5, <1>6, <1>7, <2>2, <2>3, PromiseSees, PromiseSeesNext
          DEF Promise!Begin
<1>8. CASE done[r] # Len(script)
  BY <1>1, <1>2, <1>5, <1>6, <1>8, PromiseSees, PromiseSeesNext DEF Promise!vars
<1> QED BY <1>7, <1>8

\* What leaves the exchange as it is leaves the promise as it is.
LEMMA PromiseStutters ==
  ASSUME UNCHANGED vars
  PROVE  UNCHANGED Promise!vars
<1>1. \A r : Data(r)' = Data(r)
  BY DEF vars, Data
<1>2. \A call : Accepted(call)' <=> Accepted(call)
  BY DEF vars, Accepted
<1> QED BY <1>1, <1>2 DEF vars, Promise!vars

\* Every step is one of the promise or none.
LEMMA StepPromised == DInv /\ DInv' /\ [Next]_vars => [Promise!Next]_(Promise!vars)
<1> SUFFICES ASSUME DInv, DInv', [Next]_vars PROVE [Promise!Next]_(Promise!vars)
  OBVIOUS
<1>1. CASE UNCHANGED vars
  BY <1>1, PromiseStutters
<1>2. ASSUME NEW r \in Ranks(prob), Refuse(r) PROVE Promise!Next
  BY <1>2, RefusalPromised, SamePencils DEF Promise!Next
<1>3. ASSUME NEW r \in Ranks(prob), ExecuteNothing(r) PROVE Promise!Next
  BY <1>3, NothingPromised, SamePencils DEF Promise!Next
<1>4. ASSUME NEW r \in Ranks(prob), Enter(r) PROVE Promise!Next \/ UNCHANGED Promise!vars
  BY <1>4, EntryPromised, SamePencils DEF Promise!Next
<1>5. ASSUME NEW r \in Ranks(prob), Leave(r) PROVE Promise!Next
  BY <1>5, LeavePromised, SamePencils DEF Promise!Next
<1> QED BY <1>1, <1>2, <1>3, <1>4, <1>5 DEF Next

\* The executing ranks implement PencilTranspose: what a rank holds is a
\* function of the direction alone, and a rank returns from a transpose only
\* when every rank it exchanges data with has returned from all calls before.
THEOREM TransposesKeepThePromise == Spec => KeepsPromise
<1>1. Init /\ [][Next]_vars => Promise!Spec
  BY PromiseBegins, StepPromised, DInit, DNext, PTL DEF Promise!Spec
<1> QED BY <1>1, PTL DEF Spec, KeepsPromise

---------------------------------------------------------------------------
(* Nothing is lost or doubled.                                             *)

\* What a function makes of a finite set is finite.
LEMMA FiniteImage ==
  ASSUME NEW S, IsFiniteSet(S), NEW f
  PROVE  IsFiniteSet({f[x] : x \in S})
<1> DEFINE T == {f[x] : x \in S}
           g == [x \in S |-> f[x]]
<1>1. g \in [S -> T] /\ \A t \in T : \E x \in S : g[x] = t
  OBVIOUS
<1> HIDE DEF T, g
<1>2. g \in Surjection(S, T)
  BY <1>1, Fun_IsSurj
<1>3. IsFiniteSet(T)
  BY <1>2, FS_Surjection
<1> QED BY <1>3 DEF T

\* There are finitely many ranks, and there is one.
LEMMA FiniteRanks ==
  ASSUME NEW p \in WellFormed
  PROVE  IsFiniteSet(Ranks(p)) /\ Ranks(p) # {}
<1>1. p.pA \in Nat \ {0} /\ p.pB \in Nat \ {0}
  BY DEF WellFormed
<1> DEFINE A == 0 .. p.pA - 1
           B == 0 .. p.pB - 1
           f == [x \in A \X B |-> [a |-> x[1], b |-> x[2]]]
<1>2. IsFiniteSet(A) /\ IsFiniteSet(B)
  <2>1. 0 \in Int /\ p.pA - 1 \in Int /\ p.pB - 1 \in Int
    BY <1>1
  <2> QED BY <2>1, FS_Interval
<1>3. \A x \in A \X B : f[x] = [a |-> x[1], b |-> x[2]]
  OBVIOUS
<1>4. Ranks(p) = {f[x] : x \in A \X B}
  <2>1. \A x \in A \X B : [a |-> x[1], b |-> x[2]] \in Ranks(p)
    BY DEF Ranks
  <2>2. ASSUME NEW r \in Ranks(p) PROVE \E x \in A \X B : r = f[x]
    <3>1. r.a \in A /\ r.b \in B /\ r = [a |-> r.a, b |-> r.b]
      BY DEF Ranks
    <3>2. <<r.a, r.b>> \in A \X B /\ r = f[<<r.a, r.b>>]
      BY <3>1
    <3> QED BY <3>2
  <2> QED BY <1>3, <2>1, <2>2
<1>5. [a |-> 0, b |-> 0] \in Ranks(p)
  BY <1>1 DEF Ranks
<1> HIDE DEF A, B, f
<1>6. IsFiniteSet(A \X B)
  BY <1>2, FS_Product
<1> QED BY <1>4, <1>5, <1>6, FiniteImage

\* All slots of the pencils long in d.
SlotsIn(d) ==
  UNION {{[rank |-> r, addr |-> addr] : addr \in Pencil(prob, r, d)} : r \in Ranks(prob)}

\* A slot is a rank with an address of its pencil.
LEMMA SlotIs ==
  ASSUME NEW d
  PROVE  \A slot : slot \in SlotsIn(d) <=>
           /\ slot = [rank |-> slot.rank, addr |-> slot.addr]
           /\ slot.rank \in Ranks(prob) /\ slot.addr \in Pencil(prob, slot.rank, d)
BY DEF SlotsIn

\* There are finitely many.
LEMMA FiniteSlots ==
  ASSUME prob \in WellFormed, NEW d \in Directions
  PROVE  IsFiniteSet(SlotsIn(d))
<1> DEFINE f(r) == [addr \in Pencil(prob, r, d) |-> [rank |-> r, addr |-> addr]]
           g == [r \in Ranks(prob) |-> {f(r)[addr] : addr \in Pencil(prob, r, d)}]
<1>1. ASSUME NEW r \in Ranks(prob) PROVE IsFiniteSet(g[r])
  <2>1. Extent(prob, r, d) \in Nat
    <3>1. \A k \in 0..3 : Size(prob, r, d, k) \in Nat
      BY SizeType DEF Indices
    <3> QED BY <3>1 DEF Extent
  <2>2. IsFiniteSet(Pencil(prob, r, d))
    BY <2>1, FS_Interval DEF Pencil
  <2>3. IsFiniteSet({f(r)[addr] : addr \in Pencil(prob, r, d)})
    <3> HIDE DEF f
    <3> QED BY <2>2, FiniteImage
  <2> QED BY <2>3
<1>2. SlotsIn(d) = UNION {g[r] : r \in Ranks(prob)}
  BY DEF SlotsIn
<1> HIDE DEF g
<1>3. IsFiniteSet({g[r] : r \in Ranks(prob)})
  BY FiniteRanks, FiniteImage
<1> QED BY <1>1, <1>2, <1>3, FS_UNION

\* From any direction to any other the slots are put in one-to-one
\* correspondence by what is held where.
LEMMA SlotsCorrespond ==
  ASSUME prob \in WellFormed, NEW s \in Directions, NEW d \in Directions
  PROVE  /\ {Held(prob, s, slot.rank, d)[slot.addr] : slot \in SlotsIn(d)} = SlotsIn(s)
         /\ Cardinality(SlotsIn(d)) = Cardinality(SlotsIn(s))
<1> DEFINE f == [slot \in SlotsIn(d) |-> Held(prob, s, slot.rank, d)[slot.addr]]
           g == [slot \in SlotsIn(s) |-> Held(prob, d, slot.rank, s)[slot.addr]]
<1>1. ASSUME NEW i \in Directions, NEW j \in Directions, NEW slot \in SlotsIn(j)
      PROVE  LET x == Held(prob, i, slot.rank, j)[slot.addr]
             IN  x \in SlotsIn(i) /\ Held(prob, j, x.rank, i)[x.addr] = slot
  <2>1. /\ slot = [rank |-> slot.rank, addr |-> slot.addr]
        /\ slot.rank \in Ranks(prob) /\ slot.addr \in Pencil(prob, slot.rank, j)
    BY SlotIs
  <2> DEFINE x == Held(prob, i, slot.rank, j)[slot.addr]
  <2>2. /\ x = [rank |-> x.rank, addr |-> x.addr]
        /\ x.rank \in Ranks(prob) /\ x.addr \in Pencil(prob, x.rank, i)
        /\ Held(prob, j, x.rank, i)[x.addr] = [rank |-> slot.rank, addr |-> slot.addr]
    BY <2>1, HeldGoesBack
  <2> HIDE DEF x
  <2>3. x \in SlotsIn(i)
    BY <2>2, SlotIs
  <2> QED BY <2>1, <2>2, <2>3 DEF x
<1>2. \A slot \in SlotsIn(d) : f[slot] \in SlotsIn(s) /\ g[f[slot]] = slot
  BY <1>1
<1>3. \A slot \in SlotsIn(s) : g[slot] \in SlotsIn(d) /\ f[g[slot]] = slot
  BY <1>1
<1>4. {Held(prob, s, slot.rank, d)[slot.addr] : slot \in SlotsIn(d)} = {f[slot] : slot \in SlotsIn(d)}
  OBVIOUS
<1>5. f \in [SlotsIn(d) -> SlotsIn(s)]
  BY <1>2
<1> HIDE DEF f, g
<1>6. {f[slot] : slot \in SlotsIn(d)} = SlotsIn(s)
  BY <1>2, <1>3
<1>7. f \in Bijection(SlotsIn(d), SlotsIn(s))
  <2>1. \A a, b \in SlotsIn(d) : f[a] = f[b] => a = b
    BY <1>2
  <2>2. \A t \in SlotsIn(s) : \E x \in SlotsIn(d) : f[x] = t
    BY <1>3
  <2> QED BY <1>5, <2>1, <2>2, Fun_IsBij
<1>8. ExistsBijection(SlotsIn(d), SlotsIn(s)) /\ IsFiniteSet(SlotsIn(d))
  BY <1>7, FiniteSlots DEF ExistsBijection
<1> QED BY <1>4, <1>6, <1>8, FS_Bijection

\* When all ranks have made the same calls, every value that was filled in is in
\* exactly one place: through every transpose, refused call and no-operation
\* plan, on every problem and grid, empty shares included.
THEOREM NothingIsLost == Spec => []NothingLost
<1>1. DInv => NothingLost
  <2> SUFFICES ASSUME DInv, \A r, q \in Ranks(prob) : done[r] = done[q]
               PROVE  LET now  == Slots([r \in Ranks(prob) |-> at[r].dir])
                          then == Slots([r \in Ranks(prob) |-> start])
                      IN  /\ {Data(slot.rank)[slot.addr] : slot \in now} = then
                          /\ Cardinality(now) = Cardinality(then)
    BY DEF NothingLost
  <2>1. /\ prob \in WellFormed /\ start \in Directions /\ Here /\ DataHeld
        /\ \A r \in Ranks(prob) : at[r].dir \in Directions
    BY ProblemFits DEF DInv, MInv, TypeOK, CallsTyped
  <2>2. PICK r0 \in Ranks(prob) : TRUE
    BY <2>1, FiniteRanks
  <2>3. PICK d \in Directions : d = at[r0].dir
    BY <2>1
  <2>4. \A r \in Ranks(prob) : at[r].dir = d
    BY <2>1, <2>2, <2>3 DEF Here
  <2> DEFINE now == Slots([r \in Ranks(prob) |-> at[r].dir])
             then == Slots([r \in Ranks(prob) |-> start])
  <2>5. now = SlotsIn(d)
    BY <2>4 DEF Slots, SlotsIn
  <2>6. then = SlotsIn(start)
    BY DEF Slots, SlotsIn
  <2>7. \A slot \in SlotsIn(d) : Data(slot.rank) = Held(prob, start, slot.rank, d)
    BY <2>1, <2>4, SlotIs DEF DataHeld
  <2> HIDE DEF now, then
  <2>8. {Data(slot.rank)[slot.addr] : slot \in now}
          = {Held(prob, start, slot.rank, d)[slot.addr] : slot \in SlotsIn(d)}
    BY <2>5, <2>7
  <2>9. /\ {Data(slot.rank)[slot.addr] : slot \in now} = then
        /\ Cardinality(now) = Cardinality(then)
    BY <2>1, <2>5, <2>6, <2>8, SlotsCorrespond
  <2> QED BY <2>9 DEF now, then
<1> QED BY <1>1, DataInvariant, PTL

---------------------------------------------------------------------------
(* The extents and strides that callers are told.                          *)

\* Strides address each element of a rank's pencil once and nothing else: for
\* every problem, grid and storage order.
THEOREM StridesTellElements == Spec => []AddressesTellElements
<1>1. TypeOK => AddressesTellElements
  <2> SUFFICES ASSUME TypeOK, NEW i \in Directions, NEW r \in Ranks(prob)
               PROVE  LET here == {ElementAt(prob, r, i, addr) : addr \in Pencil(prob, r, i)}
                      IN  /\ \A x \in here : Holds(prob, r, i, x)
                          /\ Cardinality(here) = Extent(prob, r, i)
    BY DEF AddressesTellElements
  <2> DEFINE place == Pencil(prob, r, i)
             f     == [addr \in place |-> ElementAt(prob, r, i, addr)]
             here  == {ElementAt(prob, r, i, addr) : addr \in place}
  <2>1. prob \in WellFormed
    BY ProblemFits
  <2>2. \A addr \in place : Holds(prob, r, i, f[addr])
    BY <2>1, AddressesApart
  <2>3. \A addr, other \in place : f[addr] = f[other] => addr = other
    BY <2>1, AddressesApart
  <2>4. f \in [place -> here] /\ \A x \in here : \E addr \in place : f[addr] = x
    OBVIOUS
  <2>5. Extent(prob, r, i) \in Nat
    <3>1. \A k \in 0..3 : Size(prob, r, i, k) \in Nat
      BY <2>1, SizeType DEF Indices
    <3> QED BY <3>1 DEF Extent
  <2>6. IsFiniteSet(place) /\ Cardinality(place) = Extent(prob, r, i)
    <3>1. PICK n \in Nat : n = Extent(prob, r, i)
      BY <2>5
    <3>2. 0 \in Int /\ n - 1 \in Int /\ (IF 0 > n - 1 THEN 0 ELSE n - 1 - 0 + 1) = n
      OBVIOUS
    <3>3. place = 0 .. n - 1
      BY <3>1 DEF Pencil
    <3> HIDE DEF place
    <3> QED BY <3>1, <3>2, <3>3, FS_Interval
  <2> HIDE DEF place, f, here
  <2>7. f \in Bijection(place, here)
    BY <2>3, <2>4, Fun_IsBij
  <2>8. ExistsBijection(place, here)
    BY <2>7 DEF ExistsBijection
  <2>9. Cardinality(here) = Extent(prob, r, i)
    BY <2>6, <2>8, FS_Bijection
  <2>10. \A x \in here : Holds(prob, r, i, x)
    BY <2>2, <2>4
  <2> QED BY <2>9, <2>10 DEF here, place
<1> QED BY <1>1, DataInvariant, PTL DEF DInv, MInv

---------------------------------------------------------------------------
(* The order of rows.                                                      *)

\* From long in n2 to long in n1 elements stay where the extents say, when one
\* process has all rows of n1 or no rank has two planes of n0.
LEMMA PlaceKeptOverA ==
  ASSUME NEW p \in WellFormed, NEW r \in Ranks(p),
         p.pA = 1 \/ DefaultBlock(p.n[0], p.pB) = 1,
         NEW addr \in Pencil(p, r, 1),
         NEW x, x = Pulls(p, <<2, 1>>, r)[addr]
  PROVE  ElementAt(p, x.rank, 2, x.addr) = ElementAt(p, r, 1, addr)
<1>1. PICK h, n1, n2, pA, k, b1, b2, s0, s2 :
        /\ h = p.howmany /\ n1 = p.n[1] /\ n2 = p.n[2] /\ pA = p.pA /\ k = r.a
        /\ b1 = DefaultBlock(p.n[1], p.pA) /\ b2 = DefaultBlock(p.n[2], p.pA)
        /\ s0 = Size(p, r, 1, 0) /\ s2 = Size(p, r, 1, 2)
  OBVIOUS
<1>2. /\ h \in Nat /\ n1 \in Nat \ {0} /\ n2 \in Nat \ {0} /\ pA \in Nat \ {0}
      /\ k \in Nat /\ b1 \in Nat /\ b2 \in Nat /\ s0 \in Nat /\ s2 \in Nat
  <2>1. /\ h \in Nat /\ n1 \in Nat \ {0} /\ n2 \in Nat \ {0} /\ pA \in Nat \ {0} /\ k \in Nat
    BY <1>1 DEF WellFormed, Directions, Ranks
  <2>2. b1 \in Nat /\ b2 \in Nat
    BY <1>1, <2>1, DefaultBlockBounds
  <2>3. s0 \in Nat /\ s2 \in Nat
    BY <1>1, SizeType DEF Directions, Indices
  <2> QED BY <2>1, <2>2, <2>3
<1>3. /\ Size(p, r, 1, 3) = h /\ Size(p, r, 1, 1) = n1
      /\ Size(p, r, 2, 0) = s0 /\ s2 = LocalRows(n2, b2, k)
      /\ s0 = LocalRows(p.n[0], DefaultBlock(p.n[0], p.pB), r.b)
  BY <1>1 DEF Size, SplitOverB
<1> DEFINE y == [d \in Indices |-> (addr \div Stride(p, r, 1, d)) % Size(p, r, 1, d)]
<1>4. PICK f, i0, i1, i2 : f = y[3] /\ i0 = y[0] /\ i1 = y[1] /\ i2 = y[2]
  OBVIOUS
<1>5. ElementAt(p, r, 1, addr) = [d \in Indices |-> Start(p, r, 1, d) + y[d]]
  BY DEF ElementAt
<1>6. /\ f \in 0 .. h - 1 /\ i0 \in 0 .. s0 - 1 /\ i1 \in 0 .. n1 - 1 /\ i2 \in 0 .. s2 - 1
      /\ addr = ((i2 * s0 + i0) * n1 + i1) * h + f
  <2> DEFINE o == Order(p, 1)
  <2>1. /\ 1 \in Directions /\ o[1] = 3 /\ o[2] = 1 /\ o[3] = 0 /\ o[4] = 2
        /\ o[1] \in Indices /\ o[2] \in Indices /\ o[3] \in Indices /\ o[4] \in Indices
    BY DEF Order, Directions, Indices
  <2>2. /\ \A d \in Indices : y[d] \in 0 .. Size(p, r, 1, d) - 1
        /\ addr = ((y[o[4]] * Size(p, r, 1, o[3]) + y[o[3]]) * Size(p, r, 1, o[2]) + y[o[2]])
                    * Size(p, r, 1, o[1]) + y[o[1]]
    BY <2>1, AddressParts
  <2> HIDE DEF y, o
  <2> QED BY <1>1, <1>3, <1>4, <2>1, <2>2
<1> HIDE DEF y

\* The source of the transpose.
<1>7. PICK row : row = i0 * n1 + i1
  OBVIOUS
<1>8. row \in 0 .. s0 * n1 - 1
  BY <1>2, <1>6, <1>7, PlaceHasCell
<1>9. PICK d0 \in Nat : d0 = s0 * n1
  BY <1>2
<1>10. PICK cell \in Nat : cell = i2 * d0 + row
  BY <1>2, <1>6, <1>8, <1>9
<1>11. cell \div d0 = i2 /\ cell % d0 = row
  <2>1. d0 \in Nat \ {0} /\ row \in Nat /\ row < d0 /\ i2 \in Nat
    BY <1>2, <1>6, <1>8, <1>9
  <2> QED BY <1>10, <2>1, DivMod
<1>12. addr \div h = cell /\ addr % h = f
  <2>1. cell = (i2 * s0 + i0) * n1 + i1
    <3>1. i2 * (s0 * n1) = (i2 * s0) * n1 /\ i2 * s0 \in Nat /\ i2 \in Nat /\ i0 \in Nat
      BY <1>2, <1>6
    <3>2. (i2 * s0 + i0) * n1 = (i2 * s0) * n1 + i0 * n1
      BY <1>2, <3>1
    <3>3. i0 * n1 \in Int /\ i1 \in Int /\ (i2 * s0) * n1 \in Int
      BY <1>2, <1>6, <3>1
    <3> QED BY <1>7, <1>9, <1>10, <3>1, <3>2, <3>3
  <2>2. addr = cell * h + f /\ h \in Nat \ {0} /\ f \in Nat /\ f < h
    BY <1>2, <1>6, <2>1
  <2> QED BY <2>2, DivMod
<1>13. PICK from : from = row \div (s0 * b1)
  OBVIOUS
<1>14. PICK share : share = LocalRows(n1, b1, from)
  OBVIOUS
<1>15. PICK j1 : j1 = i1 - from * b1
  OBVIOUS
<1>16. /\ from \in Nat /\ j1 \in 0 .. share - 1
       /\ row - from * (s0 * b1) = i0 * share + j1
  <2>1. pA = 1 \/ s0 = 1
    <3>1. CASE DefaultBlock(p.n[0], p.pB) = 1
      <4>1. p.n[0] \in Nat /\ r.b \in Nat
        BY DEF WellFormed, Directions, Ranks
      <4>2. LocalRows(p.n[0], 1, r.b) <= 1
        BY <4>1, LocalRowsType
      <4>3. s0 <= 1 /\ s0 >= 1
        BY <1>2, <1>3, <1>6, <3>1, <4>2
      <4> QED BY <1>2, <4>3
    <3> QED BY <1>1, <3>1
  <2>2. b1 = DefaultBlock(n1, pA)
    BY <1>1
  <2>3. n1 \in Nat \ {0} /\ pA \in Nat \ {0} /\ s0 \in Nat
    BY <1>2
  <2>4. DealtWhole(n1, pA, b1, s0, i0, i1, row, from)
    BY <1>6, <1>7, <1>13, <2>1, <2>2 DEF DealtWhole
  <2>5. /\ from \in Nat
        /\ i1 - from * b1 \in 0 .. share - 1
        /\ row - from * (s0 * b1) = i0 * share + (i1 - from * b1)
    BY <1>14, <2>3, <2>4, SplitKept
  <2> QED BY <1>15, <2>5
<1>17. PICK col : col = k * b2 + i2
  OBVIOUS
<1>18. col \in 0 .. n2 - 1
  BY <1>2, <1>3, <1>6, <1>17, LineHasRow
<1>19. PICK q : q = [r EXCEPT !.a = from]
  OBVIOUS
<1>20. /\ q.a = from /\ q.b = r.b /\ q \in Ranks(p) /\ x.rank = q
       /\ x.addr = f + h * IF p.tn2 THEN col * LocalIn(BackwardA(p, r), from) + (i0 * share + j1)
                                    ELSE (i0 * share + j1) * n2 + col
  <2> DEFINE t == BackwardA(p, r)
  <2>1. t = [d0 |-> d0, d1 |-> n2, block0 |-> s0 * b1, block1 |-> b2, howmany |-> h,
             tin |-> p.tn2, tout |-> FALSE]
    BY <1>1, <1>3, <1>9, BackwardShape
  <2>2. /\ t.d0 = d0 /\ t.d1 = n2 /\ t.block0 = s0 * b1 /\ t.block1 = b2 /\ t.howmany = h
        /\ t.tin = p.tn2 /\ t.tout = FALSE
    BY <2>1
  <2>3. /\ TransposeOf(p, r, <<2, 1>>) = t /\ RankIn(<<2, 1>>, r) = k
        /\ OverA(<<2, 1>>) /\ <<2, 1>>[2] = 1 /\ <<2, 1>> \in Ways
    BY <1>1, WayTransposes DEF RankIn, OverA, Ways
  <2> HIDE DEF t
  <2>4. Source(t, k, addr) =
          [rank |-> from,
           addr |-> f + h * IF p.tn2 THEN col * LocalIn(t, from) + (i0 * share + j1)
                                     ELSE (i0 * share + j1) * n2 + col]
    BY <1>11, <1>12, <1>13, <1>16, <1>17, <2>2 DEF Source
  <2>5. x = [rank |-> Peer(<<2, 1>>, r, from), addr |-> Source(t, k, addr).addr]
    BY <2>3, <2>4 DEF Pulls
  <2>6. Peer(<<2, 1>>, r, from) = q
    BY <1>19, <2>3 DEF Peer
  <2>7. x.rank \in Ranks(p)
    BY <2>3, PullsGoBack
  <2>8. q.a = from /\ q.b = r.b
    BY <1>19 DEF Ranks
  <2> QED BY <2>4, <2>5, <2>6, <2>7, <2>8 DEF t
<1>21. /\ Size(p, q, 2, 3) = h /\ Size(p, q, 2, 2) = n2 /\ Size(p, q, 2, 0) = s0
       /\ Size(p, q, 2, 1) = share
  BY <1>1, <1>3, <1>14, <1>20 DEF Size, SplitOverB

\* What the extents say of it.
<1>22. PICK e : e = [d \in Indices |-> CASE d = 0 -> i0 [] d = 1 -> j1 [] d = 2 -> col [] d = 3 -> f]
  OBVIOUS
<1>23. /\ e[0] = i0 /\ e[1] = j1 /\ e[2] = col /\ e[3] = f
       /\ \A d \in Indices : e[d] \in 0 .. Size(p, q, 2, d) - 1
  BY <1>6, <1>16, <1>18, <1>21, <1>22 DEF Indices
<1>24. ElementAt(p, q, 2, x.addr) = [d \in Indices |-> Start(p, q, 2, d) + e[d]]
  <2>1. PICK o : o = Order(p, 2)
    OBVIOUS
  <2>2. share \in Nat /\ f \in Int /\ j1 \in Int /\ i0 \in Int /\ col \in Int
    <3>1. share \in Nat
      BY <1>2, <1>14, <1>16, LocalRowsType
    <3> QED BY <3>1, <1>6, <1>16, <1>18
  <2>3. CASE p.tn2
    <3>1. o[1] = 3 /\ o[2] = 1 /\ o[3] = 0 /\ o[4] = 2
      BY <2>1, <2>3 DEF Order
    <3>2. LocalIn(BackwardA(p, r), from) = s0 * share
      <4>1. BackwardA(p, r).d0 = s0 * n1 /\ BackwardA(p, r).block0 = s0 * b1
        BY <1>1, <1>3, BackwardShape
      <4> QED BY <1>2, <1>14, <1>16, <4>1, LocalRowsScale DEF LocalIn
    <3>3. x.addr = ((col * s0 + i0) * share + j1) * h + f
      <4>1. x.addr = f + h * (col * (s0 * share) + (i0 * share + j1))
        BY <1>20, <2>3, <3>2
      <4>2. col * (s0 * share) + (i0 * share + j1) = (col * s0 + i0) * share + j1
        BY <1>2, <2>2
      <4>3. PICK m \in Int : m = (col * s0 + i0) * share + j1
        BY <1>2, <2>2
      <4>4. f + h * m = m * h + f
        BY <1>2, <2>2
      <4> QED BY <4>1, <4>2, <4>3, <4>4
    <3>4. x.addr = ((e[o[4]] * Size(p, q, 2, o[3]) + e[o[3]]) * Size(p, q, 2, o[2]) + e[o[2]])
                     * Size(p, q, 2, o[1]) + e[o[1]]
      BY <1>21, <1>23, <3>1, <3>3
    <3> QED BY <1>20, <1>23, <2>1, <3>4, ElementMade DEF Directions
  <2>4. CASE ~p.tn2
    <3>1. o[1] = 3 /\ o[2] = 2 /\ o[3] = 1 /\ o[4] = 0
      BY <2>1, <2>4 DEF Order
    <3>2. x.addr = ((i0 * share + j1) * n2 + col) * h + f
      <4>1. x.addr = f + h * ((i0 * share + j1) * n2 + col)
        BY <1>20, <2>4
      <4>2. PICK m \in Int : m = (i0 * share + j1) * n2 + col
        BY <1>2, <2>2
      <4>3. f + h * m = m * h + f
        BY <1>2, <2>2
      <4> QED BY <4>1, <4>2, <4>3
    <3>3. x.addr = ((e[o[4]] * Size(p, q, 2, o[3]) + e[o[3]]) * Size(p, q, 2, o[2]) + e[o[2]])
                     * Size(p, q, 2, o[1]) + e[o[1]]
      BY <1>21, <1>23, <3>1, <3>2
    <3> QED BY <1>20, <1>23, <2>1, <3>3, ElementMade DEF Directions
  <2> QED BY <2>3, <2>4
<1>25. /\ Start(p, q, 2, 3) = 0 /\ Start(p, r, 1, 3) = 0
       /\ Start(p, q, 2, 2) = 0 /\ Start(p, r, 1, 2) = k * b2
       /\ Start(p, q, 2, 1) = from * b1 /\ Start(p, r, 1, 1) = 0
       /\ Start(p, q, 2, 0) = Start(p, r, 1, 0)
  BY <1>1, <1>20 DEF Start, SplitOverB
<1>26. \A d \in Indices :
         Start(p, q, 2, d) + e[d] = Start(p, r, 1, d) + y[d]
  <2>1. 0 + col = k * b2 + i2 /\ from * b1 + j1 = 0 + i1
    BY <1>2, <1>6, <1>15, <1>16, <1>17
  <2> QED BY <1>4, <1>23, <1>25, <2>1 DEF Indices
<1> QED BY <1>5, <1>20, <1>24, <1>26

\* From long in n1 to long in n0 they stay when one process has all rows of n0 or
\* no rank has two planes of n2, as none may when the data is left transposed.
LEMMA PlaceKeptOverB ==
  ASSUME NEW p \in WellFormed, NEW r \in Ranks(p),
         p.pB = 1 \/ DefaultBlock(p.n[2], p.pA) = 1,
         p.tn0 => DefaultBlock(p.n[2], p.pA) = 1,
         NEW addr \in Pencil(p, r, 0),
         NEW x, x = Pulls(p, <<1, 0>>, r)[addr]
  PROVE  ElementAt(p, x.rank, 1, x.addr) = ElementAt(p, r, 0, addr)
<1>1. PICK h, n0, n1, pB, k, b0, b1, s1, s2 :
        /\ h = p.howmany /\ n0 = p.n[0] /\ n1 = p.n[1] /\ pB = p.pB /\ k = r.b
        /\ b0 = DefaultBlock(p.n[0], p.pB) /\ b1 = DefaultBlock(p.n[1], p.pB)
        /\ s1 = Size(p, r, 0, 1) /\ s2 = Size(p, r, 0, 2)
  OBVIOUS
<1>2. /\ h \in Nat /\ n0 \in Nat \ {0} /\ n1 \in Nat \ {0} /\ pB \in Nat \ {0}
      /\ k \in Nat /\ b0 \in Nat /\ b1 \in Nat /\ s1 \in Nat /\ s2 \in Nat
  <2>1. /\ h \in Nat /\ n0 \in Nat \ {0} /\ n1 \in Nat \ {0} /\ pB \in Nat \ {0} /\ k \in Nat
    BY <1>1 DEF WellFormed, Directions, Ranks
  <2>2. b0 \in Nat /\ b1 \in Nat
    BY <1>1, <2>1, DefaultBlockBounds
  <2>3. s1 \in Nat /\ s2 \in Nat
    BY <1>1, SizeType DEF Directions, Indices
  <2> QED BY <2>1, <2>2, <2>3
<1>3. /\ Size(p, r, 0, 3) = h /\ Size(p, r, 0, 0) = n0
      /\ Size(p, r, 1, 2) = s2 /\ s1 = LocalRows(n1, b1, k)
      /\ s2 = LocalRows(p.n[2], DefaultBlock(p.n[2], p.pA), r.a)
  BY <1>1 DEF Size, SplitOverB
<1> DEFINE y == [d \in Indices |-> (addr \div Stride(p, r, 0, d)) % Size(p, r, 0, d)]
<1>4. PICK f, i0, i1, i2 : f = y[3] /\ i0 = y[0] /\ i1 = y[1] /\ i2 = y[2]
  OBVIOUS
<1>5. ElementAt(p, r, 0, addr) = [d \in Indices |-> Start(p, r, 0, d) + y[d]]
  BY DEF ElementAt
<1>6. /\ f \in 0 .. h - 1 /\ i0 \in 0 .. n0 - 1 /\ i1 \in 0 .. s1 - 1 /\ i2 \in 0 .. s2 - 1
      /\ addr = IF p.tn0 THEN ((i0 * s1 + i1) * s2 + i2) * h + f
                         ELSE ((i1 * s2 + i2) * n0 + i0) * h + f
  <2> DEFINE o == Order(p, 0)
  <2>1. /\ 0 \in Directions /\ o[1] = 3
        /\ IF p.tn0 THEN o[2] = 2 /\ o[3] = 1 /\ o[4] = 0 ELSE o[2] = 0 /\ o[3] = 2 /\ o[4] = 1
        /\ o[1] \in Indices /\ o[2] \in Indices /\ o[3] \in Indices /\ o[4] \in Indices
    BY DEF Order, Directions, Indices
  <2>2. /\ \A d \in Indices : y[d] \in 0 .. Size(p, r, 0, d) - 1
        /\ addr = ((y[o[4]] * Size(p, r, 0, o[3]) + y[o[3]]) * Size(p, r, 0, o[2]) + y[o[2]])
                    * Size(p, r, 0, o[1]) + y[o[1]]
    BY <2>1, AddressParts
  <2>3. 0 \in Indices /\ 1 \in Indices /\ 2 \in Indices /\ 3 \in Indices
    BY DEF Indices
  <2> HIDE DEF y, o
  <2>4. CASE p.tn0
    BY <1>1, <1>3, <1>4, <2>1, <2>2, <2>3, <2>4
  <2>5. CASE ~p.tn0
    BY <1>1, <1>3, <1>4, <2>1, <2>2, <2>3, <2>5
  <2> QED BY <2>4, <2>5
<1> HIDE DEF y

\* One plane of n2.
<1>7. DefaultBlock(p.n[2], p.pA) = 1 => s2 = 1 /\ i2 = 0
  <2> SUFFICES ASSUME DefaultBlock(p.n[2], p.pA) = 1 PROVE s2 = 1 /\ i2 = 0
    OBVIOUS
  <2>1. p.n[2] \in Nat /\ r.a \in Nat
    BY DEF WellFormed, Directions, Ranks
  <2>2. LocalRows(p.n[2], 1, r.a) <= 1
    BY <2>1, LocalRowsType
  <2>3. s2 <= 1 /\ s2 >= 1
    BY <1>2, <1>3, <1>6, <2>2
  <2> QED BY <1>2, <1>6, <2>3

\* The source of the transpose.
<1>8. PICK row : row = i2 * n0 + i0
  OBVIOUS
<1>9. row \in 0 .. s2 * n0 - 1
  BY <1>2, <1>6, <1>8, PlaceHasCell
<1>10. PICK d0 \in Nat : d0 = s2 * n0
  BY <1>2
<1>11. PICK cell : /\ cell \in Nat /\ addr \div h = cell /\ addr % h = f
                   /\ row = IF p.tn0 THEN cell \div s1 ELSE cell % d0
                   /\ i1 = IF p.tn0 THEN cell % s1 ELSE cell \div d0
  <2>1. CASE p.tn0
    <3>1. s2 = 1 /\ i2 = 0
      BY <1>7, <2>1
    <3>2. PICK c \in Nat : c = i0 * s1 + i1
      BY <1>2, <1>6
    <3>3. row = i0
      BY <1>2, <1>6, <1>8, <3>1
    <3>4. addr = c * h + f /\ h \in Nat \ {0} /\ f \in Nat /\ f < h
      <4>1. (i0 * s1 + i1) * s2 + i2 = c
        BY <3>1, <3>2
      <4> QED BY <1>2, <1>6, <2>1, <4>1
    <3>5. addr \div h = c /\ addr % h = f
      BY <3>4, DivMod
    <3>6. c \div s1 = i0 /\ c % s1 = i1
      <4>1. s1 \in Nat \ {0} /\ i1 \in Nat /\ i1 < s1 /\ i0 \in Nat
        BY <1>2, <1>6
      <4> QED BY <3>2, <4>1, DivMod
    <3> QED BY <2>1, <3>3, <3>5, <3>6
  <2>2. CASE ~p.tn0
    <3>1. PICK c \in Nat : c = i1 * d0 + row
      BY <1>2, <1>6, <1>9, <1>10
    <3>2. c \div d0 = i1 /\ c % d0 = row
      <4>1. d0 \in Nat \ {0} /\ row \in Nat /\ row < d0 /\ i1 \in Nat
        BY <1>2, <1>6, <1>9, <1>10
      <4> QED BY <3>1, <4>1, DivMod
    <3>3. c = (i1 * s2 + i2) * n0 + i0
      <4>1. i1 * (s2 * n0) = (i1 * s2) * n0 /\ i1 * s2 \in Nat /\ i1 \in Nat /\ i2 \in Nat
        BY <1>2, <1>6
      <4>2. (i1 * s2 + i2) * n0 = (i1 * s2) * n0 + i2 * n0
        BY <1>2, <4>1
      <4>3. i2 * n0 \in Int /\ i0 \in Int /\ (i1 * s2) * n0 \in Int
        BY <1>2, <1>6, <4>1
      <4> QED BY <1>8, <1>10, <3>1, <4>1, <4>2, <4>3
    <3>4. addr = c * h + f /\ h \in Nat \ {0} /\ f \in Nat /\ f < h
      BY <1>2, <1>6, <2>2, <3>3
    <3>5. addr \div h = c /\ addr % h = f
      BY <3>4, DivMod
    <3> QED BY <2>2, <3>2, <3>5
  <2> QED BY <2>1, <2>2
<1>12. PICK from : from = row \div (s2 * b0)
  OBVIOUS
<1>13. PICK share : share = LocalRows(n0, b0, from)
  OBVIOUS
<1>14. PICK j0 : j0 = i0 - from * b0
  OBVIOUS
<1>15. /\ from \in Nat /\ j0 \in 0 .. share - 1
       /\ row - from * (s2 * b0) = i2 * share + j0
  <2>1. pB = 1 \/ s2 = 1
    BY <1>1, <1>7
  <2>2. b0 = DefaultBlock(n0, pB)
    BY <1>1
  <2>3. n0 \in Nat \ {0} /\ pB \in Nat \ {0} /\ s2 \in Nat
    BY <1>2
  <2>4. DealtWhole(n0, pB, b0, s2, i2, i0, row, from)
    BY <1>6, <1>8, <1>12, <2>1, <2>2 DEF DealtWhole
  <2>5. /\ from \in Nat
        /\ i0 - from * b0 \in 0 .. share - 1
        /\ row - from * (s2 * b0) = i2 * share + (i0 - from * b0)
    BY <1>13, <2>3, <2>4, SplitKept
  <2> QED BY <1>14, <2>5
<1>16. PICK col : col = k * b1 + i1
  OBVIOUS
<1>17. col \in 0 .. n1 - 1
  BY <1>2, <1>3, <1>6, <1>16, LineHasRow
<1>18. PICK q : q = [r EXCEPT !.b = from]
  OBVIOUS
<1>19. /\ q.b = from /\ q.a = r.a /\ q \in Ranks(p) /\ x.rank = q
       /\ x.addr = f + h * ((i2 * share + j0) * n1 + col)
  <2> DEFINE t == BackwardB(p, r)
  <2>1. t = [d0 |-> d0, d1 |-> n1, block0 |-> s2 * b0, block1 |-> b1, howmany |-> h,
             tin |-> FALSE, tout |-> p.tn0]
    BY <1>1, <1>3, <1>10, BackwardShape
  <2>2. /\ t.d0 = d0 /\ t.d1 = n1 /\ t.block0 = s2 * b0 /\ t.block1 = b1 /\ t.howmany = h
        /\ t.tin = FALSE /\ t.tout = p.tn0
    BY <2>1
  <2>3. /\ TransposeOf(p, r, <<1, 0>>) = t /\ RankIn(<<1, 0>>, r) = k
        /\ ~OverA(<<1, 0>>) /\ <<1, 0>>[2] = 0 /\ <<1, 0>> \in Ways
    BY <1>1, WayTransposes DEF RankIn, OverA, Ways
  <2>4. LocalOut(t, k) = s1
    BY <1>1, Shares
  <2> HIDE DEF t
  <2>5. Source(t, k, addr) =
          [rank |-> from, addr |-> f + h * ((i2 * share + j0) * n1 + col)]
    BY <1>11, <1>12, <1>15, <1>16, <2>4, <2>2 DEF Source
  <2>6. x = [rank |-> Peer(<<1, 0>>, r, from), addr |-> Source(t, k, addr).addr]
    BY <2>3, <2>5 DEF Pulls
  <2>7. Peer(<<1, 0>>, r, from) = q
    BY <1>18, <2>3 DEF Peer
  <2>8. x.rank \in Ranks(p)
    BY <2>3, PullsGoBack
  <2>9. q.b = from /\ q.a = r.a
    BY <1>18 DEF Ranks
  <2> QED BY <2>5, <2>6, <2>7, <2>8, <2>9 DEF t
<1>20. /\ Size(p, q, 1, 3) = h /\ Size(p, q, 1, 1) = n1 /\ Size(p, q, 1, 2) = s2
       /\ Size(p, q, 1, 0) = share
  BY <1>1, <1>3, <1>13, <1>19 DEF Size, SplitOverB

\* What the extents say of it.
<1>21. PICK e : e = [d \in Indices |-> CASE d = 0 -> j0 [] d = 1 -> col [] d = 2 -> i2 [] d = 3 -> f]
  OBVIOUS
<1>22. /\ e[0] = j0 /\ e[1] = col /\ e[2] = i2 /\ e[3] = f
       /\ \A d \in Indices : e[d] \in 0 .. Size(p, q, 1, d) - 1
  BY <1>6, <1>15, <1>17, <1>20, <1>21 DEF Indices
<1>23. ElementAt(p, q, 1, x.addr) = [d \in Indices |-> Start(p, q, 1, d) + e[d]]
  <2>1. PICK o : o = Order(p, 1)
    OBVIOUS
  <2>2. o[1] = 3 /\ o[2] = 1 /\ o[3] = 0 /\ o[4] = 2
    BY <2>1 DEF Order
  <2>3. x.addr = ((i2 * share + j0) * n1 + col) * h + f
    <3>1. share \in Nat
      BY <1>2, <1>13, <1>15, LocalRowsType
    <3>2. f \in Int /\ j0 \in Int /\ i2 \in Int /\ col \in Int
      BY <1>6, <1>15, <1>17
    <3>3. PICK m \in Int : m = (i2 * share + j0) * n1 + col
      BY <1>2, <3>1, <3>2
    <3>4. f + h * m = m * h + f
      BY <1>2, <3>2
    <3> QED BY <1>19, <3>3, <3>4
  <2>4. x.addr = ((e[o[4]] * Size(p, q, 1, o[3]) + e[o[3]]) * Size(p, q, 1, o[2]) + e[o[2]])
                   * Size(p, q, 1, o[1]) + e[o[1]]
    BY <1>20, <1>22, <2>2, <2>3
  <2> QED BY <1>19, <1>22, <2>1, <2>4, ElementMade DEF Directions
<1>24. /\ Start(p, q, 1, 3) = 0 /\ Start(p, r, 0, 3) = 0
       /\ Start(p, q, 1, 0) = from * b0 /\ Start(p, r, 0, 0) = 0
       /\ Start(p, q, 1, 1) = 0 /\ Start(p, r, 0, 1) = k * b1
       /\ Start(p, q, 1, 2) = Start(p, r, 0, 2)
  BY <1>1, <1>19 DEF Start, SplitOverB
<1>25. \A d \in Indices : Start(p, q, 1, d) + e[d] = Start(p, r, 0, d) + y[d]
  <2>1. 0 + col = k * b1 + i1 /\ from * b0 + j0 = 0 + i0
    BY <1>2, <1>6, <1>14, <1>15, <1>16
  <2> QED BY <1>4, <1>22, <1>24, <2>1 DEF Indices
<1> QED BY <1>5, <1>19, <1>23, <1>25

\* Whichever way data goes, on grids that keep the order of rows.
LEMMA PlaceKept ==
  ASSUME NEW p \in WellFormed, KeepsOrder(p), NEW w \in Ways, NEW r \in Ranks(p),
         NEW addr \in Pencil(p, r, w[2]),
         NEW x, x = Pulls(p, w, r)[addr]
  PROVE  ElementAt(p, x.rank, w[1], x.addr) = ElementAt(p, r, w[2], addr)
<1>1. /\ p.pA = 1 \/ DefaultBlock(p.n[0], p.pB) = 1
      /\ p.pB = 1 \/ DefaultBlock(p.n[2], p.pA) = 1
      /\ p.tn0 => DefaultBlock(p.n[2], p.pA) = 1
  BY DEF KeepsOrder
<1>2. /\ x.rank \in Ranks(p) /\ x.addr \in Pencil(p, x.rank, w[1])
      /\ Pulls(p, Back(w), x.rank)[x.addr] = [rank |-> r, addr |-> addr]
  BY PullsGoBack
<1>3. PICK q \in Ranks(p) : q = x.rank
  BY <1>2
<1>4. PICK a \in Pencil(p, q, w[1]) : a = x.addr
  BY <1>2, <1>3
<1>5. PICK z : z = Pulls(p, Back(w), q)[a]
  OBVIOUS
<1>6. z.rank = r /\ z.addr = addr
  BY <1>2, <1>3, <1>4, <1>5
<1>7. CASE w = <<2, 1>>
  BY <1>1, <1>7, PlaceKeptOverA
<1>8. CASE w = <<1, 0>>
  BY <1>1, <1>8, PlaceKeptOverB
<1>9. CASE w = <<1, 2>>
  <2>1. z = Pulls(p, <<2, 1>>, q)[a] /\ a \in Pencil(p, q, 1)
    BY <1>4, <1>5, <1>9 DEF Back
  <2>2. ElementAt(p, z.rank, 2, z.addr) = ElementAt(p, q, 1, a)
    BY <1>1, <2>1, PlaceKeptOverA
  <2> QED BY <1>3, <1>4, <1>6, <1>9, <2>2
<1>10. CASE w = <<0, 1>>
  <2>1. z = Pulls(p, <<1, 0>>, q)[a] /\ a \in Pencil(p, q, 0)
    BY <1>4, <1>5, <1>10 DEF Back
  <2>2. ElementAt(p, z.rank, 1, z.addr) = ElementAt(p, q, 0, a)
    BY <1>1, <2>1, PlaceKeptOverB
  <2> QED BY <1>3, <1>4, <1>6, <1>10, <2>2
<1> QED BY <1>7, <1>8, <1>9, <1>10 DEF Ways

\* And by whatever route.
LEMMA HeldInPlace ==
  ASSUME NEW p \in WellFormed, KeepsOrder(p), NEW s \in Directions, NEW d \in Directions,
         NEW r \in Ranks(p), NEW addr \in Pencil(p, r, d),
         NEW x, x = Held(p, s, r, d)[addr]
  PROVE  ElementAt(p, x.rank, s, x.addr) = ElementAt(p, r, d, addr)
<1>1. CASE s = d
  BY <1>1, NoWayHome DEF Held
<1>2. CASE s # d /\ <<s, d>> \in Ways
  <2>1. PICK w \in Ways : w = <<s, d>>
    BY <1>2
  <2>2. w[1] = s /\ w[2] = d /\ x = Pulls(p, w, r)[addr]
    BY <1>2, <2>1 DEF Held
  <2> QED BY <2>2, PlaceKept
<1>3. CASE s # d /\ <<s, d>> \notin Ways
  <2>1. PICK v \in Ways, w \in Ways : v = <<s, 1>> /\ w = <<1, d>>
    BY <1>3, DirectionPairs
  <2>2. PICK z : z = Pulls(p, w, r)[addr]
    OBVIOUS
  <2>3. v[1] = s /\ v[2] = 1 /\ w[1] = 1 /\ w[2] = d
    BY <2>1
  <2>4. z.rank \in Ranks(p) /\ z.addr \in Pencil(p, z.rank, 1)
    BY <2>2, <2>3, PullsGoBack
  <2>5. x = Pulls(p, v, z.rank)[z.addr]
    <3>1. addr \in DOMAIN Pulls(p, w, r)
      BY <2>3 DEF Pulls
    <3> QED BY <1>3, <2>1, <2>2, <3>1 DEF Held
  <2>6. ElementAt(p, z.rank, 1, z.addr) = ElementAt(p, r, d, addr)
    BY <2>2, <2>3, PlaceKept
  <2>7. ElementAt(p, x.rank, s, x.addr) = ElementAt(p, z.rank, 1, z.addr)
    BY <2>3, <2>4, <2>5, PlaceKept
  <2> QED BY <2>6, <2>7
<1> QED BY <1>1, <1>2, <1>3

\* On grids that keep the order of rows the element stored at an address is the
\* one the extents place there: after any calls, at any skew of the ranks, in
\* all storage orders, in place or not.
THEOREM DataLongWhenOrderKept == Spec => []LongWhenOrderKept
<1>1. DInv => LongWhenOrderKept
  <2> SUFFICES ASSUME DInv, KeepsOrder(prob), NEW r \in Ranks(prob),
                      NEW addr \in Pencil(prob, r, at[r].dir)
               PROVE  LET x == Data(r)[addr] IN
                      /\ x # Junk
                      /\ ElementAt(prob, r, at[r].dir, addr)
                           = ElementAt(prob, x.rank, start, x.addr)
    BY DEF LongWhenOrderKept, DataIsLong
  <2>1. /\ prob \in WellFormed /\ prob \in Problems /\ start \in Directions /\ DataHeld
        /\ at[r].dir \in Directions
    BY ProblemFits DEF DInv, MInv, TypeOK, CallsTyped
  <2>2. PICK d \in Directions : d = at[r].dir
    BY <2>1
  <2>3. PICK x : x = Held(prob, start, r, d)[addr]
    OBVIOUS
  <2>4. Data(r)[addr] = x
    BY <2>1, <2>2, <2>3 DEF DataHeld
  <2>5. addr \in Pencil(prob, r, d)
    BY <2>2
  <2>6. /\ x = [rank |-> x.rank, addr |-> x.addr]
        /\ x.rank \in Ranks(prob) /\ x.addr \in Pencil(prob, x.rank, start)
    BY <2>1, <2>3, <2>5, HeldGoesBack
  <2>7. x # Junk
    BY <2>1, <2>6, JunkAssumption
  <2>8. ElementAt(prob, x.rank, start, x.addr) = ElementAt(prob, r, d, addr)
    BY <2>1, <2>3, <2>5, HeldInPlace
  <2> QED BY <2>2, <2>4, <2>7, <2>8
<1> QED BY <1>1, DataInvariant, PTL

---------------------------------------------------------------------------
(* The memory queries.                                                     *)

\* f[x] copies of each x of S: a sum over S counts them.
Counted(S, f) == UNION {{x} \X (0 .. f[x] - 1) : x \in S}

\* What they are.
LEMMA CountedIs ==
  ASSUME NEW S, NEW f
  PROVE  \A x, k : <<x, k>> \in Counted(S, f) <=> x \in S /\ k \in 0 .. f[x] - 1
BY DEF Counted

\* They are finitely many.
LEMMA FiniteCounted ==
  ASSUME NEW S, IsFiniteSet(S), NEW f, \A x \in S : f[x] \in Nat
  PROVE  IsFiniteSet(Counted(S, f))
<1> DEFINE g == [x \in S |-> {x} \X (0 .. f[x] - 1)]
<1>1. ASSUME NEW x \in S PROVE IsFiniteSet(g[x])
  <2>1. IsFiniteSet(0 .. f[x] - 1) /\ IsFiniteSet({x})
    <3>1. 0 \in Int /\ f[x] - 1 \in Int
      OBVIOUS
    <3> QED BY <3>1, FS_Interval, FS_Singleton
  <2> QED BY <2>1, FS_Product
<1>2. Counted(S, f) = UNION {g[x] : x \in S}
  BY DEF Counted
<1> HIDE DEF g
<1>3. IsFiniteSet({g[x] : x \in S})
  BY FiniteImage
<1> QED BY <1>1, <1>2, <1>3, FS_UNION

\* One element of S after the other.
LEMMA CountedAdds ==
  ASSUME NEW S, IsFiniteSet(S), NEW f, \A x \in S : f[x] \in Nat, NEW x \in S
  PROVE  Cardinality(Counted(S, f)) = f[x] + Cardinality(Counted(S \ {x}, f))
<1> DEFINE X == {x} \X (0 .. f[x] - 1)
           R == Counted(S \ {x}, f)
<1>1. Counted(S, f) = X \cup R /\ X \cap R = {}
  BY DEF Counted
<1>2. IsFiniteSet(X) /\ Cardinality(X) = f[x]
  <2>1. PICK n \in Nat : n = f[x]
    OBVIOUS
  <2>2. 0 \in Int /\ n - 1 \in Int /\ (IF 0 > n - 1 THEN 0 ELSE n - 1 - 0 + 1) = n
    OBVIOUS
  <2>3. IsFiniteSet(0 .. n - 1) /\ Cardinality(0 .. n - 1) = n
    BY <2>2, FS_Interval
  <2>4. IsFiniteSet({x}) /\ Cardinality({x}) = 1
    BY FS_Singleton
  <2>5. IsFiniteSet({x} \X (0 .. n - 1)) /\ Cardinality({x} \X (0 .. n - 1)) = 1 * n
    BY <2>3, <2>4, FS_Product, SMTT(20)
  <2> QED BY <2>1, <2>5
<1>3. IsFiniteSet(R)
  <2>1. IsFiniteSet(S \ {x})
    BY FS_RemoveElement
  <2> QED BY <2>1, FiniteCounted
<1> HIDE DEF X, R
<1>4. Cardinality(X \cup R) = Cardinality(X) + Cardinality(R) - Cardinality(X \cap R)
  BY <1>2, <1>3, FS_Union
<1>5. Cardinality(R) \in Nat /\ Cardinality(X \cap R) = 0
  BY <1>1, <1>3, FS_CardinalityType, FS_EmptySet
<1> QED BY <1>1, <1>2, <1>4, <1>5 DEF R

\* What MapThenSumSet makes of the sums over smaller sets.
SumStep(S, f, g) ==
  [s \in SUBSET S |-> IF s = {} THEN 0
                      ELSE f[CHOOSE x \in s : TRUE] + g[s \ {CHOOSE x \in s : TRUE}]]

\* Counting is a solution of its recursion.
LEMMA SumExists ==
  ASSUME NEW S, IsFiniteSet(S), NEW f, \A x \in S : f[x] \in Nat
  PROVE  \E g : g = SumStep(S, f, g)
<1> DEFINE g == [s \in SUBSET S |-> Cardinality(Counted(s, f))]
<1>1. ASSUME NEW s \in SUBSET S, NEW x \in s
      PROVE  g[s] = f[x] + g[s \ {x}]
  <2>1. IsFiniteSet(s) /\ \A y \in s : f[y] \in Nat
    BY FS_Subset
  <2>2. Cardinality(Counted(s, f)) = f[x] + Cardinality(Counted(s \ {x}, f))
    BY <2>1, CountedAdds
  <2> QED BY <2>2
<1>2. g[{}] = 0
  <2>1. Counted({}, f) = {}
    BY DEF Counted
  <2> QED BY <2>1, FS_EmptySet
<1>3. g = [s \in SUBSET S |-> g[s]]
  OBVIOUS
<1> HIDE DEF g
<1>4. ASSUME NEW s \in SUBSET S
      PROVE  g[s] = IF s = {} THEN 0
                    ELSE f[CHOOSE x \in s : TRUE] + g[s \ {CHOOSE x \in s : TRUE}]
  <2>1. s # {} => (CHOOSE x \in s : TRUE) \in s
    OBVIOUS
  <2> QED BY <1>1, <1>2, <2>1
<1>5. g = SumStep(S, f, g)
  BY <1>3, <1>4 DEF SumStep
<1> QED BY <1>5

\* It is the only one: a smallest set of which another has the sum wrong has an
\* element to take away.
LEMMA SumCounts ==
  ASSUME NEW S, IsFiniteSet(S), NEW f, \A x \in S : f[x] \in Nat,
         NEW g, g = SumStep(S, f, g)
  PROVE  g[S] = Cardinality(Counted(S, f))
<1> DEFINE Right(s) == g[s] = Cardinality(Counted(s, f))
           W == {s \in SUBSET S : ~Right(s)}
           L == StrictSubsetOrdering(S)
<1>1. \A s \in SUBSET S : g[s] = IF s = {} THEN 0
        ELSE f[CHOOSE x \in s : TRUE] + g[s \ {CHOOSE x \in s : TRUE}]
  BY DEF SumStep
<1>2. ASSUME NEW s \in W, \A t \in W : ~(<<t, s>> \in L) PROVE FALSE
  <2>1. CASE s = {}
    <3>1. Counted({}, f) = {}
      BY DEF Counted
    <3> QED BY <1>1, <2>1, <3>1, FS_EmptySet
  <2>2. CASE s # {}
    <3>1. PICK x \in s : g[s] = f[x] + g[s \ {x}]
      BY <1>1, <2>2
    <3>2. s \ {x} \in SUBSET S /\ <<s \ {x}, s>> \in L
      BY DEF StrictSubsetOrdering
    <3>3. Right(s \ {x})
      BY <1>2, <3>2
    <3>4. IsFiniteSet(s) /\ \A y \in s : f[y] \in Nat
      BY FS_Subset
    <3>5. Cardinality(Counted(s, f)) = f[x] + Cardinality(Counted(s \ {x}, f))
      BY <3>4, CountedAdds
    <3> QED BY <3>1, <3>3, <3>5
  <2> QED BY <2>1, <2>2
<1>3. IsWellFoundedOn(L, SUBSET S)
  BY FS_StrictSubsetOrderingWellFounded, FS_FiniteSubsetsOfFinite
<1>4. W = {}
  <2> HIDE DEF L, Right
  <2>1. W \subseteq SUBSET S
    OBVIOUS
  <2> HIDE DEF W
  <2> QED BY <1>2, <1>3, <2>1, WFMin
<1> QED BY <1>4

\* An extent is the product of its sizes, in the storage order, too.
LEMMA ExtentIs ==
  ASSUME NEW p \in WellFormed, NEW i \in Directions, NEW r \in Ranks(p),
         NEW o, o = Order(p, i)
  PROVE  /\ Extent(p, r, i) \in Nat
         /\ Extent(p, r, i) = Size(p, r, i, o[1]) * Size(p, r, i, o[2])
                                * Size(p, r, i, o[3]) * Size(p, r, i, o[4])
<1> DEFINE s(d) == Size(p, r, i, d)
<1>1. s(0) \in Nat /\ s(1) \in Nat /\ s(2) \in Nat /\ s(3) \in Nat
  BY SizeType DEF Indices
<1>2. Extent(p, r, i) = s(0) * s(1) * s(2) * s(3)
  BY DEF Extent
<1>3. \/ o[1] = 3 /\ o[2] = 1 /\ o[3] = 0 /\ o[4] = 2
      \/ o[1] = 3 /\ o[2] = 2 /\ o[3] = 1 /\ o[4] = 0
      \/ o[1] = 3 /\ o[2] = 0 /\ o[3] = 2 /\ o[4] = 1
  BY OrderIs
<1>4. \A a, b, c, d \in Nat :
        /\ a * b * c * d \in Nat
        /\ a * b * c * d = d * b * a * c
        /\ a * b * c * d = d * c * b * a
        /\ a * b * c * d = d * a * c * b
  OBVIOUS
<1> HIDE DEF s
<1>5. Extent(p, r, i) = s(o[1]) * s(o[2]) * s(o[3]) * s(o[4])
  BY <1>1, <1>2, <1>3, <1>4
<1>6. Extent(p, r, i) \in Nat
  BY <1>1, <1>2, <1>4
<1> QED BY <1>5, <1>6 DEF s

\* The optimum of a rank is enough for each pencil, and no more than its memory.
LEMMA OptimumIs ==
  ASSUME NEW p \in WellFormed, NEW r \in Ranks(p)
  PROVE  /\ LocalMemoryOptimum(p, r) \in Nat
         /\ \A i \in Directions : Extent(p, r, i) <= LocalMemoryOptimum(p, r)
         /\ LocalMemoryOptimum(p, r) <= LocalMemory(p, r)
<1>1. 0 \in Directions /\ 1 \in Directions /\ 2 \in Directions
      /\ \A i \in Directions : i = 0 \/ i = 1 \/ i = 2
  BY DEF Directions
<1>2. \A i \in Directions : Extent(p, r, i) \in Nat /\ Extent(p, r, i) <= LocalMemory(p, r)
  BY ExtentIs, PencilFits
<1>3. LocalMemory(p, r) \in Nat
  BY LocalMemoryBounds
<1> QED BY <1>1, <1>2, <1>3 DEF LocalMemoryOptimum, Larger

\* The sum that underling_global_memory is.
LEMMA MemoryCounts ==
  ASSUME NEW p \in WellFormed
  PROVE  LET f == [r \in Ranks(p) |-> LocalMemory(p, r)]
         IN  GlobalMemory(p) = Cardinality(Counted(Ranks(p), f))
<1> DEFINE S == Ranks(p)
           f == [r \in S |-> LocalMemory(p, r)]
           step(g) == [s \in SUBSET S |-> IF s = {} THEN 0
                         ELSE LocalMemory(p, CHOOSE x \in s : TRUE)
                                + g[s \ {CHOOSE x \in s : TRUE}]]
           sum == CHOOSE g : g = step(g)
<1>1. IsFiniteSet(S) /\ \A r \in S : f[r] \in Nat
  <2>1. \A r \in S : LocalMemory(p, r) \in Nat
    BY LocalMemoryBounds
  <2> QED BY <2>1, FiniteRanks
<1>2. ASSUME NEW g PROVE step(g) = SumStep(S, f, g)
  <2>1. \A s \in SUBSET S : s # {} => (CHOOSE x \in s : TRUE) \in S
    OBVIOUS
  <2>2. \A r \in S : f[r] = LocalMemory(p, r)
    OBVIOUS
  <2> HIDE DEF f, S
  <2> QED BY <2>1, <2>2 DEF SumStep
<1> HIDE DEF step, f
<1>3. sum = step(sum)
  <2>1. \E g : g = step(g)
    BY <1>1, <1>2, SumExists
  <2> QED BY <2>1
<1>4. GlobalMemory(p) = sum[S]
  BY Zenon DEF GlobalMemory, MapThenSumSet, MapThenFoldSet, step
<1> HIDE DEF sum
<1>5. sum = SumStep(S, f, sum)
  BY <1>2, <1>3
<1> QED BY <1>1, <1>4, <1>5, SumCounts DEF f

\* That of the optima.
LEMMA OptimaCount ==
  ASSUME NEW p \in WellFormed
  PROVE  LET f == [r \in Ranks(p) |-> LocalMemoryOptimum(p, r)]
         IN  (LET m(r) == LocalMemoryOptimum(p, r) IN MapThenSumSet(m, Ranks(p)))
           = Cardinality(Counted(Ranks(p), f))
<1> DEFINE S == Ranks(p)
           f == [r \in S |-> LocalMemoryOptimum(p, r)]
           step(g) == [s \in SUBSET S |-> IF s = {} THEN 0
                         ELSE LocalMemoryOptimum(p, CHOOSE x \in s : TRUE)
                                + g[s \ {CHOOSE x \in s : TRUE}]]
           sum == CHOOSE g : g = step(g)
<1>1. IsFiniteSet(S) /\ \A r \in S : f[r] \in Nat
  <2>1. \A r \in S : LocalMemoryOptimum(p, r) \in Nat
    BY OptimumIs
  <2> QED BY <2>1, FiniteRanks
<1>2. ASSUME NEW g PROVE step(g) = SumStep(S, f, g)
  <2>1. \A s \in SUBSET S : s # {} => (CHOOSE x \in s : TRUE) \in S
    OBVIOUS
  <2>2. \A r \in S : f[r] = LocalMemoryOptimum(p, r)
    OBVIOUS
  <2> HIDE DEF f, S
  <2> QED BY <2>1, <2>2 DEF SumStep
<1> HIDE DEF step, f
<1>3. sum = step(sum)
  <2>1. \E g : g = step(g)
    BY <1>1, <1>2, SumExists
  <2> QED BY <2>1
<1>4. (LET m(r) == LocalMemoryOptimum(p, r) IN MapThenSumSet(m, Ranks(p))) = sum[S]
  BY Zenon DEF MapThenSumSet, MapThenFoldSet, step
<1> HIDE DEF sum
<1>5. sum = SumStep(S, f, sum)
  BY <1>2, <1>3
<1> QED BY <1>1, <1>4, <1>5, SumCounts DEF f

\* And that of all pencils of a direction.
LEMMA ExtentsCount ==
  ASSUME NEW p \in WellFormed, NEW i \in Directions
  PROVE  LET f == [r \in Ranks(p) |-> Extent(p, r, i)]
         IN  (LET m(r) == Extent(p, r, i) IN MapThenSumSet(m, Ranks(p)))
           = Cardinality(Counted(Ranks(p), f))
<1> DEFINE S == Ranks(p)
           f == [r \in S |-> Extent(p, r, i)]
           step(g) == [s \in SUBSET S |-> IF s = {} THEN 0
                         ELSE Extent(p, CHOOSE x \in s : TRUE, i)
                                + g[s \ {CHOOSE x \in s : TRUE}]]
           sum == CHOOSE g : g = step(g)
<1>1. IsFiniteSet(S) /\ \A r \in S : f[r] \in Nat
  <2>1. \A r \in S : Extent(p, r, i) \in Nat
    BY ExtentIs
  <2> QED BY <2>1, FiniteRanks
<1>2. ASSUME NEW g PROVE step(g) = SumStep(S, f, g)
  <2>1. \A s \in SUBSET S : s # {} => (CHOOSE x \in s : TRUE) \in S
    OBVIOUS
  <2>2. \A r \in S : f[r] = Extent(p, r, i)
    OBVIOUS
  <2> HIDE DEF f, S
  <2> QED BY <2>1, <2>2 DEF SumStep
<1> HIDE DEF step, f
<1>3. sum = step(sum)
  <2>1. \E g : g = step(g)
    BY <1>1, <1>2, SumExists
  <2> QED BY <2>1
<1>4. (LET m(r) == Extent(p, r, i) IN MapThenSumSet(m, Ranks(p))) = sum[S]
  BY Zenon DEF MapThenSumSet, MapThenFoldSet, step
<1> HIDE DEF sum
<1>5. sum = SumStep(S, f, sum)
  BY <1>2, <1>3
<1> QED BY <1>1, <1>4, <1>5, SumCounts DEF f

\* More copies count for more.
LEMMA CountedGrows ==
  ASSUME NEW S, IsFiniteSet(S), NEW f, NEW g,
         \A x \in S : f[x] \in Nat /\ g[x] \in Nat /\ f[x] <= g[x]
  PROVE  Cardinality(Counted(S, f)) <= Cardinality(Counted(S, g))
<1>1. Counted(S, f) \subseteq Counted(S, g)
  BY DEF Counted
<1>2. IsFiniteSet(Counted(S, g))
  BY FiniteCounted
<1> QED BY <1>1, <1>2, FS_Subset

\* The same number of copies of each.
LEMMA CountedEvenly ==
  ASSUME NEW S, IsFiniteSet(S), NEW n \in Nat
  PROVE  LET f == [x \in S |-> n]
         IN  Cardinality(Counted(S, f)) = Cardinality(S) * n
<1> DEFINE f == [x \in S |-> n]
<1>1. Counted(S, f) = S \X (0 .. n - 1)
  BY DEF Counted
<1>2. IsFiniteSet(0 .. n - 1) /\ Cardinality(0 .. n - 1) = n
  <2>1. 0 \in Int /\ n - 1 \in Int /\ (IF 0 > n - 1 THEN 0 ELSE n - 1 - 0 + 1) = n
    OBVIOUS
  <2> QED BY <2>1, FS_Interval
<1> HIDE DEF f
<1> QED BY <1>1, <1>2, FS_Product DEF f

\* A sum lies between the number of its terms times the least and the greatest.
LEMMA SumBounds ==
  ASSUME NEW S, IsFiniteSet(S), S # {}, NEW f, \A x \in S : f[x] \in Nat,
         NEW V, V = {f[x] : x \in S}
  PROVE  /\ Cardinality(S) * Min(V) <= Cardinality(Counted(S, f))
         /\ Cardinality(Counted(S, f)) <= Cardinality(S) * Max(V)
<1>1. V \in SUBSET Nat /\ V # {}
  OBVIOUS
<1>2. Min(V) \in V /\ \A x \in V : Min(V) <= x
  <2>1. \E m \in V : \A x \in V : m <= x
    BY <1>1, LeastNumber
  <2> QED BY <2>1 DEF Min
<1>3. Max(V) \in V /\ \A x \in V : Max(V) >= x
  <2> DEFINE U == {n \in Nat : \A x \in V : x <= n}
             N == Cardinality(Counted(S, f))
  <2>1. IsFiniteSet(Counted(S, f)) /\ N \in Nat
    BY FiniteCounted, FS_CardinalityType
  <2>2. ASSUME NEW x \in S PROVE f[x] <= N
    <3>1. N = f[x] + Cardinality(Counted(S \ {x}, f))
      BY CountedAdds
    <3>2. Cardinality(Counted(S \ {x}, f)) \in Nat
      <4>1. IsFiniteSet(S \ {x})
        BY FS_RemoveElement
      <4> QED BY <4>1, FiniteCounted, FS_CardinalityType
    <3> HIDE DEF N
    <3> QED BY <3>1, <3>2
  <2> HIDE DEF N
  <2>3. U \in SUBSET Nat /\ N \in U
    BY <2>1, <2>2
  <2>4. PICK m \in U : \A n \in U : m <= n
    BY <2>3, LeastNumber
  <2>5. m \in V
    <3>1. SUFFICES ASSUME m \notin V PROVE FALSE
      OBVIOUS
    <3>2. \A x \in V : x < m
      BY <1>1, <2>4, <3>1
    <3>3. m - 1 \in U
      BY <1>1, <2>4, <3>2
    <3> QED BY <2>4, <3>3
  <2>6. \A x \in V : m >= x
    BY <1>1, <2>4
  <2> QED BY <2>5, <2>6 DEF Max
<1>4. PICK a \in Nat, b \in Nat : a = Min(V) /\ b = Max(V)
  BY <1>1, <1>2, <1>3
<1> DEFINE lo == [x \in S |-> a]
           hi == [x \in S |-> b]
<1>5. \A x \in S : /\ lo[x] \in Nat /\ lo[x] <= f[x]
                   /\ hi[x] \in Nat /\ f[x] <= hi[x]
  BY <1>2, <1>3, <1>4
<1>6. /\ Cardinality(Counted(S, lo)) = Cardinality(S) * a
      /\ Cardinality(Counted(S, hi)) = Cardinality(S) * b
  BY CountedEvenly
<1> HIDE DEF lo, hi
<1>7. Cardinality(Counted(S, lo)) <= Cardinality(Counted(S, f))
  BY <1>5, CountedGrows
<1>8. Cardinality(Counted(S, f)) <= Cardinality(Counted(S, hi))
  BY <1>5, CountedGrows
<1> QED BY <1>4, <1>6, <1>7, <1>8

\* What a rank holds is of the field.
LEMMA HeldInField ==
  ASSUME NEW p \in WellFormed, NEW i \in Directions, NEW r \in Ranks(p),
         NEW x, x = [d \in Indices |-> x[d]], Holds(p, r, i, x)
  PROVE  x \in Elements(p)
<1>1. ASSUME NEW d \in Indices PROVE x[d] \in 0 .. Total(p, d) - 1
  <2>1. /\ Start(p, r, i, d) \in Nat /\ Size(p, r, i, d) \in Nat
        /\ x[d] \in Start(p, r, i, d) .. Start(p, r, i, d) + Size(p, r, i, d) - 1
    BY StartType, SizeType DEF Holds
  <2>2. Total(p, d) \in Nat
    BY DEF WellFormed, Total, Indices, Directions
  <2>3. CASE d = 3 \/ d = i
    <3>1. ~SplitOverB(i, d)
      BY <2>3 DEF SplitOverB, Directions
    <3>2. Start(p, r, i, d) = 0
      BY <2>3, <3>1, Zenon DEF Start
    <3>3. Size(p, r, i, d) = Total(p, d)
      <4>1. CASE d = 3
        <5>1. Size(p, r, i, d) = p.howmany
          <6>1. i # 3
            BY DEF Directions
          <6> QED BY <3>1, <4>1, <6>1 DEF Size
        <5>2. Total(p, d) = p.howmany
          BY <4>1 DEF Total
        <5> QED BY <5>1, <5>2
      <4>2. CASE d # 3
        BY <2>3, <3>1, <4>2, Zenon DEF Size, Total
      <4> QED BY <4>1, <4>2
    <3> QED BY <2>1, <2>2, <3>2, <3>3
  <2>4. CASE d # 3 /\ d # i
    <3>1. p.n[d] \in Nat \ {0} /\ Total(p, d) = p.n[d]
      BY <2>4 DEF WellFormed, Indices, Directions, Total
    <3>2. p.pA \in Nat \ {0} /\ p.pB \in Nat \ {0} /\ r.a \in Nat /\ r.b \in Nat
      BY DEF WellFormed, Ranks
    <3>3. PICK k \in Nat, procs \in Nat \ {0} :
            LET b == DefaultBlock(p.n[d], procs)
            IN  Start(p, r, i, d) = k * b /\ Size(p, r, i, d) = LocalRows(p.n[d], b, k)
      <4>1. CASE SplitOverB(i, d)
        BY <2>4, <3>2, <4>1 DEF Start, Size
      <4>2. CASE ~SplitOverB(i, d)
        BY <2>4, <3>2, <4>2 DEF Start, Size
      <4> QED BY <4>1, <4>2
    <3>4. PICK b \in Nat : b = DefaultBlock(p.n[d], procs)
      BY <3>1, DefaultBlockBounds
    <3>5. PICK s : s = k * b
      OBVIOUS
    <3>6. s \in Nat /\ Start(p, r, i, d) = s /\ Size(p, r, i, d) = LocalRows(p.n[d], b, k)
      BY <3>3, <3>4, <3>5
    <3>7. Size(p, r, i, d) <= (IF p.n[d] - s <= 0 THEN 0 ELSE p.n[d] - s)
      BY <3>1, <3>4, <3>5, <3>6 DEF LocalRows
    <3> QED BY <2>1, <3>1, <3>6, <3>7
  <2> QED BY <2>3, <2>4
<1>2. \A d \in Indices : Total(p, d) \in Nat
  BY DEF WellFormed, Total, Indices, Directions
<1>3. \A d \in Indices : x[d] \in UNION {0 .. Total(p, e) - 1 : e \in Indices} /\ x[d] < Total(p, d)
  BY <1>1, <1>2
<1> QED BY <1>3 DEF Elements

\* How many elements the field has.
LEMMA FieldSize ==
  ASSUME NEW p \in WellFormed
  PROVE  IsFiniteSet(Elements(p)) /\ Cardinality(Elements(p)) = GlobalMemoryOptimum(p)
<1>1. PICK h \in Nat, n0 \in Nat, n1 \in Nat, n2 \in Nat :
        h = p.howmany /\ n0 = p.n[0] /\ n1 = p.n[1] /\ n2 = p.n[2]
  BY DEF WellFormed, Directions
<1> DEFINE P1 == (0 .. h - 1) \X (0 .. n0 - 1)
           P2 == P1 \X (0 .. n1 - 1)
           P  == P2 \X (0 .. n2 - 1)
           E  == Elements(p)
           f  == [x \in E |-> <<<<<<x[3], x[0]>>, x[1]>>, x[2]>>]
<1>2. ASSUME NEW n \in Nat
      PROVE  IsFiniteSet(0 .. n - 1) /\ Cardinality(0 .. n - 1) = n
  <2>1. 0 \in Int /\ n - 1 \in Int /\ (IF 0 > n - 1 THEN 0 ELSE n - 1 - 0 + 1) = n
    OBVIOUS
  <2> QED BY <2>1, FS_Interval
<1>3. IsFiniteSet(P) /\ Cardinality(P) = h * n0 * n1 * n2
  <2> DEFINE I(n) == 0 .. n - 1
  <2>1. \A n \in Nat : IsFiniteSet(I(n)) /\ Cardinality(I(n)) = n
    BY <1>2, Zenon
  <2>2. P1 = I(h) \X I(n0) /\ P2 = P1 \X I(n1) /\ P = P2 \X I(n2)
    BY Zenon
  <2> HIDE DEF I, P1, P2, P
  <2>3. IsFiniteSet(P1) /\ Cardinality(P1) = h * n0
    BY <2>1, <2>2, FS_Product
  <2>4. IsFiniteSet(P2) /\ Cardinality(P2) = (h * n0) * n1
    <3>1. IsFiniteSet(I(n1)) /\ Cardinality(I(n1)) = n1
      BY <2>1
    <3>2. IsFiniteSet(P2) /\ Cardinality(P2) = Cardinality(P1) * Cardinality(I(n1))
      BY <2>2, <2>3, <3>1, FS_Product, Zenon
    <3> QED BY <2>3, <3>1, <3>2, Zenon
  <2>5. IsFiniteSet(P) /\ Cardinality(P) = ((h * n0) * n1) * n2
    <3>1. IsFiniteSet(I(n2)) /\ Cardinality(I(n2)) = n2
      BY <2>1
    <3>2. IsFiniteSet(P) /\ Cardinality(P) = Cardinality(P2) * Cardinality(I(n2))
      BY <2>2, <2>4, <3>1, FS_Product, Zenon
    <3> QED BY <2>4, <3>1, <3>2, Zenon
  <2> QED BY <2>5
<1>4. \A x \in E : /\ x = [d \in Indices |-> x[d]]
                   /\ x[3] \in 0 .. h - 1 /\ x[0] \in 0 .. n0 - 1
                   /\ x[1] \in 0 .. n1 - 1 /\ x[2] \in 0 .. n2 - 1
  <2>1. \A x \in E : x = [d \in Indices |-> x[d]]
    BY DEF Elements
  <2> QED BY <1>1, <2>1, ElementBounds DEF Directions
<1>5. f \in [E -> P]
  BY <1>4
<1>6. ASSUME NEW x \in E, NEW y \in E, f[x] = f[y] PROVE x = y
  <2>1. x[3] = y[3] /\ x[0] = y[0] /\ x[1] = y[1] /\ x[2] = y[2]
    BY <1>6
  <2>2. \A d \in Indices : x[d] = y[d]
    BY <2>1 DEF Indices
  <2> QED BY <1>4, <2>2
<1>7. ASSUME NEW z \in P PROVE \E x \in E : f[x] = z
  <2>1. PICK a \in 0 .. h - 1, b \in 0 .. n0 - 1, c \in 0 .. n1 - 1, e \in 0 .. n2 - 1 :
          z = <<<<<<a, b>>, c>>, e>>
    OBVIOUS
  <2>2. PICK x : x = [d \in Indices |-> IF d = 3 THEN a ELSE IF d = 0 THEN b
                                        ELSE IF d = 1 THEN c ELSE e]
    OBVIOUS
  <2>3. x[3] = a /\ x[0] = b /\ x[1] = c /\ x[2] = e
    BY <2>2 DEF Indices
  <2>4. \A d \in Indices : x[d] \in 0 .. Total(p, d) - 1 /\ Total(p, d) \in Nat
    BY <1>1, <2>3 DEF Indices, Total
  <2>5. \A d \in Indices :
          x[d] \in UNION {0 .. Total(p, k) - 1 : k \in Indices} /\ x[d] < Total(p, d)
    BY <2>4
  <2>6. x \in E
    BY <2>2, <2>5 DEF Elements
  <2> QED BY <2>1, <2>3, <2>6
<1> HIDE DEF f, P, E
<1>8. f \in Bijection(E, P)
  BY <1>5, <1>6, <1>7, Fun_IsBij
<1>9. ExistsBijection(P, E)
  <2>1. ExistsBijection(E, P)
    BY <1>8 DEF ExistsBijection
  <2> QED BY <2>1, Fun_ExistsBijSymmetric
<1>10. IsFiniteSet(E) /\ Cardinality(E) = h * n0 * n1 * n2
  BY <1>3, <1>9, FS_Bijection
<1> QED BY <1>1, <1>10 DEF E, GlobalMemoryOptimum

\* The address of an element that a rank holds, where the extents place it.
LEMMA Placed ==
  ASSUME NEW p \in WellFormed, NEW i \in Directions, NEW r \in Ranks(p),
         NEW x, x = [d \in Indices |-> x[d]], Holds(p, r, i, x)
  PROVE  \E addr \in Pencil(p, r, i) : ElementAt(p, r, i, addr) = x
<1> DEFINE s(d) == Size(p, r, i, d)
           e    == [d \in Indices |-> x[d] - Start(p, r, i, d)]
<1>1. ASSUME NEW d \in Indices
      PROVE  /\ s(d) \in Nat /\ e[d] \in 0 .. s(d) - 1
             /\ Start(p, r, i, d) + e[d] = x[d]
  <2>1. PICK t \in Nat, n \in Nat : t = Start(p, r, i, d) /\ n = s(d)
    BY StartType, SizeType
  <2>2. x[d] \in t .. t + n - 1
    BY <2>1 DEF Holds
  <2>3. e[d] = x[d] - t
    BY <2>1
  <2> HIDE DEF e, s
  <2>4. e[d] \in 0 .. n - 1 /\ t + e[d] = x[d]
    BY <2>2, <2>3
  <2> QED BY <2>1, <2>4
<1> HIDE DEF e
<1>2. PICK o : o = Order(p, i)
  OBVIOUS
<1>3. o[1] \in Indices /\ o[2] \in Indices /\ o[3] \in Indices /\ o[4] \in Indices
  BY <1>2, OrderIs
<1>4. PICK s1 \in Nat, s2 \in Nat, s3 \in Nat, s4 \in Nat :
        s1 = s(o[1]) /\ s2 = s(o[2]) /\ s3 = s(o[3]) /\ s4 = s(o[4])
  BY <1>1, <1>3
<1>5. PICK d1 \in 0 .. s1 - 1, d2 \in 0 .. s2 - 1, d3 \in 0 .. s3 - 1, d4 \in 0 .. s4 - 1 :
        d1 = e[o[1]] /\ d2 = e[o[2]] /\ d3 = e[o[3]] /\ d4 = e[o[4]]
  BY <1>1, <1>3, <1>4
<1>6. PICK addr : addr = ((d4 * s3 + d3) * s2 + d2) * s1 + d1
  OBVIOUS
<1>7. addr \in 0 .. s1 * s2 * s3 * s4 - 1
  <2>1. Digits(addr, s1, s2, s3, s4, d1, d2, d3, d4)
    BY <1>6, RadixMixed
  <2> QED BY <2>1 DEF Digits
<1>8. addr \in Pencil(p, r, i)
  BY <1>2, <1>4, <1>7, ExtentIs DEF Pencil
<1>9. ElementAt(p, r, i, addr) = [d \in Indices |-> Start(p, r, i, d) + e[d]]
  <2>1. addr = ((e[o[4]] * s(o[3]) + e[o[3]]) * s(o[2]) + e[o[2]]) * s(o[1]) + e[o[1]]
    BY <1>4, <1>5, <1>6
  <2>2. \A d \in Indices : e[d] \in 0 .. s(d) - 1
    BY <1>1
  <2> QED BY <1>2, <2>1, <2>2, ElementMade
<1>10. ElementAt(p, r, i, addr) = x
  BY <1>1, <1>9
<1> QED BY <1>8, <1>10

\* The pencils of a direction hold the field, each element once.
LEMMA PencilsHoldField ==
  ASSUME NEW p \in WellFormed, NEW i \in Directions
  PROVE  LET f == [r \in Ranks(p) |-> Extent(p, r, i)]
         IN  Cardinality(Counted(Ranks(p), f)) = GlobalMemoryOptimum(p)
<1> DEFINE S == Ranks(p)
           f == [r \in S |-> Extent(p, r, i)]
           C == Counted(S, f)
           E == Elements(p)
           h == [c \in C |-> ElementAt(p, c[1], i, c[2])]
<1>1. \A r, addr : <<r, addr>> \in C <=> r \in S /\ addr \in Pencil(p, r, i)
  <2>1. \A r, addr : <<r, addr>> \in C <=> r \in S /\ addr \in 0 .. f[r] - 1
    BY CountedIs
  <2>2. \A r \in S : 0 .. f[r] - 1 = Pencil(p, r, i)
    BY DEF Pencil
  <2> HIDE DEF C, f
  <2> QED BY <2>1, <2>2
<1>2. ASSUME NEW c \in C
      PROVE  c = <<c[1], c[2]>> /\ c[1] \in S /\ c[2] \in Pencil(p, c[1], i)
  <2>1. PICK r \in S : \E k \in 0 .. f[r] - 1 : c = <<r, k>>
    BY DEF Counted
  <2> QED BY <1>1, <2>1
<1> HIDE DEF C
<1>3. ASSUME NEW c \in C
      PROVE  /\ h[c] = [d \in Indices |-> h[c][d]]
             /\ Holds(p, c[1], i, h[c]) /\ h[c] \in E
  <2>1. h[c] = ElementAt(p, c[1], i, c[2])
    OBVIOUS
  <2>2. h[c] = [d \in Indices |-> h[c][d]]
    BY <2>1 DEF ElementAt
  <2>3. Holds(p, c[1], i, h[c])
    BY <1>2, <2>1, AddressesApart
  <2> HIDE DEF h
  <2> QED BY <1>2, <2>2, <2>3, HeldInField
<1>4. h \in [C -> E]
  BY <1>3
<1>5. ASSUME NEW c \in C, NEW k \in C, h[c] = h[k] PROVE c = k
  <2>1. c[1] = k[1]
    <3>1. h[c] \in E /\ Holds(p, c[1], i, h[c]) /\ Holds(p, k[1], i, h[c])
      BY <1>3, <1>5
    <3>2. PICK r \in S : \A q \in S : Holds(p, q, i, h[c]) => q = r
      BY <3>1, PencilsTile
    <3> QED BY <1>2, <3>1, <3>2
  <2>2. ElementAt(p, c[1], i, c[2]) = ElementAt(p, c[1], i, k[2])
    BY <1>5, <2>1
  <2>3. c[2] \in Pencil(p, c[1], i) /\ k[2] \in Pencil(p, c[1], i) /\ c[1] \in S
    BY <1>2, <2>1
  <2>4. c[2] = k[2]
    BY <2>2, <2>3, AddressesApart
  <2> QED BY <1>2, <2>1, <2>4
<1>6. ASSUME NEW x \in E PROVE \E c \in C : h[c] = x
  <2>1. PICK r \in S : Holds(p, r, i, x)
    BY PencilsTile
  <2>2. x = [d \in Indices |-> x[d]]
    BY DEF Elements
  <2>3. PICK addr \in Pencil(p, r, i) : ElementAt(p, r, i, addr) = x
    BY <2>1, <2>2, Placed
  <2>4. <<r, addr>> \in C
    BY <1>1, <2>1, <2>3
  <2> QED BY <2>3, <2>4
<1>7. IsFiniteSet(C)
  <2>1. \A r \in S : f[r] \in Nat
    BY ExtentIs
  <2> HIDE DEF f
  <2> QED BY <2>1, FiniteRanks, FiniteCounted DEF C
<1> HIDE DEF h, E
<1>8. h \in Bijection(C, E)
  BY <1>4, <1>5, <1>6, Fun_IsBij
<1>9. ExistsBijection(C, E)
  BY <1>8 DEF ExistsBijection
<1>10. Cardinality(C) = Cardinality(E)
  BY <1>7, <1>9, FS_Bijection
<1> QED BY <1>10, FieldSize DEF C, E

\* What underling_local_memory_minimum, underling_global_memory and the other
\* queries say agrees with each other and with the size of the field.
THEOREM QueriesAgree == Spec => []QueriesAddUp
<1>1. TypeOK => QueriesAddUp
  <2> SUFFICES ASSUME TypeOK PROVE QueriesAddUp
    OBVIOUS
  <2>1. prob \in WellFormed
    BY ProblemFits
  <2> DEFINE S     == Ranks(prob)
             opt   == [r \in S |-> LocalMemoryOptimum(prob, r)]
             mem   == [r \in S |-> LocalMemory(prob, r)]
             ext(i) == [r \in S |-> Extent(prob, r, i)]
             N(f)  == Cardinality(Counted(S, f))
             V     == {LocalMemory(prob, r) : r \in S}
             G     == GlobalMemoryOptimum(prob)
  <2>2. IsFiniteSet(S) /\ S # {}
    BY <2>1, FiniteRanks
  <2>3. \A r \in S : /\ opt[r] \in Nat /\ mem[r] \in Nat /\ opt[r] <= mem[r]
                     /\ \A i \in Directions : ext(i)[r] \in Nat /\ ext(i)[r] <= opt[r]
    BY <2>1, OptimumIs, LocalMemoryBounds, ExtentIs
  <2>4. GlobalMemory(prob) = N(mem)
    BY <2>1, MemoryCounts
  <2>5. (LET m(r) == LocalMemoryOptimum(prob, r) IN MapThenSumSet(m, S)) = N(opt)
    BY <2>1, OptimaCount
  <2>6. ASSUME NEW i \in Directions
        PROVE  /\ (LET m(r) == Extent(prob, r, i) IN MapThenSumSet(m, S)) = N(ext(i))
               /\ N(ext(i)) = G
    BY <2>1, ExtentsCount, PencilsHoldField
  <2>7. V = {mem[r] : r \in S}
    OBVIOUS
  <2>8. \A i \in Directions : \A r \in S : Extent(prob, r, i) <= LocalMemoryOptimum(prob, r)
    BY <2>1, OptimumIs
  <2> HIDE DEF opt, mem, ext, S, V, G
  <2>9. N(opt) <= N(mem)
    BY <2>2, <2>3, CountedGrows
  <2>10. G <= N(opt)
    <3>1. 0 \in Directions
      BY DEF Directions
    <3>2. N(ext(0)) <= N(opt)
      BY <2>2, <2>3, <3>1, CountedGrows
    <3> QED BY <2>6, <3>1, <3>2
  <2>11. /\ Cardinality(S) * Min(V) <= N(mem)
         /\ N(mem) <= Cardinality(S) * Max(V)
    BY <2>2, <2>3, <2>7, SumBounds
  <2>12. LocalMemoryMinimum(prob) = Min(V) /\ LocalMemoryMaximum(prob) = Max(V)
    BY DEF LocalMemoryMinimum, LocalMemoryMaximum, V, S
  <2> HIDE DEF N
  <2>13. /\ \A i \in Directions :
              /\ (LET m(r) == Extent(prob, r, i) IN MapThenSumSet(m, S)) = G
              /\ \A r \in S : Extent(prob, r, i) <= LocalMemoryOptimum(prob, r)
         /\ G <= N(opt) /\ N(opt) <= GlobalMemory(prob)
         /\ Cardinality(S) * LocalMemoryMinimum(prob) <= GlobalMemory(prob)
         /\ GlobalMemory(prob) <= Cardinality(S) * LocalMemoryMaximum(prob)
    BY <2>4, <2>6, <2>8, <2>9, <2>10, <2>11, <2>12
  <2> QED BY <2>5, <2>13, Zenon DEF QueriesAddUp, MapThenSumSet, MapThenFoldSet, S, G
<1> QED BY <1>1, DataInvariant, PTL DEF DInv, MInv

=============================================================================
