--------------------------- MODULE BenchJobProofs ---------------------------
(***************************************************************************)
(* What BenchJob's runs show on a few scenes, for every scene: the dumps   *)
(* come in turn, wrong arguments are complained about once, the ranks of a *)
(* job know the same of other jobs and come to the same verdict, and the   *)
(* wisdom file keeps what jobs found out that were not disturbed.          *)
(*                                                                         *)
(* All of it rests on the ranks of a job being at most one collective      *)
(* apart, the one that is behind waiting inside it (Synchronous).          *)
(***************************************************************************)
EXTENDS BenchJob, TLAPS

\* Every rank of every job has its value, of each kind.
Typed ==
  /\ scene \in Scenes
  /\ DOMAIN step = Jobs /\ DOMAIN done = Jobs /\ DOMAIN status = Jobs
  /\ DOMAIN wisdom = Jobs /\ DOMAIN told = Jobs /\ DOMAIN shown = Jobs
  /\ \A j \in Jobs : /\ step[j] \in [Ranks(j) -> Steps]
                     /\ done[j] \in [Ranks(j) -> Nat]
                     /\ DOMAIN status[j] = Ranks(j)
                     /\ DOMAIN wisdom[j] = Ranks(j)
                     /\ shown[j] \subseteq Ranks(j)

EarlySteps == {"redirect", "parse", "restore", "open", "lock", "import", "unlock"}

EarlyOf(j, r) ==
  /\ step[j][r] \in EarlySteps => done[j][r] = 0
  /\ step[j][r] \in {"open", "lock", "import", "unlock"} => r = 0
  /\ step[j][r] = "plan" => done[j][r] # 0

\* Only rank 0 reads the file, before anything else; nothing is completed then,
\* but something is before planning.
EarlyFirst == \A j \in Jobs : \A r \in Ranks(j) : EarlyOf(j, r)

Synchronous ==
  \A j \in Jobs : \A r, q \in Ranks(j) :
    done[j][q] <= done[j][r] \/ (done[j][q] = done[j][r] + 1 /\ step[j][r] = "in")

\* Who prints has just left the barrier of its turn, and the dumps shown are
\* those of ranks whose turn is over.
Turns ==
  \A j \in Jobs : \A r \in Ranks(j) :
    /\ Printing(j, r) => scene.option[j].dump /\ done[j][r] = Turn(j, r)
    /\ r \in shown[j] <=> /\ scene.option[j].dump
                          /\ done[j][r] >= Turn(j, r)
                          /\ ~Printing(j, r)

\* No rank is silent between restoring its streams and its end, nor rank 0 ever;
\* all others are when they parse.
SilenceOf(j, r) ==
  /\ <<j, r>> \in silent => r # 0 /\ step[j][r] \in {"parse", "restore", "end"}
  /\ r # 0 /\ step[j][r] = "parse" => <<j, r>> \in silent

Silence == \A j \in Jobs : \A r \in Ranks(j) : SilenceOf(j, r)

Judges(j) == scene.option[j].repeat /\ scene.option[j].trip

\* The verdict is a function of the scene and of the collectives completed.
Verdict(j, r) ==
  IF scene.option[j].arguments = "wrong"
  THEN IF step[j][r] = "end" THEN "usage" ELSE "none"
  ELSE IF done[j][r] = Calls(j) /\ Judges(j) /\ TooMuchError(j, r) THEN "failed"
  ELSE IF step[j][r] = "end" THEN "fine" ELSE "none"

VerdictOf(j, r) ==
  /\ status[j][r] = Verdict(j, r) /\ done[j][r] <= Calls(j)
  /\ IF scene.option[j].arguments = "wrong"
     THEN step[j][r] \in {"redirect", "parse", "end"}
     ELSE /\ step[j][r] = "end" => done[j][r] = Calls(j)
          /\ step[j][r] = "in" => done[j][r] < Calls(j)

Verdicts == \A j \in Jobs : \A r \in Ranks(j) : VerdictOf(j, r)

Complaints ==
  \A j \in Jobs : told[j] = IF status[j][0] = "usage" THEN 1 ELSE 0

KnowledgeOf(j, r) ==
  /\ done[j][r] >= 1 => Foreign(j, r) = Foreign(j, 0)
  /\ done[j][r] = 0 /\ r # 0 => wisdom[j][r] = {}

\* What is known of other jobs comes from rank 0, by the broadcast.
Knowledge == \A j \in Jobs : \A r \in Ranks(j) : KnowledgeOf(j, r)

IInv == Typed /\ EarlyFirst /\ Synchronous /\ Turns /\ Silence /\ Verdicts /\ Complaints /\ Knowledge

---------------------------------------------------------------------------
(* The counts of collectives, and the scene they depend on.                *)

\* Every job has ranks, and its collectives are at least those of the dump.
LEMMA Counts ==
  ASSUME scene \in Scenes, NEW j \in Jobs
  PROVE  /\ Ranks(j) \subseteq Nat /\ 0 \in Ranks(j) /\ scene.option[j].ranks \in Nat
         /\ Len(Queries) = 5
         /\ FirstTurn(j) \in {5, 6} /\ (scene.option[j].wisdom <=> FirstTurn(j) = 6)
         /\ Calls(j) \in Nat /\ Calls(j) >= FirstTurn(j)
         /\ \A r \in Ranks(j) : scene.option[j].dump => Calls(j) > FirstTurn(j) + 1 + r
<1>1. scene.option[j] \in Option
  BY ScenesAssumption DEF Scene
<1>2. scene.option[j].ranks \in Nat \ {0} /\ scene.option[j].wisdom \in BOOLEAN
  BY <1>1 DEF Option
<1>3. Ranks(j) \subseteq Nat /\ 0 \in Ranks(j)
  BY <1>2 DEF Ranks
<1>4. Len(Queries) = 5
  BY DEF Queries
<1>5. FirstTurn(j) \in {5, 6} /\ (scene.option[j].wisdom <=> FirstTurn(j) = 6)
  BY <1>2, <1>4 DEF FirstTurn, Gathers
<1>6. Barriers(j) \in Nat
      /\ \A r \in Ranks(j) : scene.option[j].dump => Barriers(j) > r + 1
  BY <1>2 DEF Barriers, Ranks
<1>7. Calls(j) \in Nat /\ Calls(j) >= FirstTurn(j) + Barriers(j)
  BY <1>5, <1>6 DEF Calls
<1> QED BY <1>2, <1>3, <1>4, <1>5, <1>6, <1>7

\* The variables the invariants are about.
Parts == <<scene, step, done, status, wisdom, silent, told, shown>>

\* Rank r of job j does no more than going from one place to the next.
Quiet(j, r, from, to) ==
  /\ step[j][r] = from /\ Goto(j, r, to)
  /\ UNCHANGED <<scene, done, status, wisdom, silent, told, shown>>

\* Where the steps that touch the file go from and to.
FilePairs == {<<"open", "lock">>, <<"open", "call">>, <<"lock", "import">>, <<"unlock", "call">>,
              <<"reopen", "relock">>, <<"reopen", "call">>, <<"relock", "export">>,
              <<"export", "reunlock">>, <<"reunlock", "close">>, <<"close", "call">>}

\* A step on the file is quiet, but for the import.
LEMMA FileStepsQuiet ==
  ASSUME NEW j \in Jobs, FileStep(j)
  PROVE  Import(j) \/ \E pair \in FilePairs : Quiet(j, 0, pair[1], pair[2])
<1> USE DEF At, Quiet, jobVars, ioVars, fileVars
<1>1. CASE Open(j)
  <2>1. Quiet(j, 0, "open", "lock") \/ Quiet(j, 0, "open", "call")
    BY <1>1 DEF Open
  <2> QED BY <2>1 DEF FilePairs
<1>2. CASE LockShared(j)
  <2>1. Quiet(j, 0, "lock", "import")
    BY <1>2 DEF LockShared
  <2> QED BY <2>1 DEF FilePairs
<1>3. CASE Unlock(j)
  <2>1. Quiet(j, 0, "unlock", "call")
    BY <1>3 DEF Unlock
  <2> QED BY <2>1 DEF FilePairs
<1>4. CASE Reopen(j)
  <2>1. Quiet(j, 0, "reopen", "relock") \/ Quiet(j, 0, "reopen", "call")
    BY <1>4 DEF Reopen
  <2> QED BY <2>1 DEF FilePairs
<1>5. CASE LockExclusive(j)
  <2>1. Quiet(j, 0, "relock", "export")
    BY <1>5 DEF LockExclusive
  <2> QED BY <2>1 DEF FilePairs
<1>6. CASE Export(j)
  <2>1. Quiet(j, 0, "export", "reunlock")
    BY <1>6 DEF Export
  <2> QED BY <2>1 DEF FilePairs
<1>7. CASE UnlockExclusive(j)
  <2>1. Quiet(j, 0, "reunlock", "close")
    BY <1>7 DEF UnlockExclusive
  <2> QED BY <2>1 DEF FilePairs
<1>8. CASE Close(j)
  <2>1. Quiet(j, 0, "close", "call")
    BY <1>8 DEF Close
  <2> QED BY <2>1 DEF FilePairs
<1> QED BY <1>1, <1>2, <1>3, <1>4, <1>5, <1>6, <1>7, <1>8 DEF FileStep

\* All steps, as far as the invariants can see them.
LEMMA StepKinds ==
  ASSUME [Next]_vars, \A j \in Jobs : 0 \in Ranks(j)
  PROVE  \/ UNCHANGED Parts
         \/ \E j \in Jobs : \E r \in Ranks(j) :
              \/ \E pair \in FilePairs : r = 0 /\ Quiet(j, r, pair[1], pair[2])
              \/ Quiet(j, r, "print", "flush")
              \/ r = 0 /\ Import(j)
              \/ Redirect(j, r) \/ Parse(j, r) \/ Restore(j, r)
              \/ Enter(j, r) \/ Leave(j, r) \/ Plan(j, r) \/ Flush(j, r)
<1>1. CASE UNCHANGED vars
  BY <1>1 DEF vars, Parts
<1>2. ASSUME NEW j \in Jobs, Launch(j) \/ Kill(j) PROVE UNCHANGED Parts
  BY <1>2 DEF Launch, Kill, Parts, ioVars
<1>3. ASSUME NEW j \in Jobs, NEW r \in Ranks(j), Abort(j, r) PROVE UNCHANGED Parts
  BY <1>3 DEF Abort, Parts, ioVars
<1>4. ASSUME NEW j \in Jobs, NEW r \in Ranks(j), PrintDump(j, r)
      PROVE  Quiet(j, r, "print", "flush")
  BY <1>4 DEF PrintDump, Quiet, At, jobVars, ioVars
<1>5. ASSUME NEW j \in Jobs, FileStep(j)
      PROVE  \E r \in Ranks(j) : \/ \E pair \in FilePairs : r = 0 /\ Quiet(j, r, pair[1], pair[2])
                                 \/ r = 0 /\ Import(j)
  BY <1>5, FileStepsQuiet
<1> QED BY <1>1, <1>2, <1>3, <1>4, <1>5 DEF Next, Step

\* Nothing changes the scene, and all that is computed from it.
LEMMA Fixed ==
  ASSUME scene' = scene, NEW j \in Jobs
  PROVE  Ranks(j)' = Ranks(j) /\ FirstTurn(j)' = FirstTurn(j) /\ Calls(j)' = Calls(j)
BY DEF Ranks, FirstTurn, Gathers, Calls, Barriers

\* Changing one rank's value leaves all the others' as they are.
LEMMA Update ==
  ASSUME NEW f, DOMAIN f = Jobs, \A i \in Jobs : DOMAIN f[i] = Ranks(i),
         NEW j \in Jobs, NEW r \in Ranks(j), NEW e, NEW g,
         g = [f EXCEPT ![j][r] = e]
  PROVE  /\ DOMAIN g = Jobs
         /\ \A i \in Jobs : /\ DOMAIN g[i] = Ranks(i)
                            /\ i # j => g[i] = f[i]
                            /\ \A q \in Ranks(i) :
                                 g[i][q] = IF i = j /\ q = r THEN e ELSE f[i][q]
         /\ g[j] = [f[j] EXCEPT ![r] = e]
OBVIOUS

---------------------------------------------------------------------------
(* The effect of every kind of step on the variables of one rank.          *)

\* A rank that moves is the only one that does, in all jobs.
Moves(j, r, to) ==
  /\ DOMAIN step' = Jobs
  /\ \A i \in Jobs : /\ step'[i] \in [Ranks(i) -> Steps]
                     /\ \A q \in Ranks(i) :
                          step'[i][q] = IF i = j /\ q = r THEN to ELSE step[i][q]

\* Goto moves one rank to where it says.
LEMMA GotoMoves ==
  ASSUME Typed, NEW j \in Jobs, NEW r \in Ranks(j), NEW to \in Steps, Goto(j, r, to)
  PROVE  Moves(j, r, to)
<1>1. DOMAIN step = Jobs /\ \A i \in Jobs : DOMAIN step[i] = Ranks(i)
  BY DEF Typed
<1>2. step' = [step EXCEPT ![j][r] = to]
  BY DEF Goto
<1>3. /\ DOMAIN step' = Jobs
      /\ \A i \in Jobs : i # j => step'[i] = step[i]
      /\ \A i \in Jobs : \A q \in Ranks(i) :
           step'[i][q] = IF i = j /\ q = r THEN to ELSE step[i][q]
      /\ step'[j] = [step[j] EXCEPT ![r] = to]
  BY <1>1, <1>2, Update
<1>4. \A i \in Jobs : step'[i] \in [Ranks(i) -> Steps]
  BY <1>3 DEF Typed
<1> QED BY <1>3, <1>4 DEF Moves

\* Where a rank goes from a collective.
LEMMA AfterSteps ==
  ASSUME NEW j, NEW r, NEW k PROVE After(j, r, k) \in Steps
BY DEF After, Steps

\* A rank that leaves a collective has one more behind it.
LEMMA LeaveCounts ==
  ASSUME Typed, NEW j \in Jobs, NEW r \in Ranks(j), Leave(j, r)
  PROVE  /\ Moves(j, r, After(j, r, done[j][r] + 1))
         /\ DOMAIN done' = Jobs
         /\ \A i \in Jobs : /\ done'[i] \in [Ranks(i) -> Nat]
                            /\ \A q \in Ranks(i) :
                                 done'[i][q] = IF i = j /\ q = r THEN done[j][r] + 1
                                               ELSE done[i][q]
<1>1. DOMAIN done = Jobs /\ \A i \in Jobs : DOMAIN done[i] = Ranks(i)
  BY DEF Typed
<1>2. done' = [done EXCEPT ![j][r] = done[j][r] + 1]
  BY DEF Leave
<1>3. /\ DOMAIN done' = Jobs
      /\ \A i \in Jobs : i # j => done'[i] = done[i]
      /\ \A i \in Jobs : \A q \in Ranks(i) :
           done'[i][q] = IF i = j /\ q = r THEN done[j][r] + 1 ELSE done[i][q]
      /\ done'[j] = [done[j] EXCEPT ![r] = done[j][r] + 1]
  BY <1>1, <1>2, Update
<1>4. \A i \in Jobs : done'[i] \in [Ranks(i) -> Nat]
  BY <1>3 DEF Typed
<1>5. Goto(j, r, After(j, r, done[j][r] + 1))
  BY DEF Leave
<1>6. Moves(j, r, After(j, r, done[j][r] + 1))
  BY <1>5, AfterSteps, GotoMoves
<1> QED BY <1>3, <1>4, <1>6

\* Every kind of step, with where it takes which rank.
LEMMA StepEffects ==
  ASSUME Typed, NEW j \in Jobs, NEW r \in Ranks(j)
  PROVE  /\ \A pair \in FilePairs : Quiet(j, r, pair[1], pair[2]) => Moves(j, r, pair[2])
         /\ Quiet(j, r, "print", "flush") => Moves(j, r, "flush")
         /\ r = 0 /\ Import(j) => Moves(j, r, "unlock")
         /\ Redirect(j, r) => Moves(j, r, "parse")
         /\ Parse(j, r) =>
              Moves(j, r, IF scene.option[j].arguments = "wrong" THEN "end" ELSE "restore")
         /\ Restore(j, r) =>
              Moves(j, r, IF scene.option[j].wisdom /\ r = 0 THEN "open" ELSE "call")
         /\ Enter(j, r) => Moves(j, r, IF done[j][r] < Calls(j) THEN "in" ELSE "end")
         /\ Plan(j, r) => Moves(j, r, "call")
         /\ Flush(j, r) => Moves(j, r, "call")
<1> DEFINE To(t) == t \in Steps /\ Goto(j, r, t)
<1>1. \A t : To(t) => Moves(j, r, t)
  BY GotoMoves
<1>2. \A pair \in FilePairs : Quiet(j, r, pair[1], pair[2]) => To(pair[2])
  BY DEF FilePairs, Quiet, Steps
<1>3. Quiet(j, r, "print", "flush") => To("flush")
  BY DEF Quiet, Steps
<1>4. r = 0 /\ Import(j) => To("unlock")
  BY DEF Import, Steps
<1>5. Redirect(j, r) => To("parse")
  BY DEF Redirect, Steps
<1>6. Parse(j, r) => To(IF scene.option[j].arguments = "wrong" THEN "end" ELSE "restore")
  BY DEF Parse, Steps
<1>7. Restore(j, r) => To(IF scene.option[j].wisdom /\ r = 0 THEN "open" ELSE "call")
  BY DEF Restore, Steps
<1>8. Enter(j, r) => To(IF done[j][r] < Calls(j) THEN "in" ELSE "end")
  BY DEF Enter, Steps
<1>9. (Plan(j, r) \/ Flush(j, r)) => To("call")
  BY DEF Plan, Flush, Steps
<1> HIDE DEF To
<1> QED BY <1>1, <1>2, <1>3, <1>4, <1>5, <1>6, <1>7, <1>8, <1>9

---------------------------------------------------------------------------
(* Each part of the invariant is kept by every step.                       *)

\* Printing comes with the barrier of one's turn, and with no other.
LEMMA AfterPrints ==
  ASSUME scene \in Scenes, NEW j \in Jobs, NEW r \in Ranks(j), NEW k \in Nat
  PROVE  After(j, r, k) = "print" <=> Prints(j, r, k)
<1>1. FirstTurn(j) \in {5, 6} /\ Len(Queries) = 5 /\ Ranks(j) \subseteq Nat
  BY Counts
<1>2. CASE Prints(j, r, k)
  <2>1. k = FirstTurn(j) + 1 + r /\ r \in Nat
    BY <1>1, <1>2 DEF Prints, Turn
  <2>2. k # 1 /\ k # 5 /\ k # FirstTurn(j)
    BY <1>1, <2>1
  <2>3. k # 1 /\ k # Len(Queries) /\ k # FirstTurn(j)
    BY <1>1, <2>2
  <2>4. After(j, r, k) = "print"
    BY <1>2, <2>3, Zenon DEF After
  <2> QED BY <1>2, <2>4
<1>3. CASE ~Prints(j, r, k)
  <2>1. After(j, r, k) \in {"abort", "plan", "reopen", "call"}
    BY <1>3, Zenon DEF After
  <2> QED BY <1>3, <2>1
<1> QED BY <1>2, <1>3

\* What follows a collective is none of what precedes the first one.
LEMMA AfterLate ==
  ASSUME NEW j, NEW r, NEW k
  PROVE  After(j, r, k) \in {"abort", "plan", "reopen", "print", "call"}
BY Zenon DEF After

\* The ranks of a job stay at most one collective apart.
LEMMA StaysSynchronous ==
  ASSUME Typed, Synchronous, scene' = scene, NEW j \in Jobs, NEW r \in Ranks(j), Leave(j, r)
  PROVE  Synchronous'
<1>1. /\ step[j][r] = "in"
      /\ \A q \in Ranks(j) : \/ done[j][q] > done[j][r]
                             \/ done[j][q] = done[j][r] /\ step[j][q] = "in"
  BY DEF Leave, At, Entered
<1>2. /\ \A i \in Jobs : Ranks(i)' = Ranks(i) /\ done[i] \in [Ranks(i) -> Nat]
      /\ done[j][r] \in Nat
  BY Fixed DEF Typed
<1>3. /\ \A i \in Jobs : \A q \in Ranks(i) :
           /\ done'[i][q] = IF i = j /\ q = r THEN done[j][r] + 1 ELSE done[i][q]
           /\ ~(i = j /\ q = r) => step'[i][q] = step[i][q]
  BY LeaveCounts DEF Moves
<1>4. ASSUME NEW i \in Jobs, NEW p \in Ranks(i), NEW q \in Ranks(i)
      PROVE  \/ done'[i][q] <= done'[i][p]
             \/ done'[i][q] = done'[i][p] + 1 /\ step'[i][p] = "in"
  <2>1. done[i][q] <= done[i][p] \/ (done[i][q] = done[i][p] + 1 /\ step[i][p] = "in")
    BY DEF Synchronous
  <2>2. done[i][p] \in Nat /\ done[i][q] \in Nat
    BY <1>2
  <2>3. CASE i = j /\ p = r
    BY <1>2, <1>3, <2>1, <2>2, <2>3
  <2>4. CASE i = j /\ q = r /\ p # r
    BY <1>1, <1>2, <1>3, <2>2, <2>4
  <2>5. CASE i # j \/ (p # r /\ q # r)
    BY <1>3, <2>1, <2>5
  <2> QED BY <2>3, <2>4, <2>5
<1> QED BY <1>2, <1>4 DEF Synchronous

\* A rank that moves without leaving a collective was not in one.
LEMMA MovesSynchronous ==
  ASSUME Typed, Synchronous, scene' = scene, done' = done,
         NEW j \in Jobs, NEW r \in Ranks(j), NEW to, Moves(j, r, to), step[j][r] # "in"
  PROVE  Synchronous'
<1>1. \A i \in Jobs : Ranks(i)' = Ranks(i)
  BY Fixed
<1>2. \A i \in Jobs : \A q \in Ranks(i) : step[i][q] = "in" => step'[i][q] = "in"
  BY DEF Moves
<1> QED BY <1>1, <1>2 DEF Synchronous

\* A rank that moves keeps what is known of turns, if it begins printing or
\* ends it no other way than by the barrier of its turn and by flushing.
LEMMA MovesTurns ==
  ASSUME Typed, Turns, scene' = scene, done' = done, shown' = shown,
         NEW j \in Jobs, NEW r \in Ranks(j), NEW to, Moves(j, r, to),
         to \in {"print", "flush"} <=> Printing(j, r)
  PROVE  Turns'
<1>1. \A i \in Jobs : Ranks(i)' = Ranks(i) /\ FirstTurn(i)' = FirstTurn(i)
  BY Fixed
<1>2. \A i \in Jobs : \A q \in Ranks(i) : Printing(i, q)' <=> Printing(i, q)
  BY DEF Moves, Printing
<1> QED BY <1>1, <1>2 DEF Turns, Turn

\* Leaving the barrier of one's turn one prints; later ones are too late.
LEMMA LeaveTurns ==
  ASSUME Typed, Turns, scene' = scene, NEW j \in Jobs, NEW r \in Ranks(j), Leave(j, r)
  PROVE  Turns'
<1> DEFINE k == done[j][r] + 1
<1>1. \A i \in Jobs : Ranks(i)' = Ranks(i) /\ FirstTurn(i)' = FirstTurn(i)
  BY Fixed
<1>2. step[j][r] = "in" /\ shown' = shown /\ k \in Nat /\ done[j][r] \in Nat
  BY DEF Leave, At, ioVars, Typed
<1>3. /\ \A i \in Jobs : \A q \in Ranks(i) :
           /\ done'[i][q] = IF i = j /\ q = r THEN k ELSE done[i][q]
           /\ step'[i][q] = IF i = j /\ q = r THEN After(j, r, k) ELSE step[i][q]
  BY LeaveCounts DEF Moves
<1>4. Printing(j, r)' <=> scene.option[j].dump /\ k = Turn(j, r)
  <2>1. After(j, r, k) \in {"abort", "plan", "reopen", "print", "call"}
    BY AfterLate
  <2>2. After(j, r, k) = "print" <=> scene.option[j].dump /\ k = Turn(j, r)
    BY <1>2, AfterPrints DEF Typed, Prints
  <2> QED BY <1>3, <2>1, <2>2 DEF Printing
<1>5. Turn(j, r) \in Nat /\ ~Printing(j, r)
  BY <1>2, Counts DEF Turn, Typed, Printing
<1>6. r \in shown[j] <=> scene.option[j].dump /\ done[j][r] >= Turn(j, r)
  BY <1>5 DEF Turns
<1>7. /\ Printing(j, r)' => scene.option[j].dump /\ done'[j][r] = Turn(j, r)
      /\ r \in shown[j] <=> /\ scene.option[j].dump
                            /\ done'[j][r] >= Turn(j, r)
                            /\ ~(Printing(j, r)')
  BY <1>2, <1>3, <1>4, <1>5, <1>6
<1>8. \A i \in Jobs : \A q \in Ranks(i) : ~(i = j /\ q = r) =>
        (Printing(i, q)' <=> Printing(i, q)) /\ done'[i][q] = done[i][q]
  BY <1>3 DEF Printing
<1>9. \A i \in Jobs : \A q \in Ranks(i) : Turn(i, q)' = Turn(i, q)
  BY <1>1 DEF Turn
<1> HIDE DEF k
<1>10. ASSUME NEW i \in Jobs, NEW q \in Ranks(i)
       PROVE  /\ Printing(i, q)' => scene.option[i].dump /\ done'[i][q] = Turn(i, q)
              /\ q \in shown[i] <=> /\ scene.option[i].dump
                                    /\ done'[i][q] >= Turn(i, q)
                                    /\ ~(Printing(i, q)')
  <2>1. CASE i = j /\ q = r
    BY <1>7, <2>1
  <2>2. CASE ~(i = j /\ q = r)
    BY <1>8, <2>2 DEF Turns
  <2> QED BY <2>1, <2>2
<1> QED BY <1>1, <1>2, <1>9, <1>10 DEF Turns

\* Flushing, no rank being silent, shows a dump in full.
LEMMA FlushTurns ==
  ASSUME Typed, Turns, Silence, scene' = scene, NEW j \in Jobs, NEW r \in Ranks(j), Flush(j, r)
  PROVE  Turns'
<1>1. \A i \in Jobs : /\ Ranks(i)' = Ranks(i)
                      /\ \A q \in Ranks(i) : Turn(i, q)' = Turn(i, q)
  BY Fixed DEF Turn
<1>2. step[j][r] = "flush" /\ <<j, r>> \notin silent
  BY DEF Flush, At, Silence, SilenceOf
<1>3. shown' = [shown EXCEPT ![j] = @ \cup {r}] /\ done' = done
  BY <1>2 DEF Flush
<1>4. Moves(j, r, "call")
  BY StepEffects
<1>5. scene.option[j].dump /\ done[j][r] = Turn(j, r) /\ Turn(j, r) \in Nat
  BY <1>2, Counts DEF Turns, Printing, Turn, Typed
<1>6. ASSUME NEW i \in Jobs, NEW q \in Ranks(i)
      PROVE  /\ Printing(i, q)' => scene.option[i].dump /\ done[i][q] = Turn(i, q)
             /\ q \in shown'[i] <=> /\ scene.option[i].dump
                                    /\ done[i][q] >= Turn(i, q)
                                    /\ ~(Printing(i, q)')
  <2>1. CASE i = j /\ q = r
    <3>1. ~(Printing(i, q)')
      BY <1>4, <2>1 DEF Moves, Printing
    <3>2. q \in shown'[i]
      BY <1>3, <2>1 DEF Typed
    <3> QED BY <1>5, <2>1, <3>1, <3>2
  <2>2. CASE ~(i = j /\ q = r)
    <3>1. Printing(i, q)' <=> Printing(i, q)
      BY <1>4, <2>2 DEF Moves, Printing
    <3>2. q \in shown'[i] <=> q \in shown[i]
      BY <1>3, <2>2 DEF Typed
    <3> QED BY <3>1, <3>2 DEF Turns
  <2> QED BY <2>1, <2>2
<1> QED BY <1>1, <1>3, <1>6 DEF Turns

\* Every step keeps the ranks in step and their dumps in turn.
LEMMA KeepsTurns ==
  ASSUME Typed, Synchronous, Turns, Silence, [Next]_vars
  PROVE  scene' = scene /\ Synchronous' /\ Turns'
<1>0. \A j \in Jobs : 0 \in Ranks(j)
  BY Counts DEF Typed
<1>1. CASE UNCHANGED Parts
  <2>1. scene' = scene /\ step' = step /\ done' = done /\ shown' = shown
    BY <1>1 DEF Parts
  <2>2. \A j \in Jobs : Ranks(j)' = Ranks(j) /\ FirstTurn(j)' = FirstTurn(j)
    BY <2>1, Fixed
  <2> QED BY <2>1, <2>2 DEF Synchronous, Turns, Turn, Printing
<1>2. ASSUME NEW j \in Jobs, NEW r \in Ranks(j), NEW pair \in FilePairs,
             Quiet(j, r, pair[1], pair[2])
      PROVE  scene' = scene /\ Synchronous' /\ Turns'
  <2>1. UNCHANGED <<scene, done, shown>> /\ step[j][r] = pair[1] /\ Moves(j, r, pair[2])
    BY <1>2, StepEffects DEF Quiet
  <2>2. step[j][r] # "in" /\ ~Printing(j, r) /\ pair[2] \notin {"print", "flush"}
    BY <2>1 DEF FilePairs, Printing
  <2> QED BY <2>1, <2>2, MovesSynchronous, MovesTurns
<1>3. ASSUME NEW j \in Jobs, NEW r \in Ranks(j), Quiet(j, r, "print", "flush")
      PROVE  scene' = scene /\ Synchronous' /\ Turns'
  <2>1. UNCHANGED <<scene, done, shown>> /\ step[j][r] = "print" /\ Moves(j, r, "flush")
    BY <1>3, StepEffects DEF Quiet
  <2>2. step[j][r] # "in" /\ Printing(j, r)
    BY <2>1 DEF Printing
  <2> QED BY <2>1, <2>2, MovesSynchronous, MovesTurns
<1>4. ASSUME NEW j \in Jobs, NEW r \in Ranks(j),
             \/ r = 0 /\ Import(j)
             \/ Redirect(j, r) \/ Parse(j, r) \/ Restore(j, r) \/ Enter(j, r) \/ Plan(j, r)
      PROVE  scene' = scene /\ Synchronous' /\ Turns'
  <2>1. UNCHANGED <<scene, done, shown>>
    BY <1>4 DEF Import, Redirect, Parse, Restore, Enter, Plan, jobVars, ioVars
  <2>2. step[j][r] # "in" /\ ~Printing(j, r)
    BY <1>4 DEF Import, Redirect, Parse, Restore, Enter, Plan, At, Printing
  <2>3. \E to \in {"unlock", "parse", "end", "restore", "open", "call", "in"} : Moves(j, r, to)
    BY <1>4, StepEffects
  <2>4. PICK to \in {"unlock", "parse", "end", "restore", "open", "call", "in"} : Moves(j, r, to)
    BY <2>3
  <2>5. ~(to \in {"print", "flush"})
    BY <2>4
  <2> QED BY <2>1, <2>2, <2>4, <2>5, MovesSynchronous, MovesTurns
<1>5. ASSUME NEW j \in Jobs, NEW r \in Ranks(j), Leave(j, r)
      PROVE  scene' = scene /\ Synchronous' /\ Turns'
  <2>1. scene' = scene
    BY <1>5 DEF Leave, jobVars
  <2> QED BY <1>5, <2>1, StaysSynchronous, LeaveTurns
<1>6. ASSUME NEW j \in Jobs, NEW r \in Ranks(j), Flush(j, r)
      PROVE  scene' = scene /\ Synchronous' /\ Turns'
  <2>1. UNCHANGED <<scene, done>> /\ step[j][r] # "in" /\ Moves(j, r, "call")
    BY <1>6, StepEffects DEF Flush, jobVars, At
  <2> QED BY <1>6, <2>1, MovesSynchronous, FlushTurns
<1> QED BY <1>0, <1>1, <1>2, <1>3, <1>4, <1>5, <1>6, StepKinds

\* Every step keeps a value of each kind for every rank.
LEMMA KeepsTyped ==
  ASSUME Typed, [Next]_vars, scene' = scene
  PROVE  Typed'
<1>0. \A j \in Jobs : 0 \in Ranks(j) /\ Ranks(j)' = Ranks(j)
  BY Counts, Fixed DEF Typed
<1>1. CASE UNCHANGED Parts
  BY <1>0, <1>1 DEF Parts, Typed
<1>2. ASSUME NEW j \in Jobs, NEW r \in Ranks(j), NEW to, Moves(j, r, to),
             UNCHANGED <<done, shown>>, DOMAIN told' = Jobs,
             DOMAIN status' = Jobs, DOMAIN wisdom' = Jobs,
             \A i \in Jobs : DOMAIN status'[i] = Ranks(i) /\ DOMAIN wisdom'[i] = Ranks(i)
      PROVE  Typed'
  BY <1>0, <1>2 DEF Typed, Moves
<1>3. ASSUME NEW j \in Jobs, NEW r \in Ranks(j),
             \/ \E pair \in FilePairs : Quiet(j, r, pair[1], pair[2])
             \/ Quiet(j, r, "print", "flush")
             \/ Redirect(j, r) \/ Restore(j, r)
      PROVE  Typed'
  <2>1. UNCHANGED <<done, shown, told, status, wisdom>>
    BY <1>3 DEF Quiet, Redirect, Restore
  <2>2. \E to \in Steps : Moves(j, r, to)
    BY <1>3, StepEffects DEF FilePairs, Steps
  <2> QED BY <1>2, <2>1, <2>2 DEF Typed
<1>4. ASSUME NEW j \in Jobs, NEW r \in Ranks(j), Parse(j, r)
      PROVE  Typed'
  <2>1. UNCHANGED <<done, shown, wisdom>>
    BY <1>4 DEF Parse
  <2>2. /\ told' = told \/ told' = [told EXCEPT ![j] = @ + 1]
        /\ status' = status \/ status' = [status EXCEPT ![j][r] = "usage"]
    BY <1>4 DEF Parse
  <2>3. DOMAIN told' = Jobs /\ DOMAIN status' = Jobs
        /\ \A i \in Jobs : DOMAIN status'[i] = Ranks(i)
    BY <2>2 DEF Typed
  <2>4. \E to \in Steps : Moves(j, r, to)
    BY <1>4, StepEffects DEF Steps
  <2> QED BY <1>2, <2>1, <2>3, <2>4 DEF Typed
<1>5. ASSUME NEW j \in Jobs, NEW r \in Ranks(j), Enter(j, r)
      PROVE  Typed'
  <2>1. UNCHANGED <<done, shown, told, wisdom>>
    BY <1>5 DEF Enter, ioVars
  <2>2. status' = status \/ status' = [status EXCEPT ![j][r] = "fine"]
    BY <1>5 DEF Enter
  <2>3. DOMAIN status' = Jobs /\ \A i \in Jobs : DOMAIN status'[i] = Ranks(i)
    BY <2>2 DEF Typed
  <2>4. \E to \in Steps : Moves(j, r, to)
    BY <1>5, StepEffects DEF Steps
  <2> QED BY <1>2, <2>1, <2>3, <2>4 DEF Typed
<1>6. ASSUME NEW j \in Jobs, NEW r \in Ranks(j), (r = 0 /\ Import(j)) \/ Plan(j, r)
      PROVE  Typed'
  <2>1. UNCHANGED <<done, shown, told, status>>
    BY <1>6 DEF Import, Plan, ioVars
  <2>2. \E known : wisdom' = [wisdom EXCEPT ![j][r] = known]
    BY <1>6 DEF Import, Plan
  <2>3. DOMAIN wisdom' = Jobs /\ \A i \in Jobs : DOMAIN wisdom'[i] = Ranks(i)
    BY <2>2 DEF Typed
  <2>4. \E to \in Steps : Moves(j, r, to)
    BY <1>6, StepEffects DEF Steps
  <2> QED BY <1>2, <2>1, <2>3, <2>4 DEF Typed
<1>7. ASSUME NEW j \in Jobs, NEW r \in Ranks(j), Leave(j, r)
      PROVE  Typed'
  <2>1. UNCHANGED <<shown, told>>
    BY <1>7 DEF Leave, ioVars
  <2>2. /\ wisdom' = [wisdom EXCEPT ![j][r] = Learned(j, r, done[j][r] + 1)]
        /\ status' = [status EXCEPT ![j][r] = Judged(j, r, done[j][r] + 1)]
    BY <1>7 DEF Leave
  <2>3. /\ DOMAIN status' = Jobs /\ \A i \in Jobs : DOMAIN status'[i] = Ranks(i)
        /\ DOMAIN wisdom' = Jobs /\ \A i \in Jobs : DOMAIN wisdom'[i] = Ranks(i)
    BY <2>2 DEF Typed
  <2> QED BY <1>0, <1>7, <2>1, <2>3, LeaveCounts DEF Typed, Moves
<1>8. ASSUME NEW j \in Jobs, NEW r \in Ranks(j), Flush(j, r)
      PROVE  Typed'
  <2>1. UNCHANGED <<done, told, status, wisdom>> /\ Moves(j, r, "call")
    BY <1>8, StepEffects DEF Flush
  <2>2. shown' = shown \/ shown' = [shown EXCEPT ![j] = @ \cup {r}]
    BY <1>8 DEF Flush
  <2>3. DOMAIN shown' = Jobs /\ \A i \in Jobs : shown'[i] \subseteq Ranks(i)
    BY <2>2 DEF Typed
  <2> QED BY <1>0, <2>1, <2>3 DEF Typed, Moves
<1> QED BY <1>0, <1>1, <1>3, <1>4, <1>5, <1>6, <1>7, <1>8, StepKinds

\* Every step keeps who is silent.
LEMMA KeepsSilence ==
  ASSUME Typed, Silence, [Next]_vars, scene' = scene
  PROVE  Silence'
<1>0. \A j \in Jobs : 0 \in Ranks(j) /\ Ranks(j)' = Ranks(j)
  BY Counts, Fixed DEF Typed
<1>1. CASE UNCHANGED Parts
  BY <1>0, <1>1 DEF Parts, Silence, SilenceOf
<1>2. ASSUME NEW j \in Jobs, NEW r \in Ranks(j), NEW to, Moves(j, r, to), to # "parse",
             silent' = silent, step[j][r] \notin {"parse", "restore", "end"}
      PROVE  Silence'
  <2>1. ASSUME NEW i \in Jobs, NEW q \in Ranks(i)
        PROVE  SilenceOf(i, q)'
    <3>1. step'[i][q] = IF i = j /\ q = r THEN to ELSE step[i][q]
      BY <1>2 DEF Moves
    <3>2. SilenceOf(i, q)
      BY DEF Silence
    <3> QED BY <1>2, <3>1, <3>2 DEF SilenceOf
  <2> QED BY <1>0, <2>1 DEF Silence
<1>3. ASSUME NEW j \in Jobs, NEW r \in Ranks(j),
             \/ \E pair \in FilePairs : Quiet(j, r, pair[1], pair[2])
             \/ Quiet(j, r, "print", "flush")
      PROVE  Silence'
  <2>1. silent' = silent /\ step[j][r] \notin {"parse", "restore", "end"}
    BY <1>3 DEF Quiet, FilePairs
  <2>2. \E to \in Steps : Moves(j, r, to) /\ to # "parse"
    BY <1>3, StepEffects DEF FilePairs, Steps
  <2> QED BY <1>2, <2>1, <2>2
<1>4. ASSUME NEW j \in Jobs, NEW r \in Ranks(j),
             \/ r = 0 /\ Import(j)
             \/ Enter(j, r) \/ Leave(j, r) \/ Plan(j, r) \/ Flush(j, r)
      PROVE  Silence'
  <2>1. silent' = silent
    BY <1>4 DEF Import, Enter, Leave, Plan, Flush, ioVars
  <2>2. step[j][r] \notin {"parse", "restore", "end"}
    BY <1>4 DEF Import, Enter, Leave, Plan, Flush, At
  <2>3. After(j, r, done[j][r] + 1) # "parse"
    BY AfterLate
  <2>4. \E to : Moves(j, r, to) /\ to # "parse"
    BY <1>4, <2>3, StepEffects, LeaveCounts
  <2> QED BY <1>2, <2>1, <2>2, <2>4
<1>5. ASSUME NEW j \in Jobs, NEW r \in Ranks(j), Redirect(j, r)
      PROVE  Silence'
  <2>1. Moves(j, r, "parse") /\ silent' = IF r # 0 THEN silent \cup {<<j, r>>} ELSE silent
    BY <1>5, StepEffects DEF Redirect
  <2>2. step[j][r] = "redirect"
    BY <1>5 DEF Redirect, At
  <2>3. ASSUME NEW i \in Jobs, NEW q \in Ranks(i)
        PROVE  SilenceOf(i, q)'
    <3>1. SilenceOf(i, q)
      BY DEF Silence
    <3>2. CASE i = j /\ q = r
      BY <2>1, <2>2, <3>1, <3>2 DEF SilenceOf, Moves
    <3>3. CASE ~(i = j /\ q = r)
      <4>1. step'[i][q] = step[i][q]
        BY <2>1, <3>3 DEF Moves
      <4>2. <<i, q>> \in silent' <=> <<i, q>> \in silent
        BY <2>1, <3>3
      <4> QED BY <3>1, <4>1, <4>2 DEF SilenceOf
    <3> QED BY <3>2, <3>3
  <2> QED BY <1>0, <2>3 DEF Silence
<1>6. ASSUME NEW j \in Jobs, NEW r \in Ranks(j), Parse(j, r)
      PROVE  Silence'
  <2>1. silent' = silent /\ (Moves(j, r, "end") \/ Moves(j, r, "restore"))
    BY <1>6, StepEffects DEF Parse
  <2>2. step[j][r] = "parse"
    BY <1>6 DEF Parse, At
  <2>3. ASSUME NEW i \in Jobs, NEW q \in Ranks(i)
        PROVE  SilenceOf(i, q)'
    <3>1. SilenceOf(i, q)
      BY DEF Silence
    <3>2. CASE i = j /\ q = r
      BY <2>1, <2>2, <3>1, <3>2 DEF SilenceOf, Moves
    <3>3. CASE ~(i = j /\ q = r)
      <4>1. step'[i][q] = step[i][q]
        BY <2>1, <3>3 DEF Moves
      <4>2. <<i, q>> \in silent' <=> <<i, q>> \in silent
        BY <2>1, <3>3
      <4> QED BY <3>1, <4>1, <4>2 DEF SilenceOf
    <3> QED BY <3>2, <3>3
  <2> QED BY <1>0, <2>3 DEF Silence
<1>7. ASSUME NEW j \in Jobs, NEW r \in Ranks(j), Restore(j, r)
      PROVE  Silence'
  <2>1. silent' = silent \ {<<j, r>>} /\ (Moves(j, r, "open") \/ Moves(j, r, "call"))
    BY <1>7, StepEffects DEF Restore
  <2>3. ASSUME NEW i \in Jobs, NEW q \in Ranks(i)
        PROVE  SilenceOf(i, q)'
    <3>1. SilenceOf(i, q)
      BY DEF Silence
    <3>2. CASE i = j /\ q = r
      BY <2>1, <3>1, <3>2 DEF SilenceOf, Moves
    <3>3. CASE ~(i = j /\ q = r)
      <4>1. step'[i][q] = step[i][q]
        BY <2>1, <3>3 DEF Moves
      <4>2. <<i, q>> \in silent' <=> <<i, q>> \in silent
        BY <2>1, <3>3
      <4> QED BY <3>1, <4>1, <4>2 DEF SilenceOf
    <3> QED BY <3>2, <3>3
  <2> QED BY <1>0, <2>3 DEF Silence
<1> QED BY <1>0, <1>1, <1>3, <1>4, <1>5, <1>6, <1>7, StepKinds

\* Every step keeps the verdicts.
LEMMA KeepsVerdicts ==
  ASSUME Typed, Verdicts, [Next]_vars, scene' = scene
  PROVE  Verdicts'
<1>0. \A j \in Jobs : 0 \in Ranks(j) /\ Ranks(j)' = Ranks(j) /\ Calls(j)' = Calls(j)
  BY Counts, Fixed DEF Typed
<1>1. \A j \in Jobs : /\ Judges(j)' <=> Judges(j)
                      /\ \A r \in Ranks(j) : TooMuchError(j, r)' <=> TooMuchError(j, r)
  BY <1>0 DEF Judges, TooMuchError
<1>2. ASSUME NEW i \in Jobs, NEW q \in Ranks(i),
             step'[i][q] = step[i][q], done'[i][q] = done[i][q], status'[i][q] = status[i][q]
      PROVE  VerdictOf(i, q)'
  <2>1. VerdictOf(i, q)
    BY DEF Verdicts
  <2>2. Verdict(i, q)' = Verdict(i, q)
    BY <1>0, <1>1, <1>2 DEF Verdict
  <2> QED BY <1>0, <1>2, <2>1, <2>2 DEF VerdictOf
<1>3. CASE UNCHANGED Parts
  <2>1. UNCHANGED <<step, done, status>>
    BY <1>3 DEF Parts
  <2> QED BY <1>0, <1>2, <2>1 DEF Verdicts
<1>4. ASSUME NEW j \in Jobs, NEW r \in Ranks(j), NEW to, Moves(j, r, to), done' = done,
             \A i \in Jobs : \A q \in Ranks(i) : ~(i = j /\ q = r) =>
                status'[i][q] = status[i][q],
             VerdictOf(j, r)'
      PROVE  Verdicts'
  <2>1. ASSUME NEW i \in Jobs, NEW q \in Ranks(i), ~(i = j /\ q = r)
        PROVE  VerdictOf(i, q)'
    <3>1. step'[i][q] = step[i][q] /\ status'[i][q] = status[i][q]
      BY <1>4, <2>1 DEF Moves
    <3> QED BY <1>2, <1>4, <3>1
  <2>2. \A i \in Jobs : \A q \in Ranks(i) : VerdictOf(i, q)'
    BY <1>4, <2>1
  <2> QED BY <1>0, <2>2 DEF Verdicts
<1>5. ASSUME NEW j \in Jobs, NEW r \in Ranks(j), NEW to, Moves(j, r, to), done' = done,
             status' = status, to \notin {"in", "end"}, step[j][r] # "end",
             scene.option[j].arguments = "wrong" /\ step[j][r] = "redirect" => to = "parse",
             scene.option[j].arguments = "wrong" => step[j][r] # "parse"
      PROVE  Verdicts'
  <2>1. VerdictOf(j, r) /\ step'[j][r] = to
    BY <1>5 DEF Verdicts, Moves
  <2>2. Verdict(j, r)' = Verdict(j, r)
    BY <1>0, <1>1, <1>5, <2>1 DEF Verdict
  <2>3. VerdictOf(j, r)'
    BY <1>0, <1>5, <2>1, <2>2 DEF VerdictOf
  <2> QED BY <1>4, <1>5, <2>3
<1>6. ASSUME NEW j \in Jobs, NEW r \in Ranks(j),
             \/ \E pair \in FilePairs : Quiet(j, r, pair[1], pair[2])
             \/ Quiet(j, r, "print", "flush")
             \/ r = 0 /\ Import(j)
             \/ Redirect(j, r) \/ Restore(j, r) \/ Plan(j, r) \/ Flush(j, r)
      PROVE  Verdicts'
  <2>1. done' = done /\ status' = status
    BY <1>6 DEF Quiet, Import, Redirect, Restore, Plan, Flush
  <2>2. step[j][r] \notin {"end", "parse"}
    BY <1>6 DEF Quiet, FilePairs, Import, Redirect, Restore, Plan, Flush, At
  <2>3. \E to \in Steps : /\ Moves(j, r, to) /\ to \notin {"in", "end"}
                          /\ step[j][r] = "redirect" => to = "parse"
    <3>1. CASE \E pair \in FilePairs : Quiet(j, r, pair[1], pair[2])
      BY <3>1, StepEffects DEF Quiet, FilePairs, Steps
    <3>2. CASE Redirect(j, r)
      BY <3>2, StepEffects DEF Steps
    <3>3. CASE \/ Quiet(j, r, "print", "flush") \/ (r = 0 /\ Import(j))
               \/ Restore(j, r) \/ Plan(j, r) \/ Flush(j, r)
      <4>1. step[j][r] # "redirect"
        BY <3>3 DEF Quiet, Import, Restore, Plan, Flush, At
      <4> QED BY <3>3, <4>1, StepEffects DEF Steps
    <3> QED BY <1>6, <3>1, <3>2, <3>3
  <2> QED BY <1>5, <2>1, <2>2, <2>3
<1>7. ASSUME NEW j \in Jobs, NEW r \in Ranks(j), Parse(j, r)
      PROVE  Verdicts'
  <2>1. step[j][r] = "parse" /\ done' = done /\ VerdictOf(j, r)
    BY <1>7 DEF Parse, At, Verdicts
  <2>2. CASE scene.option[j].arguments = "wrong"
    <3>1. Moves(j, r, "end") /\ status' = [status EXCEPT ![j][r] = "usage"]
      BY <1>7, <2>2, StepEffects DEF Parse
    <3>2. /\ \A i \in Jobs : \A q \in Ranks(i) : ~(i = j /\ q = r) =>
               status'[i][q] = status[i][q]
          /\ status'[j][r] = "usage" /\ step'[j][r] = "end"
      BY <3>1 DEF Typed, Moves
    <3>3. VerdictOf(j, r)'
      BY <1>0, <2>1, <2>2, <3>2 DEF VerdictOf, Verdict
    <3> QED BY <1>4, <2>1, <3>1, <3>2, <3>3
  <2>3. CASE scene.option[j].arguments # "wrong"
    <3>1. Moves(j, r, "restore") /\ status' = status
      BY <1>7, <2>3, StepEffects DEF Parse
    <3> QED BY <1>5, <2>1, <2>3, <3>1
  <2> QED BY <2>2, <2>3
<1>8. ASSUME NEW j \in Jobs, NEW r \in Ranks(j), Enter(j, r)
      PROVE  Verdicts'
  <2>1. step[j][r] = "call" /\ done' = done /\ VerdictOf(j, r)
    BY <1>8 DEF Enter, At, Verdicts
  <2>2. /\ scene.option[j].arguments # "wrong" /\ done[j][r] <= Calls(j)
        /\ status[j][r] = Verdict(j, r)
    BY <2>1 DEF VerdictOf
  <2>3. done[j][r] \in Nat /\ Calls(j) \in Nat
    BY Counts DEF Typed
  <2>4. CASE done[j][r] < Calls(j)
    <3>1. Moves(j, r, "in") /\ status' = status
      BY <1>8, <2>3, <2>4, StepEffects DEF Enter
    <3>2. step'[j][r] = "in"
      BY <3>1 DEF Moves
    <3>3. VerdictOf(j, r)'
      BY <1>0, <1>1, <2>1, <2>2, <2>4, <3>1, <3>2 DEF VerdictOf, Verdict
    <3> QED BY <1>4, <2>1, <3>1, <3>3
  <2>5. CASE done[j][r] = Calls(j)
    <3>1. /\ Moves(j, r, "end")
          /\ status' = IF status[j][r] = "none" THEN [status EXCEPT ![j][r] = "fine"] ELSE status
      BY <1>8, <2>3, <2>5, StepEffects DEF Enter
    <3>2. /\ step'[j][r] = "end"
          /\ status'[j][r] = IF status[j][r] = "none" THEN "fine" ELSE status[j][r]
          /\ \A i \in Jobs : \A q \in Ranks(i) : ~(i = j /\ q = r) =>
               status'[i][q] = status[i][q]
      BY <3>1 DEF Moves, Typed
    <3>3. VerdictOf(j, r)'
      BY <1>0, <1>1, <2>1, <2>2, <2>5, <3>2 DEF VerdictOf, Verdict
    <3> QED BY <1>4, <2>1, <3>1, <3>2, <3>3
  <2> QED BY <2>2, <2>3, <2>4, <2>5
<1>9. ASSUME NEW j \in Jobs, NEW r \in Ranks(j), Leave(j, r)
      PROVE  Verdicts'
  <2>1. step[j][r] = "in" /\ VerdictOf(j, r)
    BY <1>9 DEF Leave, At, Verdicts
  <2>2. /\ scene.option[j].arguments # "wrong" /\ done[j][r] < Calls(j)
        /\ done[j][r] \in Nat /\ Calls(j) \in Nat
    BY <2>1, Counts DEF VerdictOf, Typed
  <2>3. status[j][r] = "none"
    BY <2>1, <2>2 DEF VerdictOf, Verdict
  <2>4. status' = [status EXCEPT ![j][r] = Judged(j, r, done[j][r] + 1)]
    BY <1>9 DEF Leave
  <2>5. \A i \in Jobs : \A q \in Ranks(i) :
          /\ status'[i][q] = IF i = j /\ q = r THEN Judged(j, r, done[j][r] + 1)
                             ELSE status[i][q]
          /\ done'[i][q] = IF i = j /\ q = r THEN done[j][r] + 1 ELSE done[i][q]
          /\ step'[i][q] = IF i = j /\ q = r THEN After(j, r, done[j][r] + 1) ELSE step[i][q]
    BY <1>9, <2>4, LeaveCounts DEF Moves, Typed
  <2>6. After(j, r, done[j][r] + 1) \notin {"in", "end"}
    BY AfterLate
  <2>7. VerdictOf(j, r)'
    BY <1>0, <1>1, <2>2, <2>3, <2>5, <2>6 DEF VerdictOf, Verdict, Judged, Judges
  <2>8. ASSUME NEW i \in Jobs, NEW q \in Ranks(i), ~(i = j /\ q = r)
        PROVE  VerdictOf(i, q)'
    BY <1>2, <2>5, <2>8
  <2> QED BY <1>0, <2>7, <2>8 DEF Verdicts
<1> QED BY <1>0, <1>3, <1>6, <1>7, <1>8, <1>9, StepKinds

\* Every step keeps the count of complaints.
LEMMA KeepsComplaints ==
  ASSUME Typed, Silence, Verdicts, Complaints, [Next]_vars
  PROVE  Complaints'
<1>0. \A j \in Jobs : 0 \in Ranks(j)
  BY Counts DEF Typed
<1>1. ASSUME told' = told, \A i \in Jobs : status'[i][0] = "usage" <=> status[i][0] = "usage"
      PROVE  Complaints'
  BY <1>1 DEF Complaints
<1>2. CASE UNCHANGED Parts
  BY <1>1, <1>2 DEF Parts
<1>3. ASSUME NEW j \in Jobs, NEW r \in Ranks(j),
             \/ \E pair \in FilePairs : Quiet(j, r, pair[1], pair[2])
             \/ Quiet(j, r, "print", "flush")
             \/ r = 0 /\ Import(j)
             \/ Redirect(j, r) \/ Restore(j, r) \/ Plan(j, r) \/ Flush(j, r)
      PROVE  Complaints'
  <2>1. told' = told /\ status' = status
    BY <1>3 DEF Quiet, Import, Redirect, Restore, Plan, Flush, ioVars
  <2> QED BY <1>1, <2>1
<1>4. ASSUME NEW j \in Jobs, NEW r \in Ranks(j), Parse(j, r)
      PROVE  Complaints'
  <2>1. CASE scene.option[j].arguments # "wrong"
    <3>1. told' = told /\ status' = status
      BY <1>4, <2>1 DEF Parse
    <3> QED BY <1>1, <3>1
  <2>2. CASE scene.option[j].arguments = "wrong" /\ r # 0
    <3>1. step[j][r] = "parse" /\ <<j, r>> \in silent
      BY <1>4, <2>2 DEF Parse, At, Silence, SilenceOf
    <3>2. told' = told /\ status' = [status EXCEPT ![j][r] = "usage"]
      BY <1>4, <2>2, <3>1 DEF Parse
    <3>3. \A i \in Jobs : status'[i][0] = status[i][0]
      BY <1>0, <2>2, <3>2 DEF Typed
    <3> QED BY <1>1, <3>2, <3>3
  <2>3. CASE scene.option[j].arguments = "wrong" /\ r = 0
    <3>1. step[j][0] = "parse" /\ <<j, 0>> \notin silent
      BY <1>0, <1>4, <2>3 DEF Parse, At, Silence, SilenceOf
    <3>2. status[j][0] = "none"
      BY <1>0, <2>3, <3>1 DEF Verdicts, VerdictOf, Verdict
    <3>3. told' = [told EXCEPT ![j] = @ + 1] /\ status' = [status EXCEPT ![j][0] = "usage"]
      BY <1>4, <2>3, <3>1 DEF Parse
    <3>4. told[j] = 0
      BY <3>2 DEF Complaints
    <3>5. /\ told'[j] = 1 /\ status'[j][0] = "usage"
          /\ \A i \in Jobs \ {j} : told'[i] = told[i] /\ status'[i][0] = status[i][0]
      BY <1>0, <3>3, <3>4 DEF Typed
    <3> QED BY <3>5 DEF Complaints
  <2> QED BY <2>1, <2>2, <2>3
<1>5. ASSUME NEW j \in Jobs, NEW r \in Ranks(j), Enter(j, r) \/ Leave(j, r)
      PROVE  Complaints'
  <2>1. told' = told
    BY <1>5 DEF Enter, Leave, ioVars
  <2>2. scene.option[j].arguments # "wrong"
    <3>1. step[j][r] \in {"call", "in"}
      BY <1>5 DEF Enter, Leave, At
    <3> QED BY <3>1 DEF Verdicts, VerdictOf
  <2>3. status[j][0] # "usage" /\ status[j][r] # "usage"
    BY <1>0, <2>2 DEF Verdicts, VerdictOf, Verdict
  <2>4. status' = status \/ \E s : s # "usage" /\ status' = [status EXCEPT ![j][r] = s]
    <3>1. CASE Enter(j, r)
      <4>1. status' = status \/ status' = [status EXCEPT ![j][r] = "fine"]
        BY <3>1 DEF Enter
      <4> QED BY <4>1
    <3>2. CASE Leave(j, r)
      <4>1. status' = [status EXCEPT ![j][r] = Judged(j, r, done[j][r] + 1)]
        BY <3>2 DEF Leave
      <4>2. Judged(j, r, done[j][r] + 1) # "usage"
        BY <2>3 DEF Judged
      <4> QED BY <4>1, <4>2
    <3> QED BY <1>5, <3>1, <3>2
  <2>5. \A i \in Jobs : status'[i][0] = "usage" <=> status[i][0] = "usage"
    BY <1>0, <2>3, <2>4 DEF Typed
  <2> QED BY <1>1, <2>1, <2>5
<1> QED BY <1>0, <1>2, <1>3, <1>4, <1>5, StepKinds

\* Every step keeps the file to rank 0, before any collective.
LEMMA KeepsEarlyFirst ==
  ASSUME Typed, EarlyFirst, Verdicts, [Next]_vars, scene' = scene
  PROVE  EarlyFirst'
<1>0. \A j \in Jobs : 0 \in Ranks(j) /\ Ranks(j)' = Ranks(j)
  BY Counts, Fixed DEF Typed
<1>1. CASE UNCHANGED Parts
  BY <1>0, <1>1 DEF Parts, EarlyFirst, EarlyOf
<1>2. ASSUME NEW j \in Jobs, NEW r \in Ranks(j), NEW to, Moves(j, r, to), done' = done,
             to \in EarlySteps => step[j][r] \in EarlySteps,
             to \in {"open", "lock", "import", "unlock"} => r = 0, to # "plan"
      PROVE  EarlyFirst'
  <2>1. ASSUME NEW i \in Jobs, NEW q \in Ranks(i)
        PROVE  EarlyOf(i, q)'
    <3>1. step'[i][q] = IF i = j /\ q = r THEN to ELSE step[i][q]
      BY <1>2 DEF Moves
    <3>2. EarlyOf(i, q)
      BY DEF EarlyFirst
    <3> QED BY <1>2, <3>1, <3>2 DEF EarlyOf
  <2> QED BY <1>0, <2>1 DEF EarlyFirst
<1>3. ASSUME NEW j \in Jobs, NEW r \in Ranks(j), NEW pair \in FilePairs, r = 0,
             Quiet(j, r, pair[1], pair[2])
      PROVE  EarlyFirst'
  <2>1. Moves(j, r, pair[2]) /\ done' = done /\ step[j][r] = pair[1]
    BY <1>3, StepEffects DEF Quiet
  <2>2. pair[2] # "plan" /\ (pair[2] \in EarlySteps => pair[1] \in EarlySteps)
    BY DEF FilePairs, EarlySteps
  <2> QED BY <1>2, <1>3, <2>1, <2>2
<1>4. ASSUME NEW j \in Jobs, NEW r \in Ranks(j),
             \/ Quiet(j, r, "print", "flush") \/ (r = 0 /\ Import(j))
             \/ Redirect(j, r) \/ Parse(j, r) \/ Restore(j, r)
             \/ Enter(j, r) \/ Plan(j, r) \/ Flush(j, r)
      PROVE  EarlyFirst'
  <2>1. done' = done
    BY <1>4 DEF Quiet, Import, Redirect, Parse, Restore, Enter, Plan, Flush
  <2>2. \E to : /\ Moves(j, r, to)
                /\ to \in EarlySteps => step[j][r] \in EarlySteps
                /\ to \in {"open", "lock", "import", "unlock"} => r = 0
                /\ to # "plan"
    <3>1. CASE Quiet(j, r, "print", "flush") \/ Enter(j, r) \/ Plan(j, r) \/ Flush(j, r)
      <4>1. \E to \in {"flush", "in", "end", "call"} : Moves(j, r, to)
        BY <3>1, StepEffects
      <4> QED BY <4>1 DEF EarlySteps
    <3>2. CASE (r = 0 /\ Import(j)) \/ Redirect(j, r) \/ Parse(j, r) \/ Restore(j, r)
      <4>1. step[j][r] \in EarlySteps
        BY <3>2 DEF Import, Redirect, Parse, Restore, At, EarlySteps
      <4>2. \E to : /\ Moves(j, r, to)
                    /\ to \in {"open", "lock", "import", "unlock"} => r = 0
                    /\ to # "plan"
        BY <3>2, StepEffects
      <4> QED BY <4>1, <4>2
    <3> QED BY <1>4, <3>1, <3>2
  <2> QED BY <1>2, <2>1, <2>2
<1>5. ASSUME NEW j \in Jobs, NEW r \in Ranks(j), Leave(j, r)
      PROVE  EarlyFirst'
  <2>1. After(j, r, done[j][r] + 1) \notin EarlySteps
    BY AfterLate DEF EarlySteps
  <2>2. ASSUME NEW i \in Jobs, NEW q \in Ranks(i)
        PROVE  EarlyOf(i, q)'
    <3>1. /\ step'[i][q] = IF i = j /\ q = r THEN After(j, r, done[j][r] + 1)
                           ELSE step[i][q]
          /\ done'[i][q] = IF i = j /\ q = r THEN done[j][r] + 1 ELSE done[i][q]
      BY <1>5, LeaveCounts DEF Moves
    <3>2. EarlyOf(i, q)
      BY DEF EarlyFirst
    <3>3. done[j][r] + 1 # 0
      BY DEF Typed
    <3> QED BY <2>1, <3>1, <3>2, <3>3 DEF EarlyOf, EarlySteps
  <2> QED BY <1>0, <2>2 DEF EarlyFirst
<1> QED BY <1>0, <1>1, <1>3, <1>4, <1>5, StepKinds

\* Every step keeps the knowledge of other jobs the same on all ranks.
LEMMA KeepsKnowledge ==
  ASSUME Typed, EarlyFirst, Synchronous, Knowledge, [Next]_vars, scene' = scene
  PROVE  Knowledge'
<1>0. \A j \in Jobs : 0 \in Ranks(j) /\ Ranks(j)' = Ranks(j)
  BY Counts, Fixed DEF Typed
<1>1. ASSUME wisdom' = wisdom, done' = done
      PROVE  Knowledge'
  BY <1>0, <1>1 DEF Knowledge, KnowledgeOf, Foreign
<1>2. CASE UNCHANGED Parts
  BY <1>1, <1>2 DEF Parts
<1>3. ASSUME NEW j \in Jobs, NEW r \in Ranks(j),
             \/ \E pair \in FilePairs : Quiet(j, r, pair[1], pair[2])
             \/ Quiet(j, r, "print", "flush")
             \/ Redirect(j, r) \/ Parse(j, r) \/ Restore(j, r)
             \/ Enter(j, r) \/ Flush(j, r)
      PROVE  Knowledge'
  <2>1. wisdom' = wisdom /\ done' = done
    BY <1>3 DEF Quiet, Redirect, Parse, Restore, Enter, Flush
  <2> QED BY <1>1, <2>1
<1>4. ASSUME NEW j \in Jobs, Import(j)
      PROVE  Knowledge'
  <2>1. step[j][0] = "import" /\ done' = done
    BY <1>4 DEF Import, At
  <2>2. \A q \in Ranks(j) : done[j][q] = 0
    <3>1. done[j][0] = 0
      BY <1>0, <2>1 DEF EarlyFirst, EarlyOf, EarlySteps
    <3> QED BY <1>0, <2>1, <3>1 DEF Synchronous, Typed
  <2>3. \A i \in Jobs : \A q \in Ranks(i) : ~(i = j /\ q = 0) => wisdom'[i][q] = wisdom[i][q]
    BY <1>0, <1>4 DEF Import, Typed
  <2>4. ASSUME NEW i \in Jobs, NEW q \in Ranks(i)
        PROVE  KnowledgeOf(i, q)'
    <3>1. KnowledgeOf(i, q)
      BY DEF Knowledge
    <3>2. CASE i = j
      BY <2>1, <2>2, <2>3, <3>1, <3>2 DEF KnowledgeOf
    <3>3. CASE i # j
      <4>1. wisdom'[i][q] = wisdom[i][q] /\ wisdom'[i][0] = wisdom[i][0]
        BY <1>0, <2>3, <3>3
      <4> QED BY <2>1, <3>1, <4>1 DEF KnowledgeOf, Foreign
    <3> QED BY <3>2, <3>3
  <2> QED BY <1>0, <2>4 DEF Knowledge
<1>5. ASSUME NEW j \in Jobs, NEW r \in Ranks(j),
             \A i \in Jobs : \A q \in Ranks(i) :
               /\ ~(i = j /\ q = r) => done'[i][q] = done[i][q] /\ wisdom'[i][q] = wisdom[i][q]
               /\ Foreign(i, q)' = Foreign(i, q),
             done'[j][r] # 0, done[j][r] = 0 => r = 0
      PROVE  Knowledge'
  <2>1. ASSUME NEW i \in Jobs, NEW q \in Ranks(i)
        PROVE  KnowledgeOf(i, q)'
    <3>1. KnowledgeOf(i, q) /\ Foreign(i, 0)' = Foreign(i, 0) /\ Foreign(i, q)' = Foreign(i, q)
      BY <1>0, <1>5 DEF Knowledge
    <3>2. CASE i = j /\ q = r
      <4>1. done[i][q] \in Nat
        BY DEF Typed
      <4> QED BY <1>5, <3>1, <3>2, <4>1 DEF KnowledgeOf
    <3>3. CASE ~(i = j /\ q = r)
      BY <1>5, <3>1, <3>3 DEF KnowledgeOf
    <3> QED BY <3>2, <3>3
  <2> QED BY <1>0, <2>1 DEF Knowledge
<1>6. ASSUME NEW j \in Jobs, NEW r \in Ranks(j), Plan(j, r)
      PROVE  Knowledge'
  <2>1. step[j][r] = "plan" /\ done' = done /\ done[j][r] # 0
    BY <1>6 DEF Plan, At, EarlyFirst, EarlyOf
  <2>2. \A i \in Jobs : \A q \in Ranks(i) :
          wisdom'[i][q] = IF i = j /\ q = r THEN wisdom[j][r] \cup {<<j, r>>} ELSE wisdom[i][q]
    BY <1>6 DEF Plan, Typed
  <2>3. \A i \in Jobs : \A q \in Ranks(i) : Foreign(i, q)' = Foreign(i, q)
    BY <2>2 DEF Foreign
  <2> QED BY <1>5, <2>1, <2>2, <2>3
<1>7. ASSUME NEW j \in Jobs, NEW r \in Ranks(j), Leave(j, r)
      PROVE  Knowledge'
  <2> DEFINE k == done[j][r] + 1
  <2>1. \A i \in Jobs : \A q \in Ranks(i) :
          /\ wisdom'[i][q] = IF i = j /\ q = r THEN Learned(j, r, k) ELSE wisdom[i][q]
          /\ done'[i][q] = IF i = j /\ q = r THEN k ELSE done[i][q]
    <3>1. wisdom' = [wisdom EXCEPT ![j][r] = Learned(j, r, k)]
      BY <1>7 DEF Leave
    <3>2. \A i \in Jobs : \A q \in Ranks(i) :
            wisdom'[i][q] = IF i = j /\ q = r THEN Learned(j, r, k) ELSE wisdom[i][q]
      BY <3>1 DEF Typed
    <3> QED BY <1>7, <3>2, LeaveCounts
  <2>2. done[j][r] \in Nat /\ k # 0 /\ FirstTurn(j) \in {5, 6}
    BY Counts DEF Typed
  <2>3. CASE r # 0 /\ done[j][r] = 0
    <3>1. wisdom[j][r] = {} /\ Learned(j, r, k) = wisdom[j][r] \cup wisdom[j][0]
      BY <2>3 DEF Knowledge, KnowledgeOf, Learned
    <3>2. wisdom'[j][r] = wisdom[j][0]
      BY <2>1, <3>1
    <3>3. \A i \in Jobs : wisdom'[i][0] = wisdom[i][0]
      BY <1>0, <2>1, <2>3
    <3>4. ASSUME NEW i \in Jobs, NEW q \in Ranks(i)
          PROVE  KnowledgeOf(i, q)'
      <4>1. KnowledgeOf(i, q)
        BY DEF Knowledge
      <4>2. CASE i = j /\ q = r
        BY <2>1, <2>2, <3>2, <3>3, <4>2 DEF KnowledgeOf, Foreign
      <4>3. CASE ~(i = j /\ q = r)
        BY <2>1, <3>3, <4>1, <4>3 DEF KnowledgeOf, Foreign
      <4> QED BY <4>2, <4>3
    <3> QED BY <1>0, <3>4 DEF Knowledge
  <2>4. CASE r = 0 /\ k = FirstTurn(j) /\ scene.option[j].wisdom
    <3>1. Learned(j, r, k) = UNION {wisdom[j][q] : q \in Ranks(j)}
      BY <2>2, <2>4 DEF Learned
    <3>2. \A q \in Ranks(j) : done[j][q] >= 1
      BY <1>7, <2>2, <2>4 DEF Leave, Entered, Typed
    <3>3. \A q \in Ranks(j) : Foreign(j, q) = Foreign(j, 0)
      BY <3>2 DEF Knowledge, KnowledgeOf
    <3>4. {u \in UNION {wisdom[j][q] : q \in Ranks(j)} : u[1] # j} = Foreign(j, 0)
      <4>1. \A u : u \in UNION {wisdom[j][q] : q \in Ranks(j)}
                     <=> \E q \in Ranks(j) : u \in wisdom[j][q]
        OBVIOUS
      <4>2. \A u, q : u \in Foreign(j, q) <=> u \in wisdom[j][q] /\ u[1] # j
        BY DEF Foreign
      <4> QED BY <1>0, <3>3, <4>1, <4>2
    <3>5. Foreign(j, 0)' = Foreign(j, 0)
      BY <1>0, <2>1, <2>4, <3>1, <3>4 DEF Foreign
    <3>6. \A i \in Jobs : \A q \in Ranks(i) : Foreign(i, q)' = Foreign(i, q)
      BY <2>1, <2>4, <3>5 DEF Foreign
    <3> QED BY <1>5, <2>1, <2>2, <2>4, <3>6
  <2>5. CASE ~(r # 0 /\ done[j][r] = 0) /\ ~(r = 0 /\ k = FirstTurn(j) /\ scene.option[j].wisdom)
    <3>1. Learned(j, r, k) = wisdom[j][r]
      <4>1. k = 1 => r = 0
        BY <2>2, <2>5
      <4> QED BY <2>5, <4>1 DEF Learned
    <3>2. \A i \in Jobs : \A q \in Ranks(i) : Foreign(i, q)' = Foreign(i, q)
      BY <2>1, <3>1 DEF Foreign
    <3> QED BY <1>5, <2>1, <2>2, <2>5, <3>2
  <2> QED BY <2>3, <2>4, <2>5
<1> QED BY <1>0, <1>2, <1>3, <1>4, <1>6, <1>7, StepKinds

---------------------------------------------------------------------------
(* The invariant, and what it implies.                                     *)

\* The strengthening of the invariants holds at the start,
LEMMA InitIInv == Init => IInv
<1> SUFFICES ASSUME Init PROVE IInv
  OBVIOUS
<1>1. scene \in Scenes /\ \A j \in Jobs : Ranks(j) \subseteq Nat /\ 0 \in Ranks(j)
  BY Counts DEF Init
<1>2. \A j \in Jobs : \A r \in Ranks(j) :
        /\ step[j][r] = "redirect" /\ done[j][r] = 0 /\ status[j][r] = "none"
        /\ wisdom[j][r] = {}
  BY DEF Init
<1>3. Typed
  BY <1>1 DEF Init, Typed, Steps
<1>4. EarlyFirst /\ Synchronous /\ Silence
  BY <1>2 DEF Init, EarlyFirst, EarlyOf, EarlySteps, Synchronous, Silence, SilenceOf
<1>5. Turns
  <2>1. \A j \in Jobs : \A r \in Ranks(j) : Turn(j, r) \in Nat \ {0}
    BY <1>1, Counts DEF Turn
  <2> QED BY <1>2, <2>1 DEF Init, Turns, Printing
<1>6. Verdicts
  <2>1. \A j \in Jobs : Calls(j) \in Nat \ {0}
    BY <1>1, Counts
  <2> QED BY <1>2, <2>1 DEF Verdicts, VerdictOf, Verdict
<1>7. Complaints
  BY <1>1, <1>2 DEF Init, Complaints
<1>8. Knowledge
  BY <1>2 DEF Knowledge, KnowledgeOf
<1> QED BY <1>3, <1>4, <1>5, <1>6, <1>7, <1>8 DEF IInv

\* no step of any job breaks it,
LEMMA NextIInv == IInv /\ [Next]_vars => IInv'
<1> SUFFICES ASSUME IInv, [Next]_vars PROVE IInv'
  OBVIOUS
<1> USE DEF IInv
<1>1. scene' = scene /\ Synchronous' /\ Turns'
  BY KeepsTurns
<1>2. Typed' /\ Silence' /\ Verdicts'
  BY <1>1, KeepsTyped, KeepsSilence, KeepsVerdicts
<1>3. EarlyFirst' /\ Knowledge' /\ Complaints'
  BY <1>1, KeepsEarlyFirst, KeepsKnowledge, KeepsComplaints
<1> QED BY <1>1, <1>2, <1>3

\* and so it always holds.
LEMMA AlwaysIInv == Spec => []IInv
<1>1. Init => IInv
  BY InitIInv
<1>2. IInv /\ [Next]_vars => IInv'
  BY NextIInv
<1> QED BY <1>1, <1>2, PTL DEF Spec

\* In any job, whichever rank prints has all lower ranks' dumps in front of it
\* and nobody else's, and no dump is missing in the end: the barriers of
\* underling_bench.c:862-888 suffice for any number of ranks.
THEOREM DumpsTakeTurns == Spec => []DumpsInTurn
<1>1. ASSUME IInv PROVE DumpsInTurn
  <2>1. Typed /\ Synchronous /\ Turns /\ Verdicts
    BY <1>1 DEF IInv
  <2>2. ASSUME NEW j \in Jobs, NEW r \in Ranks(j), Printing(j, r)
        PROVE  shown[j] = 0 .. r - 1
    <3>1. scene.option[j].dump /\ done[j][r] = Turn(j, r) /\ step[j][r] # "in"
      BY <2>1, <2>2 DEF Turns, Printing
    <3>2. r \in Nat /\ FirstTurn(j) \in Nat /\ Ranks(j) \subseteq Nat
      BY <2>1, Counts DEF Typed
    <3>3. ASSUME NEW q \in Ranks(j)
          PROVE  q \in shown[j] <=> q < r
      <4>1. q \in shown[j] <=> done[j][q] >= Turn(j, q) /\ ~Printing(j, q)
        BY <2>1, <3>1 DEF Turns
      <4>2. Printing(j, q) => done[j][q] = Turn(j, q)
        BY <2>1 DEF Turns
      <4>3. done[j][q] \in Nat /\ q \in Nat
        BY <2>1, <3>2 DEF Typed
      <4>4. done[j][q] <= done[j][r]
        BY <2>1, <3>1 DEF Synchronous
      <4>5. \/ done[j][r] <= done[j][q]
            \/ done[j][r] = done[j][q] + 1 /\ ~Printing(j, q)
        BY <2>1 DEF Synchronous, Printing
      <4>6. CASE q < r
        BY <3>1, <3>2, <4>1, <4>2, <4>3, <4>5, <4>6 DEF Turn
      <4>7. CASE q > r
        BY <3>1, <3>2, <4>1, <4>3, <4>4, <4>7 DEF Turn
      <4>8. CASE q = r
        BY <2>2, <4>1, <4>8, <3>2
      <4> QED BY <3>2, <4>3, <4>6, <4>7, <4>8
    <3>4. \A q : q \in shown[j] => q \in Ranks(j)
      BY <2>1 DEF Typed
    <3>5. \A q : q \in 0 .. r - 1 => q \in Ranks(j) /\ q < r
      BY <2>1, <2>2, <3>2, Counts DEF Ranks, Typed
    <3>6. \A q \in Ranks(j) : q < r => q \in 0 .. r - 1
      BY <3>2
    <3> QED BY <3>3, <3>4, <3>5, <3>6
  <2>3. ASSUME NEW j \in Jobs, scene.option[j].dump, scene.option[j].arguments = "right",
               \A r \in Ranks(j) : step[j][r] = "end"
        PROVE  shown[j] = Ranks(j)
    <3>1. ASSUME NEW r \in Ranks(j) PROVE r \in shown[j]
      <4>1. done[j][r] = Calls(j) /\ ~Printing(j, r)
        BY <2>1, <2>3 DEF Verdicts, VerdictOf, Printing
      <4>2. Calls(j) > Turn(j, r) /\ Calls(j) \in Nat /\ Turn(j, r) \in Nat
        BY <2>1, <2>3, Counts DEF Typed, Turn
      <4> QED BY <2>1, <2>3, <4>1, <4>2 DEF Turns
    <3> QED BY <2>1, <3>1 DEF Typed
  <2> QED BY <2>2, <2>3 DEF DumpsInTurn
<1> QED BY <1>1, AlwaysIInv, PTL

\* In any job wrong arguments are complained about by rank 0 and nobody else.
THEOREM ComplainsOnce == Spec => []OneComplaint
<1>1. ASSUME IInv PROVE OneComplaint
  <2>1. Typed /\ Complaints /\ Verdicts
    BY <1>1 DEF IInv
  <2>2. ASSUME NEW j \in Jobs, NEW r \in Ranks(j), status[j][r] = "usage", step[j][0] = "end"
        PROVE  told[j] = 1
    <3>1. scene.option[j].arguments = "wrong" /\ 0 \in Ranks(j)
      BY <2>1, <2>2, Counts DEF Verdicts, VerdictOf, Verdict, Typed
    <3>2. status[j][0] = "usage"
      BY <2>1, <2>2, <3>1 DEF Verdicts, VerdictOf, Verdict
    <3> QED BY <2>1, <3>2 DEF Complaints
  <2>3. \A j \in Jobs : told[j] <= 1 /\ 0 \in Ranks(j)
    BY <2>1, Counts DEF Complaints, Typed
  <2> QED BY <2>2, <2>3 DEF OneComplaint
<1> QED BY <1>1, AlwaysIInv, PTL

\* However many jobs use the wisdom file, and whatever they do to it, the ranks
\* of each plan with the same knowledge of the others.
THEOREM WisdomIsShared == Spec => []SameWisdomEverywhere
<1>1. IInv => SameWisdomEverywhere
  BY DEF IInv, Knowledge, KnowledgeOf, SameWisdomEverywhere
<1> QED BY <1>1, AlwaysIInv, PTL

\* All ranks of a job that end do so with the same exit status.
THEOREM VerdictsAgree == Spec => []UniformVerdict
<1>1. ASSUME IInv PROVE UniformVerdict
  <2>1. ASSUME NEW j \in Jobs, NEW r \in Ranks(j), NEW q \in Ranks(j),
               step[j][r] = "end", step[j][q] = "end"
        PROVE  status[j][r] = status[j][q]
    <3>1. VerdictOf(j, r) /\ VerdictOf(j, q)
      BY <1>1 DEF IInv, Verdicts
    <3>2. TooMuchError(j, r) <=> TooMuchError(j, q)
      BY DEF TooMuchError
    <3>3. scene.option[j].arguments # "wrong" => done[j][r] = done[j][q]
      BY <2>1, <3>1 DEF VerdictOf
    <3> QED BY <2>1, <3>1, <3>2, <3>3 DEF VerdictOf, Verdict
  <2> QED BY <2>1 DEF UniformVerdict
<1> QED BY <1>1, AlwaysIInv, PTL

\* What the invariant does not speak of: which jobs run and who holds locks.
Housekeeping ==
  /\ launched \subseteq Jobs /\ killed \subseteq launched
  /\ DOMAIN lock = Jobs /\ \A j \in Jobs : lock[j] \in {"none", "shared", "exclusive"}

\* Every step keeps it.
LEMMA KeepsHousekeeping == Housekeeping /\ [Next]_vars => Housekeeping'
<1> SUFFICES ASSUME Housekeeping, [Next]_vars PROVE Housekeeping'
  OBVIOUS
<1> USE DEF Housekeeping
<1>1. CASE UNCHANGED vars
  BY <1>1 DEF vars
<1>2. ASSUME NEW j \in Jobs, Launch(j) PROVE Housekeeping'
  BY <1>2 DEF Launch
<1>3. ASSUME NEW j \in Jobs, launched' = launched, Die(j), Running(j) PROVE Housekeeping'
  BY <1>3 DEF Die, Running
<1>4. ASSUME NEW j \in Jobs, Kill(j) \/ \E r \in Ranks(j) : Abort(j, r) PROVE Housekeeping'
  BY <1>3, <1>4 DEF Kill, Abort, At
<1>5. ASSUME NEW j \in Jobs, FileStep(j) PROVE Housekeeping'
  <2>1. jobVars' = jobVars
    BY <1>5 DEF FileStep, Open, LockShared, Import, Unlock, Reopen, LockExclusive, Export,
                UnlockExclusive, Close
  <2>2. launched' = launched /\ killed' = killed
    BY <2>1 DEF jobVars
  <2>3. lock' = lock \/ \E how \in {"none", "shared", "exclusive"} : lock' = [lock EXCEPT ![j] = how]
    <3>1. CASE Open(j) \/ Import(j) \/ Close(j) \/ Reopen(j) \/ Export(j)
      BY <3>1 DEF Open, Import, Close, Reopen, Export, fileVars
    <3>2. CASE LockShared(j) \/ LockExclusive(j) \/ Unlock(j) \/ UnlockExclusive(j)
      BY <3>2 DEF LockShared, LockExclusive, Unlock, UnlockExclusive, Flock
    <3> QED BY <1>5, <3>1, <3>2 DEF FileStep
  <2> QED BY <2>2, <2>3
<1>6. ASSUME NEW j \in Jobs, NEW r \in Ranks(j),
             \/ Redirect(j, r) \/ Parse(j, r) \/ Restore(j, r) \/ Enter(j, r)
             \/ Leave(j, r) \/ Plan(j, r) \/ PrintDump(j, r) \/ Flush(j, r)
      PROVE  Housekeeping'
  <2>1. jobVars' = jobVars /\ lock' = lock
    BY <1>6 DEF Redirect, Parse, Restore, Enter, Leave, Plan, PrintDump, Flush, fileVars
  <2> QED BY <2>1 DEF jobVars
<1> QED BY <1>1, <1>2, <1>4, <1>5, <1>6 DEF Next, Step

\* The variables of any number of jobs of any size keep their types, and no
\* rank completes more collectives than its job has.
THEOREM JobTyped == Spec => []TypeOK
<1>1. ASSUME IInv, Housekeeping PROVE TypeOK
  <2>1. Typed /\ Verdicts
    BY <1>1 DEF IInv
  <2>2. ASSUME NEW j \in Jobs, NEW r \in Ranks(j)
        PROVE  done[j][r] <= Calls(j) /\ (step[j][r] = "end" => status[j][r] # "none")
    BY <2>1 DEF Verdicts, VerdictOf, Verdict
  <2> QED BY <1>1, <2>1, <2>2 DEF Typed, Housekeeping, TypeOK
<1>2. Init => Housekeeping
  BY DEF Init, Housekeeping
<1> QED BY <1>1, <1>2, AlwaysIInv, KeepsHousekeeping, PTL DEF Spec


---------------------------------------------------------------------------
(* The wisdom file.                                                        *)

\* Who may have found out something.
Finders == Jobs \X AnyRank

\* Rank 0 is between gathering what the ranks found out and closing the file.
Busy == {"reopen", "relock", "export", "reunlock", "close"}

\* Rank 0 is between opening the file to read it and closing it.
Reads == {"open", "lock", "import", "unlock"}

\* Rank 0 is done with the file, having saved to it if it could.
Finished(j) == done[j][0] >= FirstTurn(j) /\ step[j][0] \notin Busy

\* A job that uses the file and is not done with it.
Active(j) == Running(j) /\ scene.option[j].wisdom /\ ~Through(j)

\* Rank 0 has read the file.
Informed(j) ==
  step[j][0] \notin {"redirect", "parse", "restore", "open", "lock", "import"}

PlannedOf(j, r) ==
  /\ step[j][r] = "plan" => done[j][r] = Len(Queries)
  /\ done[j][r] >= Len(Queries) /\ step[j][r] # "plan" => <<j, r>> \in wisdom[j][r]

\* Who has planned has found out something, and what all found out is gathered.
Planned == \A j \in Jobs : \A r \in Ranks(j) : PlannedOf(j, r)

GatheredOf(j) ==
  /\ scene.option[j].wisdom /\ done[j][0] >= FirstTurn(j) => Learnt(j) \subseteq wisdom[j][0]
  /\ step[j][0] \in Busy => scene.option[j].wisdom /\ done[j][0] = FirstTurn(j)
  /\ step[j][0] \in Reads => scene.option[j].wisdom
  /\ Saving(j) => scene.writable
  /\ j \notin launched => step[j][0] = "redirect"

Gathered == \A j \in Jobs : GatheredOf(j)

\* What follows holds as long as nothing disturbs the jobs.

WisdomTyped == \A j \in Jobs : \A r \in Ranks(j) : wisdom[j][r] \subseteq Finders

Alone == \A i, j \in Jobs : Active(i) /\ Active(j) => i = j

\* Whoever saves lives to close the file.
Alive == \A j \in Jobs : Saving(j) => Running(j)

\* Who has read the file knows what all savers found out.
Heard == \A j \in Jobs : Active(j) /\ Informed(j) =>
           \A i \in Savers : Learnt(i) \subseteq wisdom[j][0]

DraftOf(j) ==
  Saving(j) => /\ flushed[j] \in {0, 1}
               /\ step[j][0] \in {"relock", "export"} => flushed[j] = 0
               /\ file = IF flushed[j] = 0 THEN <<>> ELSE <<wisdom[j][0]>>

\* In the file that is being written there is what its writer has written.
Draft == DOMAIN flushed = Jobs /\ \A j \in Jobs : DraftOf(j)

\* A file that nobody is writing is empty, when there are no savers, or whole.
Whole ==
  (\A j \in Jobs : ~Saving(j)) =>
    \/ file = <<>> /\ Savers = {}
    \/ \E known \in SUBSET Finders :
         file = <<known, known>> /\ \A i \in Savers : Learnt(i) \subseteq known

Undisturbed == WisdomTyped /\ Alone /\ Alive /\ Heard /\ Draft /\ Whole

WInv == Planned /\ Gathered /\ (~disturbed => Undisturbed)

\* The ranks of a job may have found out something; what nobody wrote is none of it.
LEMMA FindersAre ==
  ASSUME scene \in Scenes
  PROVE  /\ \A j \in Jobs : \A r \in Ranks(j) : <<j, r>> \in Finders
         /\ \A known \in SUBSET Finders : known # Hole
<1>1. ASSUME NEW j \in Jobs PROVE Ranks(j) \subseteq AnyRank
  <2>1. Ranks(j) \subseteq UNION {0 .. scene.option[i].ranks - 1 : i \in Jobs}
    BY DEF Ranks
  <2>2. UNION {0 .. scene.option[i].ranks - 1 : i \in Jobs} \subseteq AnyRank
    BY DEF AnyRank
  <2> QED BY <2>1, <2>2
<1> QED BY <1>1, HoleAssumption DEF Finders

\* Who has saved to the file and who is not done with it, read off rank 0.
LEMMA SaverIs ==
  ASSUME NEW j \in Jobs
  PROVE  /\ j \in Savers <=> scene.option[j].wisdom /\ scene.writable /\ Finished(j)
         /\ Active(j) <=> /\ Running(j) /\ scene.option[j].wisdom
                          /\ step[j][0] # "end" /\ ~Finished(j)
BY DEF Savers, Finished, Through, Saving, Busy, Active

\* What a job learns depends on its options alone.
LEMMA LearntFixed ==
  ASSUME scene' = scene, NEW j \in Jobs
  PROVE  Learnt(j)' = Learnt(j)
BY Fixed DEF Learnt

\* Nobody forgets, and only importing, planning and collectives teach anything.
LEMMA WisdomGrows ==
  ASSUME Typed, [Next]_vars, NEW i \in Jobs, NEW q \in Ranks(i)
  PROVE  /\ wisdom[i][q] \subseteq wisdom'[i][q]
         /\ step[i][q] \notin {"import", "plan", "in"} => wisdom'[i][q] = wisdom[i][q]
<1>0. \A j \in Jobs : 0 \in Ranks(j)
  BY Counts DEF Typed
<1>1. CASE wisdom' = wisdom
  BY <1>1
<1>2. ASSUME NEW j \in Jobs, NEW r \in Ranks(j), NEW known, wisdom[j][r] \subseteq known,
             wisdom' = [wisdom EXCEPT ![j][r] = known], step[j][r] \in {"import", "plan", "in"}
      PROVE  /\ wisdom[i][q] \subseteq wisdom'[i][q]
             /\ step[i][q] \notin {"import", "plan", "in"} => wisdom'[i][q] = wisdom[i][q]
  <2>1. wisdom'[i][q] = IF i = j /\ q = r THEN known ELSE wisdom[i][q]
    BY <1>2 DEF Typed
  <2> QED BY <1>2, <2>1
<1>3. ASSUME NEW j \in Jobs, Import(j)
      PROVE  \E known : /\ wisdom[j][0] \subseteq known
                        /\ wisdom' = [wisdom EXCEPT ![j][0] = known] /\ step[j][0] = "import"
  BY <1>3 DEF Import, At
<1>4. ASSUME NEW j \in Jobs, NEW r \in Ranks(j), Plan(j, r)
      PROVE  \E known : /\ wisdom[j][r] \subseteq known
                        /\ wisdom' = [wisdom EXCEPT ![j][r] = known] /\ step[j][r] = "plan"
  BY <1>4 DEF Plan, At
<1>5. ASSUME NEW j \in Jobs, NEW r \in Ranks(j), Leave(j, r)
      PROVE  \E known : /\ wisdom[j][r] \subseteq known
                        /\ wisdom' = [wisdom EXCEPT ![j][r] = known] /\ step[j][r] = "in"
  <2>1. wisdom[j][r] \subseteq Learned(j, r, done[j][r] + 1)
    BY DEF Learned
  <2> QED BY <1>5, <2>1 DEF Leave, At
<1>6. CASE \E j \in Jobs : \E r \in Ranks(j) : (r = 0 /\ Import(j)) \/ Plan(j, r) \/ Leave(j, r)
  <2>1. PICK j \in Jobs : \E r \in Ranks(j) :
          (r = 0 /\ Import(j)) \/ Plan(j, r) \/ Leave(j, r)
    BY <1>6 DEF Ranks
  <2>2. PICK r \in Ranks(j) : (r = 0 /\ Import(j)) \/ Plan(j, r) \/ Leave(j, r)
    BY <2>1
  <2>3. PICK known : /\ wisdom[j][r] \subseteq known
                     /\ wisdom' = [wisdom EXCEPT ![j][r] = known]
                     /\ step[j][r] \in {"import", "plan", "in"}
    BY <1>3, <1>4, <1>5, <2>2
  <2> QED BY <1>2, <2>3
<1>7. UNCHANGED Parts => wisdom' = wisdom
  BY DEF Parts
<1>8. ASSUME NEW j \in Jobs, NEW r \in Ranks(j),
             \/ \E pair \in FilePairs : Quiet(j, r, pair[1], pair[2])
             \/ Quiet(j, r, "print", "flush")
             \/ Redirect(j, r) \/ Parse(j, r) \/ Restore(j, r) \/ Enter(j, r) \/ Flush(j, r)
      PROVE  wisdom' = wisdom
  BY <1>8 DEF Quiet, Redirect, Parse, Restore, Enter, Flush
<1> QED BY <1>0, <1>1, <1>6, <1>7, <1>8, StepKinds

\* Planning comes after the queries, saving after the gathering.
LEMMA AfterIs ==
  ASSUME scene \in Scenes, NEW j \in Jobs, NEW r \in Ranks(j), NEW k \in Nat
  PROVE  /\ After(j, r, k) = "plan" <=> k = Len(Queries)
         /\ After(j, r, k) = "reopen" <=> k = FirstTurn(j) /\ scene.option[j].wisdom /\ r = 0
         /\ After(j, r, k) \notin Busy \ {"reopen"}
<1>1. /\ FirstTurn(j) \in {5, 6} /\ (scene.option[j].wisdom <=> FirstTurn(j) = 6)
      /\ Len(Queries) = 5 /\ Ranks(j) \subseteq Nat
  BY Counts
<1>2. CASE Prints(j, r, k)
  <2>1. k = FirstTurn(j) + 1 + r /\ r \in Nat
    BY <1>1, <1>2 DEF Prints, Turn
  <2>2. k # Len(Queries) /\ k # FirstTurn(j)
    BY <1>1, <2>1
  <2>3. After(j, r, k) = "print"
    BY <1>2, AfterPrints
  <2> QED BY <2>2, <2>3 DEF Busy
<1>3. CASE ~Prints(j, r, k)
  <2> DEFINE saves == k = FirstTurn(j) /\ scene.option[j].wisdom /\ r = 0
  <2>1. k = 1 => k # Len(Queries) /\ ~saves
    BY <1>1
  <2>2. k = Len(Queries) => ~saves
    BY <1>1
  <2>3. /\ k = 1 => After(j, r, k) \in {"abort", "call"}
        /\ k = Len(Queries) => After(j, r, k) = "plan"
        /\ saves => After(j, r, k) = "reopen"
        /\ k # Len(Queries) /\ ~saves => After(j, r, k) \in {"abort", "call"}
    BY <1>3, <2>1, <2>2, Zenon DEF After
  <2> HIDE DEF saves
  <2>4. /\ After(j, r, k) = "plan" <=> k = Len(Queries)
        /\ After(j, r, k) = "reopen" <=> saves
        /\ After(j, r, k) \in {"plan", "reopen", "abort", "call"}
    BY <2>2, <2>3
  <2> QED BY <2>4 DEF saves, Busy
<1> QED BY <1>2, <1>3

\* Every step keeps that who has planned has found out something.
LEMMA KeepsPlanned ==
  ASSUME Typed, Planned, [Next]_vars, scene' = scene
  PROVE  Planned'
<1>0. \A j \in Jobs : 0 \in Ranks(j) /\ Ranks(j)' = Ranks(j)
  BY Counts, Fixed DEF Typed
<1>1. ASSUME NEW j \in Jobs, NEW r \in Ranks(j), NEW to, Moves(j, r, to), done' = done,
             to # "plan", step[j][r] # "plan"
      PROVE  Planned'
  <2>1. ASSUME NEW i \in Jobs, NEW q \in Ranks(i)
        PROVE  PlannedOf(i, q)'
    <3>1. step'[i][q] = "plan" <=> step[i][q] = "plan"
      BY <1>1 DEF Moves
    <3>2. PlannedOf(i, q) /\ wisdom[i][q] \subseteq wisdom'[i][q]
      BY WisdomGrows DEF Planned
    <3> QED BY <1>1, <3>1, <3>2 DEF PlannedOf
  <2> QED BY <1>0, <2>1 DEF Planned
<1>2. CASE UNCHANGED Parts
  BY <1>0, <1>2 DEF Parts, Planned, PlannedOf
<1>3. ASSUME NEW j \in Jobs, NEW r \in Ranks(j),
             \/ \E pair \in FilePairs : Quiet(j, r, pair[1], pair[2])
             \/ Quiet(j, r, "print", "flush") \/ (r = 0 /\ Import(j))
             \/ Redirect(j, r) \/ Parse(j, r) \/ Restore(j, r) \/ Enter(j, r) \/ Flush(j, r)
      PROVE  Planned'
  <2>1. done' = done /\ step[j][r] # "plan"
    BY <1>3 DEF Quiet, FilePairs, Import, Redirect, Parse, Restore, Enter, Flush, At
  <2>2. \E to : Moves(j, r, to) /\ to # "plan"
    BY <1>3, StepEffects DEF FilePairs
  <2> QED BY <1>1, <2>1, <2>2
<1>4. ASSUME NEW j \in Jobs, NEW r \in Ranks(j), Plan(j, r)
      PROVE  Planned'
  <2>1. done' = done /\ Moves(j, r, "call")
    BY <1>4, StepEffects DEF Plan
  <2>2. <<j, r>> \in wisdom'[j][r]
    BY <1>4 DEF Plan, Typed
  <2>3. ASSUME NEW i \in Jobs, NEW q \in Ranks(i)
        PROVE  PlannedOf(i, q)'
    <3>1. step'[i][q] = IF i = j /\ q = r THEN "call" ELSE step[i][q]
      BY <2>1 DEF Moves
    <3>2. PlannedOf(i, q) /\ wisdom[i][q] \subseteq wisdom'[i][q]
      BY WisdomGrows DEF Planned
    <3> QED BY <2>1, <2>2, <3>1, <3>2 DEF PlannedOf
  <2> QED BY <1>0, <2>3 DEF Planned
<1>5. ASSUME NEW j \in Jobs, NEW r \in Ranks(j), Leave(j, r)
      PROVE  Planned'
  <2>1. /\ step[j][r] = "in" /\ done[j][r] \in Nat /\ done[j][r] + 1 \in Nat
        /\ scene \in Scenes /\ Len(Queries) \in Nat
    BY <1>5, Counts DEF Leave, At, Typed
  <2>2. After(j, r, done[j][r] + 1) = "plan" <=> done[j][r] + 1 = Len(Queries)
    BY <2>1, AfterIs
  <2>3. ASSUME NEW i \in Jobs, NEW q \in Ranks(i)
        PROVE  PlannedOf(i, q)'
    <3>1. /\ step'[i][q] = IF i = j /\ q = r THEN After(j, r, done[j][r] + 1) ELSE step[i][q]
          /\ done'[i][q] = IF i = j /\ q = r THEN done[j][r] + 1 ELSE done[i][q]
      BY <1>5, LeaveCounts DEF Moves
    <3>2. PlannedOf(i, q) /\ wisdom[i][q] \subseteq wisdom'[i][q]
      BY WisdomGrows DEF Planned
    <3>3. CASE i = j /\ q = r
      <4>1. done'[i][q] >= Len(Queries) /\ step'[i][q] # "plan" => done[i][q] >= Len(Queries)
        BY <2>1, <2>2, <3>1, <3>3
      <4> QED BY <2>1, <2>2, <3>1, <3>2, <3>3, <4>1 DEF PlannedOf
    <3>4. CASE ~(i = j /\ q = r)
      BY <3>1, <3>2, <3>4 DEF PlannedOf
    <3> QED BY <3>3, <3>4
  <2> QED BY <1>0, <2>3 DEF Planned
<1> QED BY <1>0, <1>2, <1>3, <1>4, <1>5, StepKinds

\* What is known was found out, while what is read was.
LEMMA KeepsWisdomTyped ==
  ASSUME Typed, WisdomTyped, [Next]_vars, scene' = scene,
         \A j \in Jobs : Import(j) => Readable \subseteq Finders
  PROVE  WisdomTyped'
<1>0. \A j \in Jobs : 0 \in Ranks(j) /\ Ranks(j)' = Ranks(j)
  BY Counts, Fixed DEF Typed
<1>1. CASE wisdom' = wisdom
  BY <1>0, <1>1 DEF WisdomTyped
<1>2. ASSUME NEW j \in Jobs, NEW r \in Ranks(j), NEW known \in SUBSET Finders,
             wisdom' = [wisdom EXCEPT ![j][r] = known]
      PROVE  WisdomTyped'
  <2>1. \A i \in Jobs : \A q \in Ranks(i) :
          wisdom'[i][q] = IF i = j /\ q = r THEN known ELSE wisdom[i][q]
    BY <1>2 DEF Typed
  <2> QED BY <1>0, <2>1 DEF WisdomTyped
<1>3. ASSUME NEW j \in Jobs, Import(j) PROVE WisdomTyped'
  <2>1. /\ wisdom' = [wisdom EXCEPT ![j][0] = wisdom[j][0] \cup Readable]
        /\ wisdom[j][0] \cup Readable \subseteq Finders
    BY <1>0, <1>3 DEF Import, WisdomTyped
  <2> QED BY <1>0, <1>2, <2>1
<1>4. ASSUME NEW j \in Jobs, NEW r \in Ranks(j), Plan(j, r) PROVE WisdomTyped'
  <2>1. wisdom' = [wisdom EXCEPT ![j][r] = wisdom[j][r] \cup {<<j, r>>}]
    BY <1>4 DEF Plan
  <2>2. wisdom[j][r] \cup {<<j, r>>} \subseteq Finders
    BY FindersAre DEF WisdomTyped, Typed
  <2> QED BY <1>2, <2>1, <2>2
<1>5. ASSUME NEW j \in Jobs, NEW r \in Ranks(j), Leave(j, r) PROVE WisdomTyped'
  <2>1. wisdom' = [wisdom EXCEPT ![j][r] = Learned(j, r, done[j][r] + 1)]
    BY <1>5 DEF Leave
  <2>2. UNION {wisdom[j][q] : q \in Ranks(j)} \subseteq Finders
    BY DEF WisdomTyped
  <2>3. Learned(j, r, done[j][r] + 1) \subseteq Finders
    BY <1>0, <2>2 DEF WisdomTyped, Learned
  <2> QED BY <1>2, <2>1, <2>3
<1>6. UNCHANGED Parts => wisdom' = wisdom
  BY DEF Parts
<1>7. ASSUME NEW j \in Jobs, NEW r \in Ranks(j),
             \/ \E pair \in FilePairs : Quiet(j, r, pair[1], pair[2])
             \/ Quiet(j, r, "print", "flush")
             \/ Redirect(j, r) \/ Parse(j, r) \/ Restore(j, r) \/ Enter(j, r) \/ Flush(j, r)
      PROVE  wisdom' = wisdom
  BY <1>7 DEF Quiet, Redirect, Parse, Restore, Enter, Flush
<1> QED BY <1>0, <1>1, <1>3, <1>4, <1>5, <1>6, <1>7, StepKinds

\* What a rank does with its job and no file.
Ordinary(j, r) ==
  \/ Redirect(j, r) \/ Parse(j, r) \/ Restore(j, r) \/ Enter(j, r) \/ Leave(j, r)
  \/ Plan(j, r) \/ PrintDump(j, r) \/ Flush(j, r)

\* A step on the file moves rank 0 alone; it comes to a save only from the save
\* itself, and to reading only from reading.
LEMMA FileStepTo ==
  ASSUME Typed, Gathered, NEW j \in Jobs, FileStep(j)
  PROVE  /\ UNCHANGED <<launched, killed, done, scene>> /\ Running(j)
         /\ \E to : /\ Moves(j, 0, to)
                    /\ to \in Busy => step[j][0] \in Busy /\ scene.writable
                    /\ to \in Reads => step[j][0] \in Reads
<1>0. 0 \in Ranks(j) /\ GatheredOf(j)
  BY Counts DEF Typed, Gathered
<1>1. jobVars' = jobVars /\ done' = done
  BY DEF FileStep, Open, LockShared, Import, Unlock, Reopen, LockExclusive, Export,
         UnlockExclusive, Close
<1>2. Running(j)
  BY DEF FileStep, Open, LockShared, Import, Unlock, Reopen, LockExclusive, Export,
         UnlockExclusive, Close, At
<1>3. CASE Import(j)
  <2>1. Moves(j, 0, "unlock")
    BY <1>0, <1>3, StepEffects
  <2> QED BY <1>1, <1>2, <1>3, <2>1 DEF jobVars, Busy, Reads, Import, At
<1>4. CASE \E pair \in FilePairs : Quiet(j, 0, pair[1], pair[2])
  <2>1. PICK pair \in FilePairs : Quiet(j, 0, pair[1], pair[2])
    BY <1>4
  <2>2. Moves(j, 0, pair[2]) /\ step[j][0] = pair[1]
    BY <1>0, <2>1, StepEffects DEF Quiet
  <2>3. (pair[2] \in Busy => pair[1] \in Busy) /\ (pair[2] \in Reads => pair[1] \in Reads)
    BY DEF FilePairs, Busy, Reads
  <2>4. pair[2] \in Busy => scene.writable
    <3>1. CASE Reopen(j) /\ ~scene.writable
      <4>1. Goto(j, 0, "call")
        BY <3>1 DEF Reopen
      <4>2. Moves(j, 0, "call")
        BY <1>0, <4>1, GotoMoves DEF Steps
      <4> QED BY <1>0, <2>2, <4>2 DEF Moves, Busy
    <3>2. CASE LockExclusive(j) \/ Export(j) \/ UnlockExclusive(j) \/ Close(j)
      <4>1. Saving(j)
        BY <3>2 DEF LockExclusive, Export, UnlockExclusive, Close, At, Saving
      <4> QED BY <1>0, <4>1 DEF GatheredOf
    <3>3. CASE Open(j) \/ LockShared(j) \/ Import(j) \/ Unlock(j)
      <4>1. step[j][0] \notin Busy
        BY <3>3 DEF Open, LockShared, Import, Unlock, At, Busy
      <4> QED BY <2>2, <2>3, <4>1
    <3> QED BY <3>1, <3>2, <3>3 DEF FileStep
  <2> QED BY <1>1, <1>2, <2>2, <2>3, <2>4 DEF jobVars
<1> QED BY <1>3, <1>4, FileStepsQuiet

\* Any other step leaves the file alone; it does not lead into the save, and to
\* reading only with --wisdom.
LEMMA OrdinaryTo ==
  ASSUME Typed, NEW j \in Jobs, NEW r \in Ranks(j), Ordinary(j, r)
  PROVE  /\ UNCHANGED <<scene, launched, killed, file, flushed, disturbed>> /\ Running(j)
         /\ \/ Leave(j, r)
            \/ /\ done' = done
               /\ \E to \in Steps \ Busy : /\ Moves(j, r, to)
                                           /\ to \in Reads => scene.option[j].wisdom
<1>1. jobVars' = jobVars /\ fileVars' = fileVars /\ Running(j)
  BY DEF Ordinary, Redirect, Parse, Restore, Enter, Leave, Plan, PrintDump, Flush, At
<1>2. CASE Leave(j, r)
  BY <1>1, <1>2 DEF jobVars, fileVars
<1>3. CASE ~Leave(j, r)
  <2>1. done' = done
    BY <1>3 DEF Ordinary, Redirect, Parse, Restore, Enter, Plan, PrintDump, Flush
  <2>2. PrintDump(j, r) => Quiet(j, r, "print", "flush")
    BY DEF PrintDump, Quiet, At, jobVars, ioVars
  <2>3. \E to \in Steps \ Busy : Moves(j, r, to) /\ (to \in Reads => scene.option[j].wisdom)
    <3>1. CASE Restore(j, r)
      BY <3>1, StepEffects DEF Steps, Busy, Reads
    <3>2. CASE ~Restore(j, r)
      BY <1>3, <2>2, <3>2, StepEffects DEF Ordinary, Steps, Busy, Reads
    <3> QED BY <3>1, <3>2
  <2> QED BY <1>1, <2>1, <2>3 DEF jobVars, fileVars
<1> QED BY <1>2, <1>3

\* The steps of a job: launched, killed or aborting, on the file, or ordinary.
LEMMA NextKinds ==
  ASSUME [Next]_vars
  PROVE  \/ UNCHANGED vars
         \/ \E j \in Jobs : \/ Launch(j)
                            \/ Kill(j) \/ \E r \in Ranks(j) : Abort(j, r)
                            \/ FileStep(j)
                            \/ \E r \in Ranks(j) : Ordinary(j, r)
BY DEF Next, Step, Ordinary

\* Every step keeps what is gathered, and who may be saving.
LEMMA KeepsGathered ==
  ASSUME Typed, Planned, Gathered, [Next]_vars, scene' = scene
  PROVE  Gathered'
<1>0. \A j \in Jobs : /\ 0 \in Ranks(j) /\ Ranks(j)' = Ranks(j)
                      /\ FirstTurn(j)' = FirstTurn(j) /\ Learnt(j)' = Learnt(j)
  BY Counts, Fixed, LearntFixed DEF Typed
<1>1. ASSUME UNCHANGED <<step, done, wisdom>>, launched \subseteq launched'
      PROVE  Gathered'
  BY <1>0, <1>1 DEF Gathered, GatheredOf, Saving
<1>2. ASSUME NEW j \in Jobs, NEW r \in Ranks(j), NEW to, Moves(j, r, to), done' = done,
             launched' = launched, Running(j),
             r = 0 /\ to \in Busy => step[j][0] \in Busy /\ scene.writable,
             r = 0 /\ to \in Reads => step[j][0] \in Reads \/ scene.option[j].wisdom
      PROVE  Gathered'
  <2>1. ASSUME NEW i \in Jobs
        PROVE  GatheredOf(i)'
    <3>1. GatheredOf(i) /\ wisdom[i][0] \subseteq wisdom'[i][0]
      BY <1>0, WisdomGrows DEF Gathered
    <3>2. step'[i][0] = IF i = j /\ r = 0 THEN to ELSE step[i][0]
      BY <1>0, <1>2 DEF Moves
    <3>3. Saving(i)' => scene.writable
      BY <1>2, <3>1, <3>2 DEF GatheredOf, Saving, Busy
    <3>4. step'[i][0] \in Busy => step[i][0] \in Busy
      BY <1>2, <3>2
    <3>5. i \notin launched' => step'[i][0] = "redirect"
      BY <1>2, <3>1, <3>2 DEF GatheredOf, Running
    <3>6. step'[i][0] \in Reads => scene.option[i].wisdom
      BY <1>2, <3>1, <3>2 DEF GatheredOf
    <3> QED BY <1>0, <1>2, <3>1, <3>3, <3>4, <3>5, <3>6 DEF GatheredOf
  <2> QED BY <2>1 DEF Gathered
<1>3. CASE UNCHANGED vars
  BY <1>1, <1>3 DEF vars
<1>4. ASSUME NEW j \in Jobs, Launch(j) \/ Kill(j) \/ \E r \in Ranks(j) : Abort(j, r)
      PROVE  Gathered'
  BY <1>1, <1>4 DEF Launch, Kill, Abort
<1>5. ASSUME NEW j \in Jobs, FileStep(j)
      PROVE  Gathered'
  BY <1>0, <1>2, <1>5, FileStepTo
<1>6. ASSUME NEW j \in Jobs, NEW r \in Ranks(j), Ordinary(j, r), ~Leave(j, r)
      PROVE  Gathered'
  BY <1>2, <1>6, OrdinaryTo
<1>7. ASSUME NEW j \in Jobs, NEW r \in Ranks(j), Leave(j, r)
      PROVE  Gathered'
  <2> DEFINE k == done[j][r] + 1
  <2>1. /\ step[j][r] = "in" /\ done[j][r] \in Nat /\ k \in Nat /\ Running(j)
        /\ scene \in Scenes /\ launched' = launched
    BY <1>7 DEF Leave, At, Typed, jobVars
  <2>2. FirstTurn(j) \in {5, 6} /\ (scene.option[j].wisdom <=> FirstTurn(j) = 6) /\ Len(Queries) = 5
    BY <2>1, Counts
  <2>3. wisdom'[j][r] = Learned(j, r, k)
    BY <1>7 DEF Leave, Typed
  <2>4. ASSUME r = 0, scene.option[j].wisdom, k >= FirstTurn(j)
        PROVE  Learnt(j) \subseteq wisdom'[j][0]
    <3>1. CASE k > FirstTurn(j)
      <4>1. done[j][0] >= FirstTurn(j)
        BY <2>1, <2>2, <2>4, <3>1
      <4> QED BY <1>0, <2>4, <4>1, WisdomGrows DEF Gathered, GatheredOf
    <3>2. CASE k = FirstTurn(j)
      <4>1. ASSUME NEW q \in Ranks(j) PROVE <<j, q>> \in wisdom[j][q]
        <5>1. done[j][q] \in Nat /\ done[j][0] = 5
          BY <2>1, <2>2, <2>4, <3>2 DEF Typed
        <5>2. done[j][q] > 5 \/ (done[j][q] = 5 /\ step[j][q] = "in")
          BY <1>7, <2>4, <5>1 DEF Leave, Entered
        <5>3. PlannedOf(j, q)
          BY DEF Planned
        <5>4. step[j][q] # "plan"
          BY <2>2, <5>1, <5>2, <5>3 DEF PlannedOf
        <5>5. done[j][q] >= Len(Queries)
          BY <2>2, <5>1, <5>2
        <5> QED BY <5>3, <5>4, <5>5 DEF PlannedOf
      <4>2. Learned(j, r, k) = UNION {wisdom[j][q] : q \in Ranks(j)}
        BY <2>2, <2>4, <3>2 DEF Learned
      <4> QED BY <2>3, <2>4, <4>1, <4>2 DEF Learnt
    <3> QED BY <2>1, <2>2, <2>4, <3>1, <3>2
  <2>5. /\ After(j, r, k) = "reopen" <=> k = FirstTurn(j) /\ scene.option[j].wisdom /\ r = 0
        /\ After(j, r, k) \notin Busy \ {"reopen"}
    BY <2>1, AfterIs
  <2>6. ASSUME NEW i \in Jobs
        PROVE  GatheredOf(i)'
    <3>1. GatheredOf(i) /\ wisdom[i][0] \subseteq wisdom'[i][0]
      BY <1>0, WisdomGrows DEF Gathered
    <3>2. /\ step'[i][0] = IF i = j /\ r = 0 THEN After(j, r, k) ELSE step[i][0]
          /\ done'[i][0] = IF i = j /\ r = 0 THEN k ELSE done[i][0]
      BY <1>0, <1>7, LeaveCounts DEF Moves
    <3>3. CASE i = j /\ r = 0
      <4>1. Saving(i)' => scene.writable
        BY <2>5, <3>2, <3>3 DEF Saving, Busy
      <4>2. step'[i][0] \in Busy => scene.option[j].wisdom /\ k = FirstTurn(j)
        BY <2>5, <3>2, <3>3
      <4>3. step'[i][0] \notin Reads
        BY <3>2, <3>3, AfterLate DEF Reads
      <4> QED BY <1>0, <2>1, <2>4, <3>2, <3>3, <4>1, <4>2, <4>3 DEF GatheredOf, Running
    <3>4. CASE ~(i = j /\ r = 0)
      BY <1>0, <2>1, <3>1, <3>2, <3>4 DEF GatheredOf, Saving
    <3> QED BY <3>3, <3>4
  <2> QED BY <2>6 DEF Gathered
<1> QED BY <1>3, <1>4, <1>5, <1>6, <1>7, NextKinds

\* Job i does nothing that matters to the file.
Calm(i) ==
  /\ Saving(i)' <=> Saving(i)
  /\ step'[i][0] \in {"relock", "export"} => step[i][0] \in {"relock", "export"}
  /\ scene.option[i].wisdom => (Finished(i)' <=> Finished(i))
  /\ Active(i)' => Active(i) /\ (Informed(i)' => Informed(i))
  /\ Saving(i) /\ Running(i) => Running(i)'

\* A job is calm whose rank 0 stays where it is, neither launched nor killed in
\* its save.
LEMMA Unmoved ==
  ASSUME scene' = scene, NEW i \in Jobs, step'[i][0] = step[i][0], done'[i][0] = done[i][0],
         Running(i)' => Running(i), Saving(i) /\ Running(i) => Running(i)'
  PROVE  Calm(i)
<1>1. (Saving(i)' <=> Saving(i)) /\ (Informed(i)' <=> Informed(i))
  BY DEF Saving, Informed
<1>2. Finished(i)' <=> Finished(i)
  BY Fixed DEF Finished
<1>3. Through(i)' <=> Through(i)
  BY <1>1, Fixed DEF Through
<1> QED BY <1>1, <1>2, <1>3 DEF Calm, Active

\* Only the end of a save changes who has saved.
LEMMA SaversSame ==
  ASSUME scene' = scene, \A i \in Jobs : scene.option[i].wisdom => (Finished(i)' <=> Finished(i))
  PROVE  Savers' = Savers
<1>1. \A i \in Jobs : i \in Savers <=> scene.option[i].wisdom /\ scene.writable /\ Finished(i)
  BY SaverIs
<1>2. \A i \in Jobs : (i \in Savers <=> scene.option[i].wisdom /\ scene.writable /\ Finished(i))'
  BY DEF Savers, Finished, Through, Saving, Busy
<1>3. Savers \subseteq Jobs /\ Savers' \subseteq Jobs
  BY DEF Savers
<1> QED BY <1>1, <1>2, <1>3

\* What is known of the file survives a step that leaves the file, the savers and
\* whoever is saving as they are.
LEMMA StillKept ==
  ASSUME Typed, Undisturbed, UNCHANGED <<scene, file, flushed>>,
         WisdomTyped', Alone', Heard', Savers' = Savers,
         \A i \in Jobs :
           /\ Saving(i)' <=> Saving(i)
           /\ step'[i][0] \in {"relock", "export"} => step[i][0] \in {"relock", "export"}
           /\ Saving(i) => Running(i)' /\ wisdom'[i][0] = wisdom[i][0]
  PROVE  Undisturbed'
<1>1. Alive'
  BY DEF Alive
<1>2. Draft'
  <2>1. ASSUME NEW i \in Jobs PROVE DraftOf(i)'
    <3>1. DraftOf(i)
      BY DEF Undisturbed, Draft
    <3> QED BY <3>1 DEF DraftOf
  <2> QED BY <2>1 DEF Undisturbed, Draft
<1>3. Whole'
  <2>1. \A i \in Jobs : Learnt(i)' = Learnt(i)
    BY LearntFixed
  <2>2. Savers \subseteq Jobs
    BY DEF Savers
  <2> QED BY <2>1, <2>2 DEF Undisturbed, Whole
<1> QED BY <1>1, <1>2, <1>3 DEF Undisturbed

\* A job is still the only one active if no other becomes so.
LEMMA AloneOn ==
  ASSUME Alone, \A i \in Jobs : Active(i)' => Active(i)
  PROVE  Alone'
BY DEF Alone

\* Who is informed stays so if the savers are the same.
LEMMA HeardOn ==
  ASSUME scene' = scene, Savers' = Savers,
         \A i \in Jobs : Active(i)' /\ Informed(i)' =>
           \A s \in Savers : Learnt(s) \subseteq wisdom'[i][0]
  PROVE  Heard'
<1>1. \A i \in Jobs : Learnt(i)' = Learnt(i)
  BY LearntFixed
<1>2. Savers \subseteq Jobs
  BY DEF Savers
<1> QED BY <1>1, <1>2 DEF Heard

\* What is known of the file survives a step in which all jobs are calm.
LEMMA CalmKept ==
  ASSUME Typed, Undisturbed, [Next]_vars, UNCHANGED <<scene, file, flushed>>, WisdomTyped',
         \A i \in Jobs : Calm(i)
  PROVE  Undisturbed'
<1>1. Savers' = Savers
  BY SaversSame DEF Calm
<1>2. Alone'
  BY AloneOn DEF Calm, Undisturbed
<1>3. \A i \in Jobs : 0 \in Ranks(i)
  BY Counts DEF Typed
<1>4. Heard'
  <2>1. ASSUME NEW i \in Jobs, Active(i)', Informed(i)', NEW s \in Savers
        PROVE  Learnt(s) \subseteq wisdom'[i][0]
    <3>1. Learnt(s) \subseteq wisdom[i][0]
      BY <2>1 DEF Calm, Undisturbed, Heard
    <3>2. wisdom[i][0] \subseteq wisdom'[i][0]
      BY <1>3, WisdomGrows
    <3> QED BY <3>1, <3>2
  <2> QED BY <1>1, <2>1, HeardOn
<1>5. ASSUME NEW i \in Jobs
      PROVE  /\ Saving(i)' <=> Saving(i)
             /\ step'[i][0] \in {"relock", "export"} => step[i][0] \in {"relock", "export"}
             /\ Saving(i) => Running(i)' /\ wisdom'[i][0] = wisdom[i][0]
  <2>1. Saving(i) => Running(i)
    BY DEF Undisturbed, Alive
  <2>2. Saving(i) => wisdom'[i][0] = wisdom[i][0]
    BY <1>3, WisdomGrows DEF Saving
  <2> QED BY <2>1, <2>2 DEF Calm
<1> QED BY <1>1, <1>2, <1>4, <1>5, StillKept

\* Rank 0 of the job that saves, or reads, is alone with the file.
LEMMA OnlyOne ==
  ASSUME Undisturbed, Gathered, NEW j \in Jobs, NEW i \in Jobs, Active(j), Saving(i)
  PROVE  i = j
<1>1. Running(i) /\ step[i][0] \in Busy /\ step[i][0] # "end"
  BY DEF Undisturbed, Alive, Saving, Busy
<1>2. scene.option[i].wisdom
  BY <1>1 DEF Gathered, GatheredOf
<1>3. Active(i)
  BY <1>1, <1>2, SaverIs DEF Finished
<1> QED BY <1>3 DEF Undisturbed, Alone

\* A job in its save is active, is informed and runs with --wisdom.
LEMMA Busied ==
  ASSUME Gathered, NEW j \in Jobs, step[j][0] \in Busy, Running(j)
  PROVE  Active(j) /\ Informed(j) /\ scene.option[j].wisdom
<1>1. scene.option[j].wisdom /\ step[j][0] # "end"
  BY DEF Gathered, GatheredOf, Busy
<1> QED BY <1>1, SaverIs DEF Finished, Informed, Busy

\* After a step away from the file all jobs are calm.
LEMMA OrdinaryCalm ==
  ASSUME Typed, NEW j \in Jobs, NEW r \in Ranks(j), Ordinary(j, r), NEW i \in Jobs
  PROVE  Calm(i)
<1>0. 0 \in Ranks(i)
  BY Counts DEF Typed
<1>1. UNCHANGED <<scene, launched, killed>>
  BY OrdinaryTo
<1>2. Running(i)' = Running(i)
  BY <1>1 DEF Running
<1>3. CASE Leave(j, r)
  <2> DEFINE k == done[j][r] + 1
  <2>1. /\ step'[i][0] = IF i = j /\ r = 0 THEN After(j, r, k) ELSE step[i][0]
        /\ done'[i][0] = IF i = j /\ r = 0 THEN k ELSE done[i][0]
    BY <1>0, <1>3, LeaveCounts DEF Moves
  <2>2. CASE ~(i = j /\ r = 0)
    BY <1>1, <1>2, <2>1, <2>2, Unmoved
  <2>3. CASE i = j /\ r = 0
    <3>1. /\ step[i][0] = "in" /\ done[i][0] \in Nat /\ k \in Nat /\ scene \in Scenes
          /\ FirstTurn(i) \in Nat /\ FirstTurn(i)' = FirstTurn(i)
      BY <1>1, <1>3, <2>3, Counts, Fixed DEF Leave, At, Typed
    <3>2. /\ After(j, r, k) = "reopen" <=> k = FirstTurn(i) /\ scene.option[i].wisdom
          /\ After(j, r, k) \notin Busy \ {"reopen"}
      BY <2>3, <3>1, AfterIs
    <3>3. After(j, r, k) # "end"
      BY AfterLate
    <3>4. ~Saving(i) /\ ~Saving(i)'
      BY <2>1, <2>3, <3>1, <3>2 DEF Saving, Busy
    <3>5. scene.option[i].wisdom => (Finished(i)' <=> Finished(i))
      BY <2>1, <2>3, <3>1, <3>2 DEF Finished, Busy
    <3>6. Active(i)' => Active(i)
      <4>1. Active(i)' => Running(i) /\ scene.option[i].wisdom /\ ~Finished(i)'
        BY <1>1, <1>2 DEF Active, Through, Finished, Saving, Busy
      <4> QED BY <3>1, <3>5, <4>1, SaverIs
    <3>7. Informed(i)
      BY <3>1 DEF Informed
    <3>8. After(j, r, k) \notin {"relock", "export"}
      BY <3>2 DEF Busy
    <3> QED BY <1>2, <2>1, <2>3, <3>4, <3>5, <3>6, <3>7, <3>8 DEF Calm
  <2> QED BY <2>2, <2>3
<1>4. CASE ~Leave(j, r)
  <2>1. PICK to \in Steps \ Busy : Moves(j, r, to) /\ done' = done
    BY <1>4, OrdinaryTo
  <2>2. step'[i][0] = IF i = j /\ r = 0 THEN to ELSE step[i][0]
    BY <1>0, <2>1 DEF Moves
  <2>3. CASE ~(i = j /\ r = 0)
    BY <1>1, <1>2, <2>1, <2>2, <2>3, Unmoved
  <2>4. CASE i = j /\ r = 0
    <3>1. step[i][0] \notin Busy \cup {"end"}
      BY <1>4, <2>4 DEF Ordinary, Redirect, Parse, Restore, Enter, Plan, PrintDump, Flush, At, Busy
    <3>2. to = step'[i][0]
      BY <2>2, <2>4
    <3>3. ~Saving(i) /\ ~Saving(i)' /\ to \notin {"relock", "export"}
      BY <3>1, <3>2 DEF Saving, Busy
    <3>4. Finished(i)' <=> Finished(i)
      BY <1>1, <2>1, <3>1, <3>2, Fixed DEF Finished
    <3>5. Active(i)' => Active(i)
      <4>1. Active(i)' => Running(i) /\ scene.option[i].wisdom /\ ~Finished(i)'
        BY <1>1, <1>2 DEF Active, Through, Finished, Saving, Busy
      <4> QED BY <3>1, <3>4, <4>1, SaverIs
    <3>6. Active(i)' /\ Informed(i)' => Informed(i)
      <4>1. CASE Redirect(j, r)
        <5>1. to = "parse"
          BY <1>0, <2>2, <2>4, <3>2, <4>1, StepEffects DEF Moves
        <5> QED BY <3>2, <5>1 DEF Informed
      <4>2. CASE Parse(j, r)
        <5>1. to = "end" \/ to = "restore"
          BY <1>0, <2>2, <2>4, <3>2, <4>2, StepEffects DEF Moves
        <5> QED BY <3>2, <5>1 DEF Informed, Active, Through
      <4>3. CASE Restore(j, r)
        <5>1. to = IF scene.option[i].wisdom THEN "open" ELSE "call"
          BY <1>0, <2>2, <2>4, <3>2, <4>3, StepEffects DEF Moves
        <5> QED BY <1>1, <3>2, <5>1 DEF Informed, Active
      <4>4. CASE Enter(j, r) \/ Plan(j, r) \/ PrintDump(j, r) \/ Flush(j, r)
        BY <2>4, <4>4 DEF Enter, Plan, PrintDump, Flush, At, Informed
      <4> QED BY <1>4, <4>1, <4>2, <4>3, <4>4 DEF Ordinary
    <3> QED BY <1>2, <3>2, <3>3, <3>4, <3>5, <3>6 DEF Calm
  <2> QED BY <2>3, <2>4
<1> QED BY <1>3, <1>4

\* What rank 0 reads is what savers have written.
LEMMA ReadsAll ==
  ASSUME Undisturbed, Gathered, scene \in Scenes, NEW j \in Jobs, Active(j), ~Saving(j)
  PROVE  /\ Readable \subseteq Finders
         /\ \A s \in Savers : Learnt(s) \subseteq Readable
         /\ file = <<>> => Savers = {}
<1>1. \A i \in Jobs : ~Saving(i)
  BY OnlyOne
<1>2. CASE file = <<>> /\ Savers = {}
  BY <1>2 DEF Readable
<1>3. ASSUME NEW known \in SUBSET Finders, file = <<known, known>>,
             \A i \in Savers : Learnt(i) \subseteq known
      PROVE  Readable = known /\ file # <<>>
  <2>1. known # Hole
    BY FindersAre
  <2>2. Len(file) = 2 /\ file[1] = known /\ file[2] = known
    BY <1>3
  <2> QED BY <2>1, <2>2 DEF Readable
<1> QED BY <1>1, <1>2, <1>3 DEF Undisturbed, Whole

\* A job that is reading is active and has neither begun to save nor ended.
LEMMA ReaderActive ==
  ASSUME Typed, EarlyFirst, Gathered, NEW j \in Jobs, Running(j), step[j][0] \in Reads
  PROVE  Active(j) /\ ~Saving(j) /\ done[j][0] = 0 /\ ~Finished(j)
<1>1. 0 \in Ranks(j) /\ FirstTurn(j) \in {5, 6}
  BY Counts DEF Typed
<1>2. done[j][0] = 0
  BY <1>1 DEF EarlyFirst, EarlyOf, EarlySteps, Reads
<1>3. ~Finished(j) /\ ~Saving(j) /\ step[j][0] # "end" /\ scene.option[j].wisdom
  BY <1>1, <1>2 DEF Finished, Saving, Reads, Gathered, GatheredOf
<1> QED BY <1>2, <1>3, SaverIs

\* A job is launched when no other uses the file, or things are disturbed.
LEMMA LaunchKept ==
  ASSUME Typed, Gathered, Undisturbed, ~disturbed', NEW j \in Jobs, Launch(j)
  PROVE  Undisturbed'
<1>1. /\ UNCHANGED <<scene, step, done, wisdom, file, flushed, killed>>
      /\ j \notin launched /\ launched' = launched \cup {j}
      /\ scene.option[j].wisdom => \A i \in Jobs : ~Active(i)
  BY DEF Launch, Active
<1>2. step[j][0] = "redirect"
  BY <1>1 DEF Gathered, GatheredOf
<1>3. ASSUME NEW i \in Jobs
      PROVE  /\ Saving(i)' <=> Saving(i)
             /\ Finished(i)' <=> Finished(i)
             /\ Informed(i)' <=> Informed(i)
             /\ Through(i)' <=> Through(i)
             /\ i # j => (Running(i)' <=> Running(i))
  BY <1>1, Fixed DEF Saving, Finished, Informed, Through, Running
<1>4. Savers' = Savers
  BY <1>1, <1>3, SaversSame
<1>5. \A i \in Jobs : i # j => (Active(i)' <=> Active(i))
  BY <1>1, <1>3 DEF Active
<1>6. Alone'
  <2>1. \A i \in Jobs : Active(j)' => ~Active(i)
    BY <1>1 DEF Active
  <2> QED BY <1>5, <2>1 DEF Undisturbed, Alone
<1>7. Heard'
  <2>1. ASSUME NEW i \in Jobs, Active(i)', Informed(i)', NEW s \in Savers
        PROVE  Learnt(s) \subseteq wisdom'[i][0]
    <3>1. Informed(i) /\ i # j
      BY <1>2, <1>3, <2>1 DEF Informed
    <3> QED BY <1>1, <1>5, <2>1, <3>1 DEF Undisturbed, Heard
  <2> QED BY <1>1, <1>4, <2>1, HeardOn
<1>8. WisdomTyped'
  <2>1. \A i \in Jobs : Ranks(i)' = Ranks(i)
    BY <1>1, Fixed
  <2> QED BY <1>1, <2>1 DEF Undisturbed, WisdomTyped
<1>9. \A i \in Jobs : Saving(i) => Running(i)'
  BY <1>1 DEF Undisturbed, Alive, Running
<1> QED BY <1>1, <1>3, <1>4, <1>6, <1>7, <1>8, <1>9, StillKept

\* A job that dies does so while it saves, or things are not disturbed by it.
LEMMA DeathKept ==
  ASSUME Typed, Undisturbed, ~disturbed', [Next]_vars, NEW j \in Jobs,
         Kill(j) \/ \E r \in Ranks(j) : Abort(j, r)
  PROVE  Undisturbed'
<1>1. /\ UNCHANGED <<scene, step, done, wisdom, file, flushed, launched>>
      /\ killed' = killed \cup {j} /\ ~Saving(j)
  BY DEF Kill, Abort, Die
<1>2. WisdomTyped'
  <2>1. \A i \in Jobs : Ranks(i)' = Ranks(i)
    BY <1>1, Fixed
  <2> QED BY <1>1, <2>1 DEF Undisturbed, WisdomTyped
<1>3. ASSUME NEW i \in Jobs PROVE Calm(i)
  <2>1. Running(i)' => Running(i)
    BY <1>1 DEF Running
  <2>2. Saving(i) /\ Running(i) => Running(i)'
    BY <1>1 DEF Running
  <2> QED BY <1>1, <2>1, <2>2, Unmoved
<1> QED BY <1>1, <1>2, <1>3, CalmKept

\* Opening, locking, reading and closing.
LEMMA ReadKept ==
  ASSUME Typed, EarlyFirst, Gathered, Undisturbed, [Next]_vars, NEW j \in Jobs,
         Open(j) \/ LockShared(j) \/ Import(j) \/ Unlock(j)
  PROVE  Undisturbed'
<1>0. \A i \in Jobs : 0 \in Ranks(i) /\ FirstTurn(i) \in {5, 6}
  BY Counts DEF Typed
<1>1. UNCHANGED <<scene, launched, killed, done, file, flushed>>
  BY DEF Open, LockShared, Import, Unlock, jobVars, fileVars
<1>2. Running(j) /\ step[j][0] \in Reads
  BY DEF Open, LockShared, Import, Unlock, At, Reads
<1>3. /\ Active(j) /\ ~Saving(j) /\ ~Finished(j) /\ done[j][0] = 0
      /\ Readable \subseteq Finders /\ \A s \in Savers : Learnt(s) \subseteq Readable
      /\ file = <<>> => Savers = {}
  BY <1>2, ReaderActive, ReadsAll DEF Typed
<1>4. \E to : Moves(j, 0, to) /\ to \in {"lock", "import", "unlock", "call"}
  <2>1. \E to : Goto(j, 0, to) /\ to \in {"lock", "import", "unlock", "call"}
    BY DEF Open, LockShared, Import, Unlock
  <2> QED BY <1>0, <2>1, GotoMoves DEF Steps
<1>5. \A i \in Jobs : i # j => step'[i][0] = step[i][0]
  BY <1>0, <1>4 DEF Moves
<1>6. step'[j][0] \in {"lock", "import", "unlock", "call"}
  BY <1>0, <1>4 DEF Moves
<1>7. WisdomTyped'
  <2>1. \A i \in Jobs : Import(i) => Readable \subseteq Finders
    <3>1. ASSUME NEW i \in Jobs, Import(i) PROVE Readable \subseteq Finders
      BY <3>1, ReaderActive, ReadsAll DEF Import, At, Reads, Typed
    <3> QED BY <3>1
  <2> QED BY <1>1, <2>1, KeepsWisdomTyped DEF Undisturbed
<1>8. ASSUME NEW i \in Jobs
      PROVE  /\ Saving(i)' <=> Saving(i)
             /\ Finished(i)' <=> Finished(i)
             /\ step'[i][0] \in {"relock", "export"} => step[i][0] \in {"relock", "export"}
             /\ Running(i)' <=> Running(i)
             /\ Active(i)' => Active(i)
             /\ i # j => (Informed(i)' <=> Informed(i))
  <2>1. Running(i)' <=> Running(i)
    BY <1>1 DEF Running
  <2>2. FirstTurn(i)' = FirstTurn(i)
    BY <1>1, Fixed
  <2>3. CASE i = j
    <3>1. ~Saving(i)' /\ ~Finished(i)'
      BY <1>0, <1>1, <1>3, <1>6, <2>2, <2>3 DEF Saving, Finished, Busy
    <3> QED BY <1>3, <1>6, <2>1, <2>3, <3>1
  <2>4. CASE i # j
    BY <1>1, <1>5, <2>1, <2>2, <2>4 DEF Saving, Finished, Informed, Active, Through
  <2> QED BY <2>3, <2>4
<1>9. Savers' = Savers
  BY <1>1, <1>8, SaversSame
<1>10. Alone'
  BY <1>8, AloneOn DEF Undisturbed
<1>11. Heard'
  <2>1. ASSUME NEW i \in Jobs, Active(i)', Informed(i)', NEW s \in Savers
        PROVE  Learnt(s) \subseteq wisdom'[i][0]
    <3>1. wisdom[i][0] \subseteq wisdom'[i][0]
      BY <1>0, WisdomGrows
    <3>2. i = j
      BY <1>3, <1>8, <2>1 DEF Undisturbed, Alone
    <3>3. CASE Open(j)
      <4>1. file = <<>> \/ step'[j][0] = "lock"
        BY <1>0, <3>3, GotoMoves DEF Open, Moves, Steps
      <4> QED BY <1>3, <2>1, <3>2, <4>1 DEF Informed
    <3>4. CASE LockShared(j)
      <4>1. step'[j][0] = "import"
        BY <1>0, <3>4, GotoMoves DEF LockShared, Moves, Steps
      <4> QED BY <2>1, <3>2, <4>1 DEF Informed
    <3>5. CASE Import(j)
      <4>1. Readable \subseteq wisdom'[j][0]
        BY <1>0, <3>5 DEF Import, Typed
      <4> QED BY <1>3, <3>2, <4>1
    <3>6. CASE Unlock(j)
      <4>1. Informed(j)
        BY <3>6 DEF Unlock, At, Informed
      <4> QED BY <1>3, <3>1, <3>2, <4>1 DEF Undisturbed, Heard
    <3> QED BY <3>3, <3>4, <3>5, <3>6
  <2> QED BY <1>1, <1>9, <2>1, HeardOn
<1>12. \A i \in Jobs : Saving(i) => Running(i)' /\ wisdom'[i][0] = wisdom[i][0]
  <2>1. ASSUME NEW i \in Jobs, Saving(i) PROVE Running(i)' /\ wisdom'[i][0] = wisdom[i][0]
    BY <1>0, <1>8, <2>1, WisdomGrows DEF Undisturbed, Alive, Saving
  <2> QED BY <2>1
<1> QED BY <1>1, <1>7, <1>8, <1>9, <1>10, <1>11, <1>12, StillKept

\* Rank 0 of j does something while it saves, and nobody else uses the file.
LEMMA SaverAlone ==
  ASSUME Typed, Gathered, Undisturbed, UNCHANGED <<scene, launched, killed, done, wisdom>>,
         NEW j \in Jobs, Running(j), step[j][0] \in Busy, NEW to, Moves(j, 0, to)
  PROVE  /\ Active(j) /\ Informed(j) /\ WisdomTyped'
         /\ step'[j][0] = to
         /\ \A i \in Jobs : /\ Running(i)' <=> Running(i)
                            /\ i # j => ~Saving(i) /\ ~Saving(i)' /\ (Finished(i)' <=> Finished(i))
                                        /\ step'[i][0] = step[i][0] /\ ~Active(i)'
<1>1. Active(j) /\ Informed(j) /\ \A i \in Jobs : 0 \in Ranks(i)
  BY Busied, Counts DEF Typed
<1>2. WisdomTyped'
  <2>1. \A i \in Jobs : Ranks(i)' = Ranks(i)
    BY Fixed
  <2> QED BY <2>1 DEF Undisturbed, WisdomTyped
<1>3. \A i \in Jobs : i # j => ~Saving(i) /\ ~Active(i)
  <2>1. ASSUME NEW i \in Jobs, i # j PROVE ~Saving(i) /\ ~Active(i)
    BY <1>1, <2>1, OnlyOne DEF Undisturbed, Alone
  <2> QED BY <2>1
<1>4. \A i \in Jobs : Running(i)' <=> Running(i)
  BY DEF Running
<1>5. \A i \in Jobs : step'[i][0] = IF i = j THEN to ELSE step[i][0]
  BY <1>1 DEF Moves
<1>6. ASSUME NEW i \in Jobs, i # j
      PROVE  ~Saving(i)' /\ (Finished(i)' <=> Finished(i)) /\ ~Active(i)'
  <2>1. step'[i][0] = step[i][0] /\ ~Saving(i) /\ ~Active(i) /\ FirstTurn(i)' = FirstTurn(i)
    BY <1>3, <1>5, <1>6, Fixed
  <2>2. ~Saving(i)' /\ (Finished(i)' <=> Finished(i)) /\ (Through(i)' <=> Through(i))
    BY <2>1 DEF Saving, Finished, Through
  <2> QED BY <1>4, <2>1, <2>2 DEF Active
<1> QED BY <1>1, <1>2, <1>3, <1>4, <1>5, <1>6

\* As long as it has not closed the file all it has to do is to keep its draft.
LEMMA SavesOn ==
  ASSUME Typed, Gathered, Undisturbed, UNCHANGED <<scene, launched, killed, done, wisdom>>,
         NEW j \in Jobs, Running(j), step[j][0] \in Busy, NEW to, Moves(j, 0, to),
         to \in Busy \ {"reopen"}, DOMAIN flushed' = Jobs, DraftOf(j)'
  PROVE  Undisturbed'
<1>1. /\ Active(j) /\ Informed(j) /\ WisdomTyped' /\ step'[j][0] = to
      /\ \A i \in Jobs : /\ Running(i)' <=> Running(i)
                         /\ i # j => ~Saving(i) /\ ~Saving(i)' /\ (Finished(i)' <=> Finished(i))
                                     /\ step'[i][0] = step[i][0] /\ ~Active(i)'
  BY SaverAlone
<1>2. Saving(j)'
  BY <1>1 DEF Saving, Busy
<1>3. Finished(j)' <=> Finished(j)
  BY <1>1 DEF Finished
<1>4. Savers' = Savers
  BY <1>1, <1>3, SaversSame
<1>5. Alone'
  BY <1>1 DEF Alone
<1>6. Heard'
  <2>1. ASSUME NEW i \in Jobs, Active(i)', Informed(i)', NEW s \in Savers
        PROVE  Learnt(s) \subseteq wisdom'[i][0]
    <3>1. i = j
      BY <1>1, <2>1
    <3> QED BY <1>1, <2>1, <3>1 DEF Undisturbed, Heard
  <2> QED BY <1>4, <2>1, HeardOn
<1>7. Alive'
  BY <1>1 DEF Alive
<1>8. Draft'
  BY <1>1 DEF Draft, DraftOf
<1>9. Whole'
  BY <1>2 DEF Whole
<1> QED BY <1>1, <1>5, <1>6, <1>7, <1>8, <1>9 DEF Undisturbed

\* Each step of the save keeps what is known of the file.
LEMMA SaveKept ==
  ASSUME Typed, Gathered, Undisturbed, NEW j \in Jobs,
         (Reopen(j) /\ scene.writable) \/ LockExclusive(j) \/ Export(j) \/ UnlockExclusive(j)
  PROVE  Undisturbed'
<1>1. UNCHANGED <<scene, launched, killed, done, wisdom>> /\ Running(j)
  BY DEF Reopen, LockExclusive, Export, UnlockExclusive, jobVars, At
<1>2. 0 \in Ranks(j) /\ DraftOf(j) /\ DOMAIN flushed = Jobs
  BY Counts DEF Typed, Undisturbed, Draft
<1>3. CASE Reopen(j) /\ scene.writable
  <2>1. step[j][0] \in Busy /\ Moves(j, 0, "relock")
    BY <1>2, <1>3, GotoMoves DEF Reopen, At, Busy, Steps
  <2>2. file' = <<>> /\ flushed'[j] = 0 /\ DOMAIN flushed' = Jobs
    BY <1>2, <1>3 DEF Reopen
  <2>3. DraftOf(j)'
    BY <2>2 DEF DraftOf
  <2> QED BY <1>1, <2>1, <2>2, <2>3, SavesOn DEF Busy
<1>4. CASE LockExclusive(j)
  <2>1. /\ step[j][0] = "relock" /\ Saving(j) /\ Moves(j, 0, "export")
        /\ file' = file /\ flushed' = flushed
    BY <1>2, <1>4, GotoMoves DEF LockExclusive, At, Saving, Steps
  <2>2. DraftOf(j)'
    BY <1>1, <1>2, <2>1 DEF DraftOf
  <2> QED BY <1>1, <1>2, <2>1, <2>2, SavesOn DEF Busy
<1>5. CASE Export(j)
  <2>1. step[j][0] = "export" /\ Saving(j) /\ Moves(j, 0, "reunlock")
    BY <1>2, <1>5, GotoMoves DEF Export, At, Saving, Steps
  <2>2. flushed[j] = 0 /\ file = <<>>
    BY <1>2, <2>1 DEF DraftOf
  <2>3. PICK n \in {0, 1} : /\ flushed' = [flushed EXCEPT ![j] = n]
                            /\ file' = IF n = 1 THEN Write(file, 1, wisdom[j][0]) ELSE file
    BY <1>5 DEF Export
  <2>4. Write(<<>>, 1, wisdom[j][0]) = <<wisdom[j][0]>>
    BY DEF Write
  <2>5. DraftOf(j)'
    <3>1. step'[j][0] = "reunlock"
      BY <1>2, <2>1 DEF Moves
    <3>2. flushed'[j] = n
      BY <1>2, <2>3
    <3> QED BY <1>1, <2>2, <2>3, <2>4, <3>1, <3>2 DEF DraftOf
  <2>6. DOMAIN flushed' = Jobs
    BY <1>2, <2>3
  <2> QED BY <1>1, <2>1, <2>5, <2>6, SavesOn DEF Busy
<1>6. CASE UnlockExclusive(j)
  <2>1. /\ step[j][0] = "reunlock" /\ Saving(j) /\ Moves(j, 0, "close")
        /\ file' = file /\ flushed' = flushed
    BY <1>2, <1>6, GotoMoves DEF UnlockExclusive, At, Saving, Steps
  <2>2. step'[j][0] = "close"
    BY <1>2, <2>1 DEF Moves
  <2>3. DraftOf(j)'
    BY <1>1, <1>2, <2>1, <2>2 DEF DraftOf
  <2> QED BY <1>1, <1>2, <2>1, <2>3, SavesOn DEF Busy
<1> QED BY <1>3, <1>4, <1>5, <1>6

\* Closing the file leaves it whole, with all that the savers found out.
LEMMA CloseKept ==
  ASSUME Typed, Gathered, Undisturbed, NEW j \in Jobs, Close(j)
  PROVE  Undisturbed'
<1>1. UNCHANGED <<scene, launched, killed, done, wisdom, flushed>> /\ Running(j)
  BY DEF Close, jobVars, At
<1>2. 0 \in Ranks(j) /\ DraftOf(j) /\ DOMAIN flushed = Jobs
  BY Counts DEF Typed, Undisturbed, Draft
<1>3. step[j][0] = "close" /\ step[j][0] \in Busy /\ Saving(j) /\ Moves(j, 0, "call")
  BY <1>2, GotoMoves DEF Close, At, Saving, Busy, Steps
<1>4. /\ Active(j) /\ Informed(j) /\ WisdomTyped' /\ step'[j][0] = "call"
      /\ \A i \in Jobs : /\ Running(i)' <=> Running(i)
                         /\ i # j => ~Saving(i) /\ ~Saving(i)' /\ (Finished(i)' <=> Finished(i))
                                     /\ step'[i][0] = step[i][0] /\ ~Active(i)'
  BY <1>1, <1>3, SaverAlone
<1>5. PICK known : known = wisdom[j][0]
  OBVIOUS
<1>6. file' = <<known, known>>
  <2>1. flushed[j] \in {0, 1} /\ file = IF flushed[j] = 0 THEN <<>> ELSE <<known>>
    BY <1>2, <1>3, <1>5 DEF DraftOf
  <2>2. Write(<<>>, 1, known) = <<known>> /\ Write(<<known>>, 2, known) = <<known, known>>
    BY DEF Write
  <2> QED BY <1>5, <2>1, <2>2 DEF Close
<1>7. ~Saving(j)'
  BY <1>4 DEF Saving
<1>8. /\ known \in SUBSET Finders /\ Learnt(j) \subseteq known
      /\ \A i \in Savers : Learnt(i) \subseteq known
  <2>1. known \subseteq Finders
    BY <1>2, <1>5 DEF Undisturbed, WisdomTyped
  <2>2. GatheredOf(j) /\ FirstTurn(j) \in Nat
    BY Counts DEF Gathered, Typed
  <2>3. Learnt(j) \subseteq known
    BY <1>3, <1>5, <2>2 DEF GatheredOf
  <2> QED BY <1>4, <1>5, <2>1, <2>3 DEF Undisturbed, Heard
<1>9. \A i \in Jobs : i \in Savers' => i = j \/ i \in Savers
  <2>1. \A i \in Jobs : i \in Savers' => scene.option[i].wisdom /\ scene.writable /\ Finished(i)'
    BY <1>1 DEF Savers, Finished, Through, Saving, Busy
  <2> QED BY <1>4, <2>1, SaverIs
<1>10. Whole'
  <2>1. \A i \in Jobs : Learnt(i)' = Learnt(i)
    BY <1>1, LearntFixed
  <2>2. Savers' \subseteq Jobs
    BY DEF Savers
  <2>3. \A i \in Savers' : Learnt(i)' \subseteq known
    BY <1>8, <1>9, <2>1, <2>2
  <2>4. \E all \in SUBSET Finders :
          file' = <<all, all>> /\ \A i \in Savers' : Learnt(i)' \subseteq all
    BY <1>6, <1>8, <2>3
  <2> QED BY <2>4 DEF Whole
<1>11. \A i \in Jobs : ~Saving(i)' /\ ~Active(i)'
  <2>1. done'[j][0] >= FirstTurn(j)' /\ step'[j][0] # "reopen"
    BY <1>1, <1>3, <1>4, Fixed, Counts DEF Gathered, GatheredOf, Typed
  <2>2. ~Active(j)'
    BY <1>7, <2>1 DEF Active, Through
  <2> QED BY <1>4, <1>7, <2>2
<1>12. Alone' /\ Alive' /\ Heard'
  BY <1>11 DEF Alone, Alive, Heard
<1>13. Draft'
  BY <1>1, <1>2, <1>11 DEF Draft, DraftOf
<1> QED BY <1>4, <1>10, <1>12, <1>13 DEF Undisturbed

\* Where the file cannot be written there are no savers.
LEMMA UnwritableKept ==
  ASSUME Typed, Gathered, Undisturbed, NEW j \in Jobs, Reopen(j), ~scene.writable
  PROVE  Undisturbed'
<1>1. UNCHANGED <<scene, launched, killed, done, wisdom, file, flushed>> /\ Running(j)
  BY DEF Reopen, jobVars, At
<1>2. 0 \in Ranks(j)
  BY Counts DEF Typed
<1>3. step[j][0] = "reopen" /\ step[j][0] \in Busy /\ ~Saving(j) /\ Moves(j, 0, "call")
  BY <1>2, GotoMoves DEF Reopen, At, Saving, Busy, Steps
<1>4. /\ Active(j) /\ WisdomTyped' /\ step'[j][0] = "call"
      /\ \A i \in Jobs : /\ Running(i)' <=> Running(i)
                         /\ i # j => ~Saving(i) /\ ~Saving(i)' /\ (Finished(i)' <=> Finished(i))
                                     /\ step'[i][0] = step[i][0] /\ ~Active(i)'
  BY <1>1, <1>3, SaverAlone
<1>5. ~Saving(j)'
  BY <1>4 DEF Saving
<1>6. Savers = {} /\ Savers' = {}
  BY <1>1 DEF Savers
<1>7. Alone' /\ Heard'
  BY <1>4, <1>6 DEF Alone, Heard
<1> QED BY <1>1, <1>3, <1>4, <1>5, <1>6, <1>7, StillKept

\* No step takes what is known from the file, unless it disturbs things.
LEMMA NextUndisturbed ==
  ASSUME Typed, EarlyFirst, Gathered, ~disturbed => Undisturbed, ~disturbed', [Next]_vars
  PROVE  Undisturbed'
<1>1. Undisturbed
  <2>1. ASSUME NEW j \in Jobs, Launch(j) \/ Kill(j) \/ \E r \in Ranks(j) : Abort(j, r)
        PROVE  ~disturbed
    BY <2>1 DEF Launch, Kill, Abort, Die
  <2>2. ASSUME NEW j \in Jobs, FileStep(j) PROVE disturbed' = disturbed
    BY <2>2 DEF FileStep, Open, LockShared, Import, Unlock, Reopen, LockExclusive, Export,
                UnlockExclusive, Close, fileVars
  <2>3. ASSUME NEW j \in Jobs, NEW r \in Ranks(j), Ordinary(j, r) PROVE disturbed' = disturbed
    BY <2>3, OrdinaryTo
  <2>4. UNCHANGED vars => disturbed' = disturbed
    BY DEF vars
  <2> QED BY <2>1, <2>2, <2>3, <2>4, NextKinds
<1>2. CASE UNCHANGED vars
  <2>1. UNCHANGED <<scene, file, flushed, launched, killed, step, done, wisdom>>
    BY <1>2 DEF vars
  <2>2. \A i \in Jobs : Calm(i)
    BY <2>1, Unmoved DEF Running
  <2>3. WisdomTyped'
    BY <1>1, <2>1, Fixed DEF Undisturbed, WisdomTyped
  <2> QED BY <1>1, <2>1, <2>2, <2>3, CalmKept
<1>3. ASSUME NEW j \in Jobs, FileStep(j) PROVE Undisturbed'
  <2>1. CASE Open(j) \/ LockShared(j) \/ Import(j) \/ Unlock(j)
    BY <1>1, <2>1, ReadKept
  <2>2. CASE Reopen(j) \/ LockExclusive(j) \/ Export(j) \/ UnlockExclusive(j)
    BY <1>1, <2>2, SaveKept, UnwritableKept
  <2>3. CASE Close(j)
    BY <1>1, <2>3, CloseKept
  <2> QED BY <1>3, <2>1, <2>2, <2>3 DEF FileStep
<1>4. ASSUME NEW j \in Jobs, NEW r \in Ranks(j), Ordinary(j, r) PROVE Undisturbed'
  <2>1. UNCHANGED <<scene, file, flushed>>
    BY <1>4, OrdinaryTo
  <2>2. \A i \in Jobs : Calm(i)
    BY <1>4, OrdinaryCalm
  <2>3. WisdomTyped'
    <3>1. \A i \in Jobs : Import(i) => Readable \subseteq Finders
      <4>1. ASSUME NEW i \in Jobs, Import(i) PROVE Readable \subseteq Finders
        BY <1>1, <4>1, ReaderActive, ReadsAll DEF Import, At, Reads, Typed
      <4> QED BY <4>1
    <3> QED BY <1>1, <2>1, <3>1, KeepsWisdomTyped DEF Undisturbed
  <2> QED BY <1>1, <2>1, <2>2, <2>3, CalmKept
<1> QED BY <1>1, <1>2, <1>3, <1>4, LaunchKept, DeathKept, NextKinds

\* The invariant of the file holds at the start,
LEMMA InitWInv == Init => WInv
<1> SUFFICES ASSUME Init PROVE WInv
  OBVIOUS
<1>1. \A j \in Jobs : Ranks(j) \subseteq Nat /\ 0 \in Ranks(j) /\ FirstTurn(j) \in {5, 6} /\ Len(Queries) = 5
  BY Counts DEF Init
<1>2. \A j \in Jobs : \A r \in Ranks(j) :
        step[j][r] = "redirect" /\ done[j][r] = 0 /\ wisdom[j][r] = {}
  BY DEF Init
<1>3. ASSUME NEW j \in Jobs
      PROVE  /\ step[j][0] = "redirect" /\ done[j][0] = 0
             /\ ~Finished(j) /\ ~Saving(j) /\ ~Running(j)
  <2>1. FirstTurn(j) \in {5, 6} /\ step[j][0] = "redirect" /\ done[j][0] = 0
    BY <1>1, <1>2
  <2>2. ~Finished(j)
    BY <2>1 DEF Finished
  <2> QED BY <2>1, <2>2 DEF Init, Saving, Running
<1>4. Planned /\ Gathered
  <2>1. \A j \in Jobs : \A r \in Ranks(j) : PlannedOf(j, r)
    <3>1. ASSUME NEW j \in Jobs, NEW r \in Ranks(j) PROVE PlannedOf(j, r)
      <4>1. step[j][r] = "redirect" /\ done[j][r] = 0 /\ Len(Queries) = 5
        BY <1>1, <1>2
      <4> QED BY <4>1 DEF PlannedOf
    <3> QED BY <3>1
  <2>2. ASSUME NEW j \in Jobs PROVE GatheredOf(j)
    <3>1. FirstTurn(j) \in {5, 6} /\ ~(0 >= FirstTurn(j))
      BY <1>1
    <3> QED BY <1>3, <3>1 DEF GatheredOf, Busy, Reads
  <2> QED BY <2>1, <2>2 DEF Planned, Gathered
<1>5. Savers = {}
  BY <1>3, SaverIs DEF Savers
<1>6. Undisturbed
  BY <1>2, <1>3, <1>5 DEF Init, Undisturbed, WisdomTyped, Alone, Active, Alive, Heard, Draft,
                          DraftOf, Whole
<1> QED BY <1>4, <1>6 DEF WInv

\* and every step keeps it.
LEMMA NextWInv == IInv /\ WInv /\ [Next]_vars => WInv'
<1> SUFFICES ASSUME IInv, WInv, [Next]_vars PROVE WInv'
  OBVIOUS
<1>1. scene' = scene /\ Typed /\ EarlyFirst
  BY KeepsTurns DEF IInv
<1> QED BY <1>1, KeepsPlanned, KeepsGathered, NextUndisturbed DEF WInv

\* However many jobs are run one after the other, and whatever happens to jobs
\* that are not saving, the file has in it what all ranks of all savers found
\* out: emptying it before it is locked (underling_bench.c:833) loses nothing,
\* and giving up the lock before it is closed does no harm.
THEOREM WisdomKept == Spec => []KeptWhenAlone
<1>1. ASSUME WInv, Typed PROVE KeptWhenAlone
  <2> SUFFICES ASSUME ~disturbed, \A j \in Jobs : Running(j) => ~Saving(j), NEW s \in Savers
               PROVE  Learnt(s) \subseteq Readable
    BY DEF KeptWhenAlone, Accumulated
  <2>1. Undisturbed
    BY <1>1 DEF WInv
  <2>2. \A j \in Jobs : ~Saving(j)
    BY <2>1 DEF Undisturbed, Alive
  <2>3. PICK known \in SUBSET Finders :
          file = <<known, known>> /\ \A i \in Savers : Learnt(i) \subseteq known
    BY <2>1, <2>2 DEF Undisturbed, Whole
  <2>4. known # Hole
    BY <1>1, FindersAre DEF Typed
  <2>5. Len(file) = 2 /\ file[1] = known /\ file[2] = known
    BY <2>3
  <2> QED BY <2>3, <2>4, <2>5 DEF Readable
<1>2. Init => WInv
  BY InitWInv
<1>3. IInv /\ WInv /\ [Next]_vars => WInv'
  BY NextWInv
<1>4. IInv => Typed
  BY DEF IInv
<1> QED BY <1>1, <1>2, <1>3, <1>4, AlwaysIInv, PTL DEF Spec
=============================================================================
