------------------------------ MODULE BenchJob ------------------------------
(***************************************************************************)
(* underling_bench around its main loop, as jobs of several ranks that     *)
(* share a terminal within a job and one file of FFTW wisdom among jobs.   *)
(*                                                                         *)
(* Every rank silences itself while it parses its arguments, rank 0 reads  *)
(* the wisdom file and broadcasts what it read, all ranks plan, rank 0     *)
(* gathers and saves what they learned, and the ranks print what they hold *)
(* one after the other, a barrier in front of each.  Jobs are started at   *)
(* any time, also while others run, and may be killed at any time.         *)
(*                                                                         *)
(* Not here: the collectives inside grid, problem and plan creation        *)
(* (Setup) and the loop that is timed (Bench).                             *)
(***************************************************************************)
EXTENDS Integers, Sequences, FiniteSets

CONSTANTS Jobs,        \* the invocations
          Scenes,      \* how they are invoked, and what may befall them
          Hole         \* bytes of the wisdom file nobody wrote

\* ranks: how many there are.  arguments: "right", "wrong" when argp objects,
\* "empty" when no grid is asked for.  wisdom: WISDOM_FILE is given.  dump:
\* verbose enough to show extents.  repeat, trip: there are iterations, forward
\* and backward.  exceeds: the ranks that see more error than abstol.
Option == [ranks : Nat \ {0}, arguments : {"right", "wrong", "empty"},
           wisdom : BOOLEAN, dump : BOOLEAN, repeat : BOOLEAN, trip : BOOLEAN,
           exceeds : SUBSET Nat]

\* locking: flock works on the file.  writable: it can be opened to write.
\* kills: bound on the jobs that are killed.
Scene == [option : [Jobs -> Option], locking : BOOLEAN, writable : BOOLEAN, kills : Nat]

ASSUME ScenesAssumption == Scenes \subseteq Scene

AnyRank == UNION {UNION {0 .. sc.option[j].ranks - 1 : j \in Jobs} : sc \in Scenes}

\* What nobody wrote is not what anybody found out.
ASSUME HoleAssumption == \A known \in SUBSET (Jobs \X AnyRank) : known # Hole

VARIABLES scene,       \* the scene, fixed
          launched,    \* the jobs that were started
          killed,      \* those of them that were killed or aborted
          step,        \* step[j][r]: what rank r of job j is about to do
          done,        \* done[j][r]: the collectives it has completed
          silent,      \* the <<j, r>> whose stdout and stderr go to /dev/null
          told,        \* told[j]: how often the user was told of wrong arguments
          shown,       \* shown[j]: the ranks whose dump the terminal has in full
          wisdom,      \* wisdom[j][r]: what it knows, as the <<j, r>> who found out
          status,      \* status[j][r]: its exit status
          file,        \* the parts of the wisdom file
          lock,        \* lock[j]: what rank 0 of j holds on it
          flushed,     \* flushed[j]: the parts of j's export already written
          disturbed    \* a job with wisdom was started while another one was not
                       \* through with the file, or one died while saving

vars == <<scene, launched, killed, step, done, silent, told, shown, wisdom,
          status, file, lock, flushed, disturbed>>

jobVars  == <<scene, launched, killed>>
ioVars   == <<silent, told, shown>>
fileVars == <<file, lock, flushed, disturbed>>

Ranks(j) == 0 .. scene.option[j].ranks - 1

\* The collectives of main over MPI_COMM_WORLD, in order.  The four in the
\* middle are underling_local_memory_allreduce for the minimum, twice the
\* maximum, and the sum.
Queries == <<"broadcast", "min", "max", "max", "sum">>

Gathers(j) == IF scene.option[j].wisdom THEN 1 ELSE 0

\* The number of collectives before the barrier in front of rank 0's dump.
FirstTurn(j) == Len(Queries) + Gathers(j)

Barriers(j) == IF scene.option[j].dump THEN scene.option[j].ranks + 1 ELSE 0

Calls(j) ==
  FirstTurn(j) + Barriers(j)
    + (IF scene.option[j].repeat THEN 1 ELSE 0)
    + (IF scene.option[j].repeat /\ scene.option[j].trip THEN 1 ELSE 0)

---------------------------------------------------------------------------
(* The wisdom file.  An export takes two parts, so that it can be half     *)
(* written: what a process prints reaches the file when a buffer is full,  *)
(* the rest when it is closed.  A part is known by the export it is of,    *)
(* and sits where the export has it, whatever else was written.            *)

\* External: fftw_import_wisdom_from_file takes all of a file or nothing.
Readable == IF Len(file) = 2 /\ file[1] = file[2] /\ file[1] # Hole THEN file[1] ELSE {}

Write(f, n, known) ==
  [i \in 1 .. (IF Len(f) < n THEN n ELSE Len(f)) |->
     IF i = n THEN known ELSE IF i <= Len(f) THEN f[i] ELSE Hole]

---------------------------------------------------------------------------

Init ==
  /\ scene \in Scenes
  /\ launched = {}
  /\ killed = {}
  /\ step = [j \in Jobs |-> [r \in Ranks(j) |-> "redirect"]]
  /\ done = [j \in Jobs |-> [r \in Ranks(j) |-> 0]]
  /\ silent = {}
  /\ told = [j \in Jobs |-> 0]
  /\ shown = [j \in Jobs |-> {}]
  /\ wisdom = [j \in Jobs |-> [r \in Ranks(j) |-> {}]]
  /\ status = [j \in Jobs |-> [r \in Ranks(j) |-> "none"]]
  /\ file = <<>>
  /\ lock = [j \in Jobs |-> "none"]
  /\ flushed = [j \in Jobs |-> 0]
  /\ disturbed = FALSE

Running(j) == j \in launched \ killed

At(j, r, s) == Running(j) /\ step[j][r] = s

Goto(j, r, s) == step' = [step EXCEPT ![j][r] = s]

\* Rank 0 saves from the moment it empties the file until it closes it.
Saving(j) == step[j][0] \in {"relock", "export", "reunlock", "close"}

\* Rank 0 is done with the file.
Through(j) ==
  \/ step[j][0] = "end"
  \/ done[j][0] >= FirstTurn(j) /\ step[j][0] # "reopen" /\ ~Saving(j)

Launch(j) ==
  /\ j \notin launched
  /\ launched' = launched \cup {j}
  /\ disturbed' = (disturbed \/ /\ scene.option[j].wisdom
                                /\ \E i \in Jobs : Running(i) /\ scene.option[i].wisdom
                                                   /\ ~Through(i))
  /\ UNCHANGED <<ioVars, scene, killed, step, done, wisdom, status, file, lock, flushed>>

\* The kernel drops the locks of a process that dies; its buffers are lost.
Die(j) ==
  /\ killed' = killed \cup {j}
  /\ lock' = [lock EXCEPT ![j] = "none"]
  /\ disturbed' = (disturbed \/ Saving(j))

Kill(j) ==
  /\ Running(j)
  /\ \E r \in Ranks(j) : step[j][r] # "end"
  /\ Cardinality(killed) < scene.kills
  /\ Die(j)
  /\ UNCHANGED <<ioVars, scene, launched, step, done, wisdom, status, file, flushed>>

---------------------------------------------------------------------------
(* Arguments: mpi_argp_parse.                                              *)

\* Mutant: every rank keeps its stdout and stderr.
RedirectNobody(j, r) ==
  /\ At(j, r, "redirect")
  /\ Goto(j, r, "parse")
  /\ UNCHANGED <<jobVars, ioVars, fileVars, done, wisdom, status>>

Redirect(j, r) ==
  /\ At(j, r, "redirect")
  /\ silent' = IF r # 0 THEN silent \cup {<<j, r>>} ELSE silent
  /\ Goto(j, r, "parse")
  /\ UNCHANGED <<jobVars, fileVars, done, told, shown, wisdom, status>>

\* argp tells the user what is wrong and exits.
Parse(j, r) ==
  /\ At(j, r, "parse")
  /\ IF scene.option[j].arguments = "wrong"
     THEN /\ told' = IF <<j, r>> \in silent THEN told ELSE [told EXCEPT ![j] = @ + 1]
          /\ status' = [status EXCEPT ![j][r] = "usage"]
          /\ Goto(j, r, "end")
     ELSE /\ Goto(j, r, "restore")
          /\ UNCHANGED <<told, status>>
  /\ UNCHANGED <<jobVars, fileVars, done, silent, shown, wisdom>>

Restore(j, r) ==
  /\ At(j, r, "restore")
  /\ silent' = silent \ {<<j, r>>}
  /\ Goto(j, r, IF scene.option[j].wisdom /\ r = 0 THEN "open" ELSE "call")
  /\ UNCHANGED <<jobVars, fileVars, done, told, shown, wisdom, status>>

---------------------------------------------------------------------------
(* Loading wisdom, on rank 0.                                              *)

\* Nothing to read may be a file that is empty, or none, which is not opened.
Open(j) ==
  /\ At(j, 0, "open")
  /\ \E next \in {"lock", "call"} : (next = "call" => file = <<>>) /\ Goto(j, 0, next)
  /\ UNCHANGED <<jobVars, ioVars, fileVars, done, wisdom, status>>

Compatible(j, how) ==
  \A i \in Jobs \ {j} : lock[i] = "none" \/ (how = "shared" /\ lock[i] = "shared")

\* External: flock waits for the others; where it does not work there is a
\* warning and rank 0 goes on.
Flock(j, how) ==
  IF scene.locking
  THEN Compatible(j, how) /\ lock' = [lock EXCEPT ![j] = how]
  ELSE UNCHANGED lock

LockShared(j) ==
  /\ At(j, 0, "lock")
  /\ Flock(j, "shared")
  /\ Goto(j, 0, "import")
  /\ UNCHANGED <<jobVars, ioVars, done, wisdom, status, file, flushed, disturbed>>

Import(j) ==
  /\ At(j, 0, "import")
  /\ wisdom' = [wisdom EXCEPT ![j][0] = @ \cup Readable]
  /\ Goto(j, 0, "unlock")
  /\ UNCHANGED <<jobVars, ioVars, fileVars, done, status>>

\* Mutant: the lock is kept, and the file left open.
UnlockNothing(j) ==
  /\ At(j, 0, "unlock")
  /\ Goto(j, 0, "call")
  /\ UNCHANGED <<jobVars, ioVars, fileVars, done, wisdom, status>>

Unlock(j) ==
  /\ At(j, 0, "unlock")
  /\ lock' = [lock EXCEPT ![j] = "none"]
  /\ Goto(j, 0, "call")
  /\ UNCHANGED <<jobVars, ioVars, done, wisdom, status, file, flushed, disturbed>>

---------------------------------------------------------------------------
(* Collectives.  A rank leaves one when all ranks of the job have entered  *)
(* it.  Ranks other than 0 may leave the reduction of times before others  *)
(* have entered it, which would make no difference to what follows.        *)

\* Mutant: one collective more than the job has.
EnterOnceMore(j, r) ==
  /\ At(j, r, "call")
  /\ Goto(j, r, IF done[j][r] <= Calls(j) THEN "in" ELSE "end")
  /\ UNCHANGED <<jobVars, ioVars, fileVars, done, wisdom, status>>

Enter(j, r) ==
  /\ At(j, r, "call")
  /\ Goto(j, r, IF done[j][r] < Calls(j) THEN "in" ELSE "end")
  /\ status' = IF done[j][r] = Calls(j) /\ status[j][r] = "none"
               THEN [status EXCEPT ![j][r] = "fine"] ELSE status
  /\ UNCHANGED <<jobVars, ioVars, fileVars, done, wisdom>>

Entered(j, k) == \A r \in Ranks(j) : done[j][r] > k \/ (done[j][r] = k /\ step[j][r] = "in")

\* Mutant: all ranks print after the first barrier.
TurnForAll(j, r) == FirstTurn(j) + 1

\* The collective of its job after which a rank prints: the barrier numbered r.
Turn(j, r) == FirstTurn(j) + 1 + r

Prints(j, r, k) == scene.option[j].dump /\ k = Turn(j, r)

\* What a rank that leaves its collective number k turns to.
After(j, r, k) ==
  CASE Prints(j, r, k)                                     -> "print"
    [] k = 1 /\ scene.option[j].arguments = "empty"        -> "abort"
    [] k = Len(Queries)                                    -> "plan"
    [] k = FirstTurn(j) /\ scene.option[j].wisdom /\ r = 0 -> "reopen"
    [] OTHER                                               -> "call"

\* Mutant: what rank 0 loaded is not broadcast.
LearnedAlone(j, r, k) ==
  IF k = FirstTurn(j) /\ scene.option[j].wisdom /\ r = 0
  THEN UNION {wisdom[j][q] : q \in Ranks(j)} ELSE wisdom[j][r]

\* Rank 0 knows no less than it is told; from a gathering only rank 0 is
\* assumed to learn.
Learned(j, r, k) ==
  IF k = 1 THEN wisdom[j][r] \cup wisdom[j][0]
  ELSE IF k = FirstTurn(j) /\ scene.option[j].wisdom /\ r = 0
  THEN UNION {wisdom[j][q] : q \in Ranks(j)}
  ELSE wisdom[j][r]

\* Mutant: every rank judges by its own error.
TooMuchOwnError(j, r) == r \in scene.option[j].exceeds

\* The last collective of a round trip compares the worst error of any rank.
TooMuchError(j, r) == scene.option[j].exceeds \cap Ranks(j) # {}

Judged(j, r, k) ==
  IF k = Calls(j) /\ scene.option[j].repeat /\ scene.option[j].trip /\ TooMuchError(j, r)
  THEN "failed" ELSE status[j][r]

Leave(j, r) ==
  LET k == done[j][r] + 1
  IN
  /\ At(j, r, "in")
  /\ Entered(j, done[j][r])
  /\ done' = [done EXCEPT ![j][r] = k]
  /\ wisdom' = [wisdom EXCEPT ![j][r] = Learned(j, r, k)]
  /\ status' = [status EXCEPT ![j][r] = Judged(j, r, k)]
  /\ Goto(j, r, After(j, r, k))
  /\ UNCHANGED <<jobVars, ioVars, fileVars>>

\* MPI_Abort without a grid to work on takes the whole job down.
Abort(j, r) ==
  /\ At(j, r, "abort")
  /\ Die(j)
  /\ UNCHANGED <<ioVars, scene, launched, step, done, wisdom, status, file, flushed>>

\* The transpose and transform plans: every rank finds out something.
Plan(j, r) ==
  /\ At(j, r, "plan")
  /\ wisdom' = [wisdom EXCEPT ![j][r] = @ \cup {<<j, r>>}]
  /\ Goto(j, r, "call")
  /\ UNCHANGED <<jobVars, ioVars, fileVars, done, status>>

---------------------------------------------------------------------------
(* Saving wisdom, on rank 0.                                               *)

\* fopen(..., "w+") empties the file before any lock is asked for.
Reopen(j) ==
  /\ At(j, 0, "reopen")
  /\ IF scene.writable
     THEN file' = <<>> /\ flushed' = [flushed EXCEPT ![j] = 0] /\ Goto(j, 0, "relock")
     ELSE Goto(j, 0, "call") /\ UNCHANGED <<file, flushed>>
  /\ UNCHANGED <<jobVars, ioVars, done, wisdom, status, lock, disturbed>>

LockExclusive(j) ==
  /\ At(j, 0, "relock")
  /\ Flock(j, "exclusive")
  /\ Goto(j, 0, "export")
  /\ UNCHANGED <<jobVars, ioVars, done, wisdom, status, file, flushed, disturbed>>

\* At least the last part stays in the buffer.
Export(j) ==
  /\ At(j, 0, "export")
  /\ \E n \in {0, 1} :
       /\ flushed' = [flushed EXCEPT ![j] = n]
       /\ file' = IF n = 1 THEN Write(file, 1, wisdom[j][0]) ELSE file
  /\ Goto(j, 0, "reunlock")
  /\ UNCHANGED <<jobVars, ioVars, done, wisdom, status, lock, disturbed>>

UnlockExclusive(j) ==
  /\ At(j, 0, "reunlock")
  /\ lock' = [lock EXCEPT ![j] = "none"]
  /\ Goto(j, 0, "close")
  /\ UNCHANGED <<jobVars, ioVars, done, wisdom, status, file, flushed, disturbed>>

\* Mutant: what is in the buffer is not written.
CloseUnwritten(j) ==
  /\ At(j, 0, "close")
  /\ Goto(j, 0, "call")
  /\ UNCHANGED <<jobVars, ioVars, fileVars, done, wisdom, status>>

\* fclose writes what is left, the lock already given up.
Close(j) ==
  LET first == IF flushed[j] = 0 THEN Write(file, 1, wisdom[j][0]) ELSE file
  IN
  /\ At(j, 0, "close")
  /\ file' = Write(first, 2, wisdom[j][0])
  /\ Goto(j, 0, "call")
  /\ UNCHANGED <<jobVars, ioVars, done, wisdom, status, lock, flushed, disturbed>>

---------------------------------------------------------------------------
(* The dump, in turns.                                                     *)

PrintDump(j, r) ==
  /\ At(j, r, "print")
  /\ Goto(j, r, "flush")
  /\ UNCHANGED <<jobVars, ioVars, fileVars, done, wisdom, status>>

Flush(j, r) ==
  /\ At(j, r, "flush")
  /\ shown' = IF <<j, r>> \in silent THEN shown ELSE [shown EXCEPT ![j] = @ \cup {r}]
  /\ Goto(j, r, "call")
  /\ UNCHANGED <<jobVars, fileVars, done, silent, told, wisdom, status>>

---------------------------------------------------------------------------

Step(j, r) ==
  \/ Redirect(j, r) \/ Parse(j, r) \/ Restore(j, r)
  \/ Enter(j, r) \/ Leave(j, r) \/ Abort(j, r) \/ Plan(j, r)
  \/ PrintDump(j, r) \/ Flush(j, r)

FileStep(j) ==
  \/ Open(j) \/ LockShared(j) \/ Import(j) \/ Unlock(j)
  \/ Reopen(j) \/ LockExclusive(j) \/ Export(j) \/ UnlockExclusive(j) \/ Close(j)

Next ==
  \E j \in Jobs :
    \/ Launch(j)
    \/ Kill(j)
    \/ FileStep(j)
    \/ \E r \in Ranks(j) : Step(j, r)

\* The operating system runs every process, and grants a lock in the end: jobs
\* are finite in number, so that a lock is not taken away for ever.
Fairness ==
  /\ \A j \in Jobs : WF_vars(FileStep(j))
  /\ \A j \in Jobs : \A r \in AnyRank : WF_vars(r \in Ranks(j) /\ Step(j, r))

Spec == Init /\ [][Next]_vars /\ Fairness

---------------------------------------------------------------------------
(* Properties                                                              *)

Steps == {"redirect", "parse", "restore", "open", "lock", "import", "unlock", "call", "in",
          "abort", "plan", "reopen", "relock", "export", "reunlock", "close", "print",
          "flush", "end"}

\* Every variable has its type; only rank 0 has anything to do with the file.
TypeOK ==
  /\ scene \in Scenes
  /\ launched \subseteq Jobs
  /\ killed \subseteq launched
  /\ DOMAIN step = Jobs /\ DOMAIN done = Jobs
  /\ \A j \in Jobs : /\ step[j] \in [Ranks(j) -> Steps]
                     /\ done[j] \in [Ranks(j) -> Nat]
                     /\ shown[j] \subseteq Ranks(j)
                     /\ lock[j] \in {"none", "shared", "exclusive"}
                     /\ \A r \in Ranks(j) : done[j][r] <= Calls(j)
                     /\ \A r \in Ranks(j) : step[j][r] = "end" => status[j][r] # "none"

Printing(j, r) == step[j][r] \in {"print", "flush"}

\* underling_bench.c:853 "Perform one rank at a time to avoid jumbling output":
\* whoever prints, the ranks before it have printed all of theirs and no rank
\* after it has begun; and a job that runs to its end has shown every rank's.
DumpsInTurn ==
  \A j \in Jobs :
    /\ \A r \in Ranks(j) : Printing(j, r) => shown[j] = 0 .. r - 1
    /\ scene.option[j].dump /\ scene.option[j].arguments = "right"
         /\ (\A r \in Ranks(j) : step[j][r] = "end") => shown[j] = Ranks(j)

\* mpi_argp.h: "Output from argp_parse will only be observable from rank zero":
\* a wrong command line is complained about once, not once a rank.
OneComplaint ==
  \A j \in Jobs :
    /\ told[j] <= 1
    /\ (\E r \in Ranks(j) : status[j][r] = "usage")
         /\ (\A r \in Ranks(j) : step[j][r] = "end") => told[j] = 1

Foreign(j, r) == {u \in wisdom[j][r] : u[1] # j}

\* Once the wisdom is broadcast all ranks plan with the same knowledge of
\* earlier jobs, whatever other jobs do to the file meanwhile.
SameWisdomEverywhere ==
  \A j \in Jobs : \A r, q \in Ranks(j) :
    done[j][r] >= 1 /\ done[j][q] >= 1 => Foreign(j, r) = Foreign(j, q)

\* Jobs in which rank 0 has closed the file it saved to.
Savers == {j \in Jobs : /\ scene.option[j].wisdom /\ scene.writable
                        /\ done[j][0] >= FirstTurn(j) /\ Through(j)}

Learnt(j) == {<<j, r>> : r \in Ranks(j)}

\* Nobody is writing the file and it has in it what every saver found out.
Accumulated ==
  (\A j \in Jobs : Running(j) => ~Saving(j)) =>
    \A j \in Savers : Learnt(j) \subseteq Readable

\* As long as no job that uses the file is started while another one is running
\* and not through with it, and none dies while saving, the file holds what every
\* rank of every such job found out, also after jobs died elsewhere.
KeptWhenAlone == ~disturbed => Accumulated

\* underling_bench.c:145 "FFTW wisdom is imported from and accumulated within
\* WISDOM_FILE".  Locking "to reduce processes stepping on each other" (564)
\* does not do it for jobs that overlap.
WisdomAccumulates == killed = {} => Accumulated

\* underling_bench.c:1130 "with failure being uniform across all ranks due to
\* Allreduce".
UniformVerdict ==
  \A j \in Jobs : \A r, q \in Ranks(j) :
    step[j][r] = "end" /\ step[j][q] = "end" => status[j][r] = status[j][q]

\* No rank waits for ever in a collective or for a lock: every rank of a job
\* that is launched exits or is killed.
EveryRankExits ==
  \A j \in Jobs : j \in launched ~>
    (j \in killed \/ \A r \in Ranks(j) : step[j][r] = "end")

=============================================================================
